----------------------------- MODULE MCServerApi -----------------------------
(* Instances of ServerApi for TLC.                                         *)
EXTENDS ServerApi, TLC

MCHosts == {1, 2}

Token(mode) == [mode |-> mode, scopes |-> <<>>, hosts |-> {}, projects |-> {}, prefixes |-> {},
                raw |-> FALSE]
Entry(scope, denied) == [scope |-> scope, denied |-> denied]

Tokens ==
    [mode \in Modes |-> Token(mode)]
      @@ [host1 |-> [Token("operate-host") EXCEPT !.hosts = {1}],
          host2 |-> [Token("operate-template") EXCEPT !.hosts = {2}],
          project |-> [Token("operate-project") EXCEPT !.projects = {1}, !.raw = TRUE,
                                                     !.scopes = <<Entry("runtime:raw-command", FALSE)>>],
          denied |-> [Token("operate-project") EXCEPT !.raw = TRUE,
                        !.scopes = <<Entry("runtime:raw-command", FALSE), Entry("any", FALSE),
                                     Entry("runtime:raw-command", TRUE)>>],
          path |-> [Token("operate-template") EXCEPT !.prefixes = {<<"codex">>}],
          srv |-> [Token("operate-template") EXCEPT !.prefixes = {<<"srv">>}]]

Calls0 == [op |-> "hosts", token |-> "person", host |-> 0, project |-> 0, path |-> <<>>,
           to |-> <<>>, projectPath |-> <<>>, codexPath |-> <<>>, cwd |-> <<>>,
           id |-> 0, key |-> "dev", processKey |-> "none", on |-> TRUE, codex |-> TRUE, command |-> "c",
           raw |-> FALSE, full |-> FALSE, unapproved |-> FALSE]

By(token, call) == [call EXCEPT !.token = token]
Do(op) == [Calls0 EXCEPT !.op = op]

Ensure(path)   == [Do("ensureProcessFromTemplate") EXCEPT !.host = 1, !.codexPath = path]
EnsureAt(path) == [Do("ensureProcessFromTemplate") EXCEPT !.host = 1, !.projectPath = path]
EnsureOf(p)    == [Do("ensureProcessFromTemplate") EXCEPT !.host = 1, !.project = p]
Upsert(h, p, on) == [Do("upsertProcessTemplate") EXCEPT !.host = h, !.project = p, !.on = on]
MapTo(to)      == [Do("upsertHostPathMapping") EXCEPT !.host = 1, !.path = <<"codex">>, !.to = to]
Discovery      == Do("discovery.projects")

App == <<"srv", "app">>
Web == <<"srv", "web">>
Inside == <<"codex", "app">>

Project(id, path, host) == [id |-> id, host |-> host, path |-> path, custom |-> FALSE]
Found(agent, path) == [agent |-> agent, path |-> path, custom |-> FALSE]
Mapping(id, to) == [id |-> id, host |-> 1, from |-> <<"codex">>, to |-> to, enabled |-> TRUE]
Template(id, h, p) == [id |-> id, host |-> h, project |-> p, key |-> "dev", enabled |-> TRUE,
                       codex |-> TRUE, command |-> "old", cwd |-> <<>>]

Plain ==
    [tokens |-> Tokens, states |-> [t \in DOMAIN Tokens |-> "active"], expiring |-> {},
     fullAccess |-> TRUE, calls |-> <<>>, faults |-> {},
     projects |-> {Project(1, App, 1), Project(2, Web, 1)},
     mappings |-> {Mapping(1, <<"srv">>)},
     templates |-> {Template(1, 1, 0)},
     directories |-> [h \in MCHosts |-> {}],
     agents |-> [a1 |-> 1, a2 |-> 2],
     reports |-> <<{Found("a1", App), Found("a1", Web)}>>]

Ops == ReadNames \union DOMAIN HostWrites \union DOMAIN TokenWrites \union DOMAIN CatalogWrites
         \union DOMAIN RegistryWrites \union DOMAIN KeyWrites \union DOMAIN ShellWrites

Simple == {op \in Ops : First(op) = "act" /\ op \notin Modelled}

MCSettings ==
    \* every operation by every kind of token
    {[Plain EXCEPT !.calls = <<By(t, [Do(op) EXCEPT !.host = 1])>>, !.faults = {"master"}] :
        op \in Simple, t \in DOMAIN Tokens \union {"person", "env"}}
    \union
    {[Plain EXCEPT !.calls = <<By(t, [call EXCEPT !.raw = raw])>>, !.fullAccess = FALSE,
                   !.faults = {"database"}] :
        call \in {EnsureOf(1), Ensure(Inside), Ensure(<<"codex", "web">>), Ensure(App), [Ensure(Inside) EXCEPT !.host = 2],
                  [EnsureOf(1) EXCEPT !.codexPath = Inside], EnsureAt(App),
                  [EnsureAt(App) EXCEPT !.codexPath = <<"codex", "web">>],
                  [EnsureAt(App) EXCEPT !.cwd = <<"opt">>], [EnsureOf(1) EXCEPT !.cwd = <<"srv", "tmp">>],
                  EnsureAt(<<"srv", "..", "srv", "app">>), Ensure(<<"codex", "..", "srv", "app">>)},
        t \in DOMAIN Tokens \union {"person", "env"}, raw \in BOOLEAN}
    \union
    { \* templates of one scope and of others
      [Plain EXCEPT !.calls = <<Upsert(1, 1, FALSE), Upsert(1, 1, TRUE), EnsureOf(1)>>],
      [Plain EXCEPT !.calls = <<Upsert(1, 0, FALSE), Upsert(0, 0, TRUE), Upsert(0, 1, TRUE)>>],
      [Plain EXCEPT !.calls = <<Upsert(1, 1, TRUE), [Upsert(1, 0, TRUE) EXCEPT !.id = 1],
                                [Do("deleteProcessTemplate") EXCEPT !.id = 1]>>,
                    !.faults = {"crash"}],
      \* a template with a path of its own, and a key that two projects want
      [Plain EXCEPT !.calls = <<[Upsert(1, 1, TRUE) EXCEPT !.cwd = <<"opt">>], EnsureAt(App),
                                EnsureOf(2)>>, !.faults = {"master"}],
      [Plain EXCEPT !.calls = <<EnsureOf(1), [EnsureOf(2) EXCEPT !.processKey = "web"],
                                [EnsureOf(2) EXCEPT !.raw = TRUE]>>, !.faults = {"crash"}],
      \* paths and what they lead to
      [Plain EXCEPT !.calls = <<Ensure(Inside), MapTo(<<"var">>), EnsureOf(2)>>],
      [Plain EXCEPT !.calls = <<Ensure(Inside), [MapTo(Web) EXCEPT !.path = Inside],
                                [Do("deleteHostPathMapping") EXCEPT !.id = 1]>>],
      [Plain EXCEPT !.calls = <<Ensure(Inside), [MapTo(<<"opt">>) EXCEPT !.unapproved = TRUE],
                                [MapTo(<<"opt">>) EXCEPT !.unapproved = TRUE]>>],
      [Plain EXCEPT !.calls = <<[Do("addHostDirectory") EXCEPT !.host = 1, !.path = <<"var">>],
                                [Do("removeHostDirectory") EXCEPT !.host = 1, !.path = <<"var">>],
                                MapTo(<<"var">>)>>, !.faults = {"master"}],
      \* projects come and go
      [Plain EXCEPT !.calls = <<Discovery, Do("discoveredProjects"), Upsert(1, 2, TRUE)>>,
                    !.reports = <<@[1], {Found("a1", App)}, {Found("a1", App), Found("a2", App)}>>],
      [Plain EXCEPT !.calls = <<Discovery, EnsureOf(2), Ensure(Inside)>>,
                    !.reports = <<@[1], {Found("a1", App)}>>],
      [Plain EXCEPT !.calls = <<[Do("addProject") EXCEPT !.path = <<"opt">>], Discovery, Discovery>>,
                    !.reports = <<@[1], {Found("a1", App), Found("a1", <<"opt">>)},
                                  {Found("a1", App)}>>,
                    !.faults = {"crash"}],
      [Plain EXCEPT !.calls = <<Do("discoveredProjects"), Ensure(App)>>,
                    !.reports = <<@[1], {}>>, !.faults = {"master"}],
      \* tokens
      [Plain EXCEPT !.calls = <<By("full-access", [EnsureOf(1) EXCEPT !.raw = TRUE])>>],
      [Plain EXCEPT !.calls = <<[Do("createAutomationApiToken") EXCEPT !.id = "admin", !.full = TRUE],
                                By("admin", [Do("createAutomationApiToken") EXCEPT
                                               !.id = "host1", !.full = TRUE])>>,
                    !.states["admin"] = "none", !.states["host1"] = "none",
                    !.fullAccess = FALSE],
      [Plain EXCEPT !.calls = <<By("admin", [Do("revokeAutomationApiToken") EXCEPT !.id = "project"]),
                                By("project", EnsureOf(1)),
                                By("project", [EnsureOf(1) EXCEPT !.raw = TRUE])>>,
                    !.expiring = {"project"}, !.faults = {"database", "master"}],
      [Plain EXCEPT !.calls = <<[Do("createAutomationApiToken") EXCEPT !.id = "host1"],
                                By("host1", MapTo(App)), By("host1", Ensure(Inside))>>,
                    !.states["host1"] = "none", !.faults = {"database", "crash"}] }
=============================================================================
