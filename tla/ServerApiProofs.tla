--------------------------- MODULE ServerApiProofs --------------------------
(***************************************************************************)
(* Theorems about ServerApi, for any calls, tokens, tables and faults.     *)
(*                                                                         *)
(* CallsInv says of each call alone what it has found and done so far:     *)
(* from it follow the limits of tokens, the truth of the audit and of the  *)
(* answers, and the path of a process.  UpsertInv says of the calls that   *)
(* are about to write a template what the others may have done to the row  *)
(* they found: from it follows that the last upsert of a scope takes       *)
(* effect.  ListsInv says of the lists that the calls have read of the     *)
(* slaves that they hold what is reported all the time: from it follows    *)
(* that no merge takes such a project away.                                *)
(***************************************************************************)
EXTENDS ServerApi, FiniteSetsExt, FiniteSetTheorems, WellFoundedInduction, TLAPS

-----------------------------------------------------------------------------
(* The invariant of one call.                                              *)

\* Records with the fields of a call's state and of the tables, whatever is in them.
CallShape(q) ==
    q \in [pc : {q.pc}, answer : {q.answer}, performed : BOOLEAN, project : {q.project},
           template : {q.template}, row : {q.row}, view : {q.view}, found : {q.found},
           made : {q.made}, steady : BOOLEAN]

TableShape(d) ==
    d \in [tokens : {d.tokens}, projects : {d.projects}, mappings : {d.mappings},
           templates : {d.templates}, directories : {d.directories},
           definitions : {d.definitions}, audit : {d.audit}]

Shapes ==
    /\ setting \in Settings
    /\ TableShape(db)
    /\ requests = [r \in Requests |-> requests[r]]
    /\ \A r \in Requests : CallShape(requests[r])
    /\ \A t \in db.templates : t.command # "raw"

\* Who may do something for a call, and what its answer then says.  A call that only writes
\* to the tables has done nothing before it is answered as done.
Truly(r, q) ==
    /\ q.pc \in {"new", "called"} => ~q.performed
    /\ q.pc \notin {"new", "called", "audit", "done", "lost"} \/ q.performed =>
          Allowed(r) \/ Call(r).op = "discovery.projects"
    /\ q.pc \in {"directory", "add"} \/ (q.pc \notin {"audit", "done", "lost"} /\ q.performed) =>
          Call(r).op \notin OnTables
    /\ q.pc \in {"audit", "done"} =>
          /\ q.answer \in {"ok", "error"}
          /\ q.answer = "ok" => q.performed
          /\ q.performed /\ Call(r).op \in OnTables => q.answer = "ok"

EnsureSteps == {"find", "refind", "list", "compile", "register"}

\* The path of the host that a call gives is the only one, and no template adds another.
NamedAlone(call, template) ==
    /\ call.codexPath = <<>> /\ ((call.projectPath = <<>>) # (call.cwd = <<>>))
    /\ normalizePathPrefix(NamedPath(call)) = NamedPath(call)
    /\ call.cwd = <<>> => template.cwd = <<>>

\* A call names its project by a path that is only resolved if it is a codexPath.
ByPath(call, template, steady) ==
    /\ call.project = 0 /\ call.cwd = <<>> /\ template.cwd = <<>>
    /\ call.codexPath # <<>> => steady

\* A process is defined by a call that was allowed, with the project that it named,
\* or that lies where its path leads.
Defines(r, q) ==
    /\ q.pc \notin {"register", "audit", "done", "lost"} => q.made = {}
    /\ q.pc \in EnsureSteps \/ q.made # {} =>
          Call(r).op = "ensureProcessFromTemplate" /\ Allowed(r)
    /\ q.pc \in {"refind", "list", "compile"} \/ q.made # {} =>
          (Call(r).project # 0 => q.project.id = Call(r).project)
    /\ q.pc \in {"refind", "list", "compile"} /\ Call(r).project = 0 =>
          /\ hostPathOf(q.view, Call(r)).hostPath # <<>>
          /\ q.project.path = normalizePathPrefix(hostPathOf(q.view, Call(r)).hostPath)
    /\ q.pc = "compile" => q.template.command # "raw"
    /\ \A made \in q.made :
          /\ made.host = Call(r).host /\ made.project = q.project.id
          /\ made.command = "raw" => Call(r).raw
          /\ NamedAlone(Call(r), q.template) => made.cwd = NamedPath(Call(r))
          /\ ByPath(Call(r), q.template, q.steady) => made.cwd = q.project.path

CallOK(r, q) == CallShape(q) /\ Truly(r, q) /\ Defines(r, q)

\* Each record is of a call that was answered, says what it was told, and is the only one;
\* and of what was done there is one.
AuditOK ==
    /\ \A e \in db.audit : /\ e.request \in Requests
                           /\ requests[e.request].pc = "done"
                           /\ e.status = requests[e.request].answer
    /\ \A e, f \in db.audit : e.request = f.request => e = f
    /\ \A r \in Requests :
          requests[r].pc = "done" /\ requests[r].performed /\ Audited(Call(r).op)
            /\ "database" \notin setting.faults => \E e \in db.audit : e.request = r

CallsInv ==
    /\ Shapes
    /\ \A r \in Requests : CallOK(r, requests[r])
    /\ AuditOK

-----------------------------------------------------------------------------
(* How calls move.                                                         *)

\* The tables stay as far as the calls are concerned.
Beside == /\ setting' = setting /\ TableShape(db') /\ db'.audit = db.audit
          /\ \A t \in db'.templates : t.command # "raw"

\* What a call may become, unless its record is written: if it ends, it has done nothing.
Becomes(r, next) == CallOK(r, next) /\ (next.pc = "done" => ~next.performed)

LEMMA CallMoves ==
    ASSUME CallsInv, NEW r \in Requests, NEW next, Go(r, next), Becomes(r, next), Beside,
           requests[r].pc # "done"
    PROVE  CallsInv'
<1>1. Requests' = Requests /\ setting' \in Settings
  BY DEF Beside, CallsInv, Shapes, Requests
<1>2. requests' = [requests EXCEPT ![r] = next]
  BY DEF Go
<1>3. requests'[r] = next /\ \A q \in Requests : q # r => requests'[q] = requests[q]
  BY <1>2 DEF CallsInv, Shapes
<1>4. \A q \in Requests : CallOK(q, requests'[q])
  BY <1>3 DEF CallsInv, Becomes
<1>5. \A q \in Requests : CallOK(q, requests[q])' <=> CallOK(q, requests'[q])
  BY <1>1 DEF CallOK, CallShape, Truly, Defines, Call, Allowed, buildAccessProfile, Stored, Automation, Beside
<1>6. requests' = [q \in Requests' |-> requests'[q]]
  BY <1>1, <1>2 DEF CallsInv, Shapes
<1>7. AuditOK'
  <2>1. \A q \in Requests : requests'[q].pc = "done" /\ requests'[q].performed => requests'[q] = requests[q]
    BY <1>3 DEF Becomes
  <2> QED
    BY <1>1, <1>3, <2>1 DEF AuditOK, CallsInv, Beside, Call
<1>8. Shapes'
  BY <1>1, <1>4, <1>6 DEF Shapes, Beside, CallOK
<1> QED
  BY <1>1, <1>4, <1>5, <1>7, <1>8 DEF CallsInv

\* A step of a call that changes nothing else.
LEMMA StepMoves ==
    ASSUME CallsInv, NEW r \in Requests, NEW next, Step(r, next), Becomes(r, next),
           requests[r].pc # "done"
    PROVE  CallsInv'
<1>1. Go(r, next) /\ Beside
  BY DEF Step, Beside, CallsInv, Shapes
<1> QED
  BY <1>1, CallMoves

\* The operation of a call has begun, and has not ended.
Running(r) == requests[r].pc \notin {"new", "called", "audit", "done", "lost"}

LEMMA EndedOK ==
    ASSUME CallsInv, NEW r \in Requests, NEW ok \in BOOLEAN,
           requests[r].pc \notin {"audit", "done", "lost"}, ok => Running(r)
    PROVE  Becomes(r, Ended(r, ok))
<1>1. CallShape(requests[r]) /\ CallOK(r, requests[r])
  BY DEF CallsInv, Shapes
<1> DEFINE n == Ended(r, ok)
<1>2. /\ CallShape(n)
      /\ n.pc = "audit" /\ n.answer = (IF ok THEN "ok" ELSE "error")
      /\ n.performed = (requests[r].performed \/ ok)
      /\ n.project = requests[r].project /\ n.made = requests[r].made
      /\ n.template = requests[r].template /\ n.steady = requests[r].steady
  BY <1>1 DEF CallShape, Ended
<1> HIDE DEF n
<1>3. Truly(r, n)
  BY <1>1, <1>2 DEF Truly, CallOK, Running
<1>4. Defines(r, n)
  BY <1>1, <1>2 DEF Defines, CallOK, EnsureSteps
<1>5. Becomes(r, n)
  BY <1>2, <1>3, <1>4 DEF CallOK, Becomes
<1> QED
  BY <1>5 DEF n

\* An operation that asks the master or a host may have acted, and fail.
LEMMA UnheardOK ==
    ASSUME CallsInv, NEW r \in Requests, Running(r), Call(r).op \notin OnTables
    PROVE  Becomes(r, Unheard(r)) /\ Unheard(r).pc = "audit"
<1>1. CallShape(requests[r]) /\ CallOK(r, requests[r])
  BY DEF CallsInv, Shapes
<1> DEFINE n == Unheard(r)
<1>2. /\ CallShape(n)
      /\ n.pc = "audit" /\ n.answer = "error" /\ n.performed = TRUE
      /\ n.project = requests[r].project /\ n.made = requests[r].made
      /\ n.template = requests[r].template /\ n.steady = requests[r].steady
  BY <1>1 DEF CallShape, Ended, Unheard
<1> HIDE DEF n
<1>3. Truly(r, n)
  BY <1>1, <1>2 DEF Truly, CallOK, Running
<1>4. Defines(r, n)
  BY <1>1, <1>2 DEF Defines, CallOK, EnsureSteps, Running
<1>5. Becomes(r, n)
  BY <1>2, <1>3, <1>4 DEF CallOK, Becomes
<1> QED
  BY <1>2, <1>5 DEF n

LEMMA FailMoves ==
    ASSUME CallsInv, NEW r \in Requests, Fail(r), requests[r].pc \notin {"audit", "done", "lost"}
    PROVE  CallsInv'
<1>1. Go(r, Ended(r, FALSE)) /\ Beside
  BY DEF Fail, Beside, CallsInv, Shapes
<1> QED
  BY <1>1, EndedOK, CallMoves

\* A call that goes on, and neither defines a process nor is told.
LEMMA GoesOn ==
    ASSUME CallsInv, NEW r \in Requests, NEW n, CallShape(n),
           n.pc \notin EnsureSteps \union {"new", "audit", "done", "lost"},
           n.performed = requests[r].performed, n.project = requests[r].project,
           n.made = requests[r].made, n.template = requests[r].template,
           n.steady = requests[r].steady,
           requests[r].pc \notin {"register", "audit", "done", "lost"},
           n.pc = "called" \/ Running(r) \/ Allowed(r) \/ Call(r).op = "discovery.projects",
           n.pc = "called" => requests[r].pc = "new",
           n.pc \in {"directory", "add"} => Call(r).op \notin OnTables
    PROVE  Becomes(r, n)
<1>1. CallOK(r, requests[r])
  BY DEF CallsInv
<1>2. Truly(r, n)
  BY <1>1 DEF Truly, CallOK, Running
<1>3. Defines(r, n)
  BY <1>1 DEF Defines, CallOK, EnsureSteps
<1> QED
  BY <1>2, <1>3 DEF CallOK, Becomes

LEMMA MovedOK ==
    ASSUME CallsInv, NEW r \in Requests, NEW pc,
           pc \notin EnsureSteps \union {"new", "audit", "done", "lost"},
           requests[r].pc \notin {"register", "audit", "done", "lost"},
           pc = "called" \/ Running(r) \/ Allowed(r),
           pc = "called" => requests[r].pc = "new",
           pc \in {"directory", "add"} => Call(r).op \notin OnTables
    PROVE  Becomes(r, Moved(r, pc))
<1>1. CallShape(requests[r])
  BY DEF CallsInv, Shapes
<1> DEFINE n == Moved(r, pc)
<1>2. /\ CallShape(n)
      /\ n.pc = pc /\ n.performed = requests[r].performed
      /\ n.project = requests[r].project /\ n.made = requests[r].made
      /\ n.template = requests[r].template /\ n.steady = requests[r].steady
  BY <1>1 DEF CallShape, Moved
<1> HIDE DEF n
<1>3. Becomes(r, n)
  BY <1>2, GoesOn
<1> QED
  BY <1>3 DEF n

\* A call that is refused before it does anything.
LEMMA RefusedOK ==
    ASSUME CallsInv, NEW r \in Requests, requests[r].pc \in {"new", "called"}
    PROVE  Becomes(r, [Moved(r, "done") EXCEPT !.answer = "error"])
<1>1. CallShape(requests[r]) /\ CallOK(r, requests[r])
  BY DEF CallsInv, Shapes
<1> DEFINE n == [Moved(r, "done") EXCEPT !.answer = "error"]
<1>2. /\ CallShape(n)
      /\ n.pc = "done" /\ n.answer = "error" /\ n.performed = requests[r].performed
      /\ n.project = requests[r].project /\ n.made = requests[r].made
      /\ n.template = requests[r].template /\ n.steady = requests[r].steady
  BY <1>1 DEF CallShape, Moved
<1> HIDE DEF n
<1>3. Truly(r, n) /\ ~n.performed
  BY <1>1, <1>2 DEF Truly, CallOK
<1>4. Defines(r, n)
  BY <1>1, <1>2 DEF Defines, CallOK, EnsureSteps
<1>5. Becomes(r, n)
  BY <1>2, <1>3, <1>4 DEF CallOK, Becomes
<1> QED
  BY <1>5 DEF n

-----------------------------------------------------------------------------
(* Who calls.                                                              *)

LEMMA AuthenticateKeeps ==
    ASSUME CallsInv, NEW r \in Requests, Authenticate(r)
    PROVE  CallsInv'
<1>1. requests[r].pc = "new"
  BY DEF Authenticate, At
<1>2. CASE Step(r, Moved(r, "called"))
  <2>1. Becomes(r, Moved(r, "called"))
    BY <1>1, MovedOK DEF EnsureSteps, Running
  <2> QED
    BY <1>1, <1>2, <2>1, StepMoves
<1>3. CASE Step(r, [Moved(r, "done") EXCEPT !.answer = "error"])
  <2>1. Becomes(r, [Moved(r, "done") EXCEPT !.answer = "error"])
    BY <1>1, RefusedOK
  <2> QED
    BY <1>1, <1>3, <2>1, StepMoves
<1> QED
  BY <1>2, <1>3 DEF Authenticate

\* Where an operation starts; only the one that defines processes starts there.
LEMMA FirstSteps ==
    ASSUME NEW op
    PROVE  \/ First(op) = "find" /\ op = "ensureProcessFromTemplate"
           \/ First(op) \in {"check", "roots", "directory", "scan", "add", "act"}
                /\ (First(op) \in {"directory", "add"} => op \notin OnTables)
<1>1. CASE op \in DOMAIN Steps
  BY <1>1 DEF First, Steps, OnTables
<1>2. CASE op \notin DOMAIN Steps
  BY <1>2 DEF First
<1> QED
  BY <1>1, <1>2

LEMMA AuthorizeKeeps ==
    ASSUME CallsInv, NEW r \in Requests, Authorize(r)
    PROVE  CallsInv'
<1>1. requests[r].pc = "called"
  BY DEF Authorize, At
<1>2. CASE Fail(r)
  BY <1>1, <1>2, FailMoves
<1>3. CASE Step(r, [Moved(r, "done") EXCEPT !.answer = "error"])
  <2>1. Becomes(r, [Moved(r, "done") EXCEPT !.answer = "error"])
    BY <1>1, RefusedOK
  <2> QED
    BY <1>1, <1>3, <2>1, StepMoves
<1>4. CASE Allowed(r) /\ Step(r, Moved(r, First(Call(r).op)))
  <2> DEFINE n == Moved(r, First(Call(r).op))
  <2>1. Becomes(r, n)
    <3>1. CASE First(Call(r).op) \in {"check", "roots", "directory", "scan", "add", "act"}
      <4> DEFINE pc == First(Call(r).op)
      <4>1. pc \in {"directory", "add"} => Call(r).op \notin OnTables
        BY <3>1, FirstSteps
      <4>2. pc \notin EnsureSteps \union {"new", "called", "audit", "done", "lost"}
        BY <3>1 DEF EnsureSteps
      <4> HIDE DEF pc
      <4>3. Becomes(r, Moved(r, pc))
        BY <1>1, <1>4, <4>1, <4>2, MovedOK
      <4> QED
        BY <4>3 DEF pc
    <3>2. CASE First(Call(r).op) = "find" /\ Call(r).op = "ensureProcessFromTemplate"
      <4>1. CallShape(requests[r]) /\ CallOK(r, requests[r])
        BY DEF CallsInv, Shapes
      <4>2. /\ CallShape(n)
            /\ n.pc = "find" /\ n.performed = requests[r].performed
            /\ n.project = requests[r].project /\ n.made = requests[r].made
            /\ n.template = requests[r].template /\ n.steady = requests[r].steady
        BY <3>2, <4>1 DEF CallShape, Moved
      <4> HIDE DEF n
      <4>3. Truly(r, n)
        BY <1>1, <1>4, <4>1, <4>2 DEF Truly, CallOK
      <4>4. Defines(r, n)
        BY <1>1, <1>4, <3>2, <4>1, <4>2 DEF Defines, CallOK, EnsureSteps
      <4> QED
        BY <4>2, <4>3, <4>4 DEF CallOK, Becomes
    <3> QED
      BY <3>1, <3>2, FirstSteps
  <2> QED
    BY <1>1, <1>4, <2>1, StepMoves
<1> QED
  BY <1>2, <1>3, <1>4 DEF Authorize

-----------------------------------------------------------------------------
(* Processes from templates.                                               *)

LEMMA FindProjectKeeps ==
    ASSUME CallsInv, NEW r \in Requests, FindProject(r)
    PROVE  CallsInv'
<1>1. requests[r].pc = "find" /\ CallShape(requests[r]) /\ CallOK(r, requests[r])
  BY DEF FindProject, At, CallsInv, Shapes
<1>2. CASE Fail(r)
  BY <1>1, <1>2, FailMoves
<1>3. ASSUME NEW p \in findProject(Call(r)),
             Step(r, [Moved(r, "refind") EXCEPT !.project = p, !.view = HostView(Call(r).host)])
      PROVE  CallsInv'
  <2> DEFINE n == [Moved(r, "refind") EXCEPT !.project = p, !.view = HostView(Call(r).host)]
  <2>1. /\ CallShape(n)
        /\ n.pc = "refind" /\ n.performed = requests[r].performed
        /\ n.project = p /\ n.view = HostView(Call(r).host)
        /\ n.made = requests[r].made /\ n.template = requests[r].template /\ n.steady = requests[r].steady
    BY <1>1 DEF CallShape, Moved
  <2>2. requests[r].made = {}
    BY <1>1 DEF CallOK, Defines
  <2>3. /\ Call(r).project # 0 => p.id = Call(r).project
        /\ Call(r).project = 0 =>
             /\ hostPathOf(HostView(Call(r).host), Call(r)).hostPath # <<>>
             /\ p.path = normalizePathPrefix(hostPathOf(HostView(Call(r).host), Call(r)).hostPath)
    BY <1>3 DEF findProject
  <2> HIDE DEF n
  <2>4. Truly(r, n)
    BY <1>1, <2>1 DEF Truly, CallOK
  <2>5. Defines(r, n)
    BY <1>1, <2>1, <2>2, <2>3 DEF Defines, CallOK, EnsureSteps
  <2>6. Becomes(r, n)
    BY <2>1, <2>4, <2>5 DEF CallOK, Becomes
  <2> QED
    BY <1>1, <1>3, <2>6, StepMoves DEF n
<1> QED
  BY <1>2, <1>3 DEF FindProject

LEMMA FindAgainKeeps ==
    ASSUME CallsInv, NEW r \in Requests, FindAgain(r)
    PROVE  CallsInv'
<1>1. requests[r].pc = "refind" /\ CallShape(requests[r]) /\ CallOK(r, requests[r])
  BY DEF FindAgain, At, CallsInv, Shapes
<1>2. CASE Fail(r)
  BY <1>1, <1>2, FailMoves
<1>3. ASSUME NEW p, Step(r, [Moved(r, "list") EXCEPT !.row = p.id])
      PROVE  CallsInv'
  <2> DEFINE n == [Moved(r, "list") EXCEPT !.row = p.id]
  <2>1. /\ CallShape(n)
        /\ n.pc = "list" /\ n.performed = requests[r].performed
        /\ n.project = requests[r].project /\ n.view = requests[r].view
        /\ n.made = requests[r].made /\ n.template = requests[r].template /\ n.steady = requests[r].steady
    BY <1>1 DEF CallShape, Moved
  <2> HIDE DEF n
  <2>2. Truly(r, n)
    BY <1>1, <2>1 DEF Truly, CallOK
  <2>3. Defines(r, n)
    BY <1>1, <2>1 DEF Defines, CallOK, EnsureSteps
  <2>4. Becomes(r, n)
    BY <2>1, <2>2, <2>3 DEF CallOK, Becomes
  <2> QED
    BY <1>1, <1>3, <2>4, StepMoves DEF n
<1> QED
  BY <1>2, <1>3 DEF FindAgain

\* No template, of the table or of the program, is a command of a caller's own.
LEMMA TemplatesOfOthers ==
    ASSUME NEW rows, NEW host, NEW project, NEW key, \A t \in rows : t.command # "raw",
           NEW t \in TemplateNamed(rows, host, project, key)
    PROVE  t.command # "raw"
<1>1. t \in rows \/ t \in inferDefaultProcessTemplates(project)
  BY DEF TemplateNamed, listProcessTemplates, selectHighestPrecedenceTemplates, loadPersistedTemplates
<1>2. CASE t \in rows
  BY <1>2
<1>3. CASE t \in inferDefaultProcessTemplates(project)
  BY <1>3 DEF inferDefaultProcessTemplates, NodeTemplates, DockerTemplates, MakeTemplates, getProjectTypes
<1> QED
  BY <1>1, <1>2, <1>3

LEMMA ListTemplatesKeeps ==
    ASSUME CallsInv, NEW r \in Requests, ListTemplates(r)
    PROVE  CallsInv'
<1>1. requests[r].pc = "list" /\ CallShape(requests[r]) /\ CallOK(r, requests[r])
  BY DEF ListTemplates, At, CallsInv, Shapes
<1>2. CASE Fail(r)
  BY <1>1, <1>2, FailMoves
<1>3. ASSUME NEW t \in TemplateNamed(db.templates, Call(r).host, [id |-> requests[r].row], Call(r).key),
             Step(r, [Moved(r, "compile") EXCEPT !.template = t])
      PROVE  CallsInv'
  <2> DEFINE n == [Moved(r, "compile") EXCEPT !.template = t]
  <2>1. /\ CallShape(n)
        /\ n.pc = "compile" /\ n.performed = requests[r].performed /\ n.template = t
        /\ n.project = requests[r].project /\ n.view = requests[r].view
        /\ n.made = requests[r].made /\ n.steady = requests[r].steady
    BY <1>1 DEF CallShape, Moved
  <2>2. t.command # "raw"
    BY TemplatesOfOthers DEF CallsInv, Shapes
  <2> HIDE DEF n
  <2>3. Truly(r, n)
    BY <1>1, <2>1 DEF Truly, CallOK
  <2>4. Defines(r, n)
    BY <1>1, <2>1, <2>2 DEF Defines, CallOK, EnsureSteps
  <2>5. Becomes(r, n)
    BY <2>1, <2>3, <2>4 DEF CallOK, Becomes
  <2> QED
    BY <1>1, <1>3, <2>5, StepMoves DEF n
<1> QED
  BY <1>2, <1>3 DEF ListTemplates

\* Where a process that is compiled runs.
LEMMA CompiledAt ==
    ASSUME NEW template, NEW host, NEW project, NEW path, NEW call
    PROVE  LET made == compileProcessTemplate(template, host, project, path, call)
           IN  /\ made.host = host /\ made.project = project.id
               /\ made.command = IF call.raw THEN "raw" ELSE template.command
               /\ call.cwd # <<>> => made.cwd = normalizePathPrefix(call.cwd)
               /\ call.cwd = <<>> /\ template.cwd = <<>> => made.cwd = normalizePathPrefix(path)
BY DEF compileProcessTemplate, Or

LEMMA CompileKeeps ==
    ASSUME CallsInv, NEW r \in Requests, Compile(r)
    PROVE  CallsInv'
<1>1. requests[r].pc = "compile" /\ CallShape(requests[r]) /\ CallOK(r, requests[r])
  BY DEF Compile, At, CallsInv, Shapes
<1>2. CASE Fail(r)
  BY <1>1, <1>2, FailMoves
<1> DEFINE path == projectHostPath(r)
           call == Call(r)
           template == requests[r].template
           defined == compileProcessTemplate(template, call.host, requests[r].project, path.hostPath, call)
           steady == requests[r].view = HostView(call.host)
           n == [Moved(r, "register") EXCEPT !.steady = steady, !.view = {}, !.made = {defined}]
<1>3. CASE Step(r, n)
  <2>1. /\ CallShape(n)
        /\ n.pc = "register" /\ n.performed = requests[r].performed
        /\ n.project = requests[r].project /\ n.template = template
        /\ n.made = {defined} /\ n.steady = steady
    BY <1>1 DEF CallShape, Moved
  <2>2. /\ defined.host = call.host /\ defined.project = requests[r].project.id
        /\ defined.command = IF call.raw THEN "raw" ELSE template.command
        /\ call.cwd # <<>> => defined.cwd = normalizePathPrefix(call.cwd)
        /\ call.cwd = <<>> /\ template.cwd = <<>> => defined.cwd = normalizePathPrefix(path.hostPath)
    BY CompiledAt
  <2>3. template.command # "raw" /\ call.op = "ensureProcessFromTemplate"
    BY <1>1 DEF CallOK, Defines, EnsureSteps
  <2>4. call.codexPath = <<>> /\ call.projectPath # <<>> => path.hostPath = call.projectPath
    BY DEF projectHostPath, hostPathOf, Resolved
  <2>5. NamedAlone(call, template) => defined.cwd = NamedPath(call)
    <3>1. call.path = <<>>
      BY <2>3, ServerApiAssumption DEF CallsInv, Shapes, Call, Requests
    <3>2. NamedPath(call) = IF call.projectPath # <<>> THEN call.projectPath
                            ELSE IF call.codexPath # <<>> THEN call.codexPath ELSE call.cwd
      BY <3>1 DEF NamedPath, Or
    <3> HIDE DEF defined, path, template, call
    <3> QED
      BY <2>2, <2>4, <3>2 DEF NamedAlone
  <2>6. ByPath(call, template, steady) => defined.cwd = requests[r].project.path
    <3> SUFFICES ASSUME ByPath(call, template, steady)
                 PROVE  defined.cwd = requests[r].project.path
      OBVIOUS
    <3>1. /\ hostPathOf(requests[r].view, call).hostPath # <<>>
          /\ requests[r].project.path = normalizePathPrefix(hostPathOf(requests[r].view, call).hostPath)
      BY <1>1 DEF CallOK, Defines, ByPath
    <3>2. CASE call.codexPath # <<>>
      <4>1. path = hostPathOf(HostView(call.host), call)
        BY <3>2 DEF projectHostPath
      <4> QED
        BY <2>2, <3>1, <3>2, <4>1 DEF ByPath
    <3>3. CASE call.codexPath = <<>>
      <4>1. hostPathOf(requests[r].view, call).hostPath = call.projectPath
        BY <3>3 DEF hostPathOf, Resolved
      <4> QED
        BY <2>2, <2>4, <3>1, <3>3, <4>1 DEF ByPath
    <3> QED
      BY <3>2, <3>3
  <2> HIDE DEF n, defined, path, steady, template
  <2>7. Truly(r, n)
    BY <1>1, <2>1 DEF Truly, CallOK
  <2>8. Defines(r, n)
    BY <1>1, <2>1, <2>2, <2>3, <2>5, <2>6 DEF Defines, CallOK, EnsureSteps
  <2>9. Becomes(r, n)
    BY <2>1, <2>7, <2>8 DEF CallOK, Becomes
  <2> QED
    BY <1>1, <1>3, <2>9, StepMoves
<1> QED
  BY <1>2, <1>3 DEF Compile

\* A write to the tables that ends the call.
LEMMA DoneMoves ==
    ASSUME CallsInv, NEW r \in Requests, Go(r, Ended(r, TRUE)), setting' = setting,
           TableShape(db'), db'.audit = db.audit, \A t \in db'.templates : t.command # "raw",
           Running(r)
    PROVE  CallsInv'
BY EndedOK, CallMoves DEF Beside, Running

LEMMA RegisterKeeps ==
    ASSUME CallsInv, NEW r \in Requests, Register(r)
    PROVE  CallsInv'
<1>1. requests[r].pc = "register"
  BY DEF Register, At
<1>2. CASE Fail(r)
  BY <1>1, <1>2, FailMoves
<1>3. CASE Step(r, Unheard(r))
  <2>1. Call(r).op \notin OnTables
    BY <1>1 DEF CallsInv, CallOK, Defines, EnsureSteps, OnTables
  <2>2. Becomes(r, Unheard(r))
    BY <1>1, <2>1, UnheardOK DEF Running
  <2> QED
    BY <1>1, <1>3, <2>2, StepMoves
<1>4. CASE ~Fail(r) /\ ~Step(r, Unheard(r))
  <2>1. PICK x : db' = [db EXCEPT !.definitions = x]
    BY <1>4 DEF Register
  <2>2. Go(r, Ended(r, TRUE)) /\ setting' = setting
    BY <1>4 DEF Register
  <2>3. TableShape(db') /\ db'.audit = db.audit /\ db'.templates = db.templates
    BY <2>1 DEF CallsInv, Shapes, TableShape
  <2> QED
    BY <1>1, <2>2, <2>3, DoneMoves DEF Running, CallsInv, Shapes
<1> QED
  BY <1>2, <1>3, <1>4

-----------------------------------------------------------------------------
(* Templates, mappings and directories.                                    *)

LEMMA CheckTemplateKeeps ==
    ASSUME CallsInv, NEW r \in Requests, CheckTemplate(r)
    PROVE  CallsInv'
<1>1. requests[r].pc = "check"
  BY DEF CheckTemplate, At
<1>2. Becomes(r, Moved(r, "look"))
  BY <1>1, MovedOK DEF EnsureSteps, Running
<1> QED
  BY <1>1, <1>2, StepMoves, FailMoves DEF CheckTemplate

LEMMA LookForTemplateKeeps ==
    ASSUME CallsInv, NEW r \in Requests, LookForTemplate(r)
    PROVE  CallsInv'
<1>1. requests[r].pc = "look" /\ CallShape(requests[r])
  BY DEF LookForTemplate, At, CallsInv, Shapes
<1>2. PICK id : Step(r, [Moved(r, "write") EXCEPT !.row = id])
  BY DEF LookForTemplate
<1> DEFINE n == [Moved(r, "write") EXCEPT !.row = id]
<1>3. /\ CallShape(n)
      /\ n.pc = "write" /\ n.performed = requests[r].performed
      /\ n.project = requests[r].project /\ n.made = requests[r].made
      /\ n.template = requests[r].template /\ n.steady = requests[r].steady
  BY <1>1 DEF CallShape, Moved
<1> HIDE DEF n
<1>4. Becomes(r, n)
  BY <1>1, <1>3, GoesOn DEF EnsureSteps, Running
<1> QED
  BY <1>1, <1>2, <1>4, StepMoves DEF n

LEMMA WriteTemplateKeeps ==
    ASSUME CallsInv, NEW r \in Requests, WriteTemplate(r)
    PROVE  CallsInv'
<1> DEFINE row == requests[r].row
           written == {WrittenTemplate(IF row = 0 THEN ids.template + 1 ELSE row, Call(r))}
           missing == row # 0 /\ \A t \in db.templates : t.id # row
<1>1. requests[r].pc = "write"
  BY DEF WriteTemplate, At
<1>2. CASE Fail(r)
  BY <1>1, <1>2, FailMoves
<1>3. CASE ~Fail(r)
  <2>1. /\ db' = IF missing THEN db
                 ELSE [db EXCEPT !.templates = {t \in @ : t.id # row} \union written]
        /\ Go(r, Ended(r, TRUE)) /\ setting' = setting
    BY <1>3 DEF WriteTemplate
  <2>2. Call(r).command # "raw"
    BY ServerApiAssumption DEF CallsInv, Shapes, Call, Requests
  <2>3. \A t \in written : t.command # "raw"
    BY <2>2 DEF WrittenTemplate
  <2> HIDE DEF written, missing, row
  <2>4. TableShape(db') /\ db'.audit = db.audit
    BY <2>1 DEF CallsInv, Shapes, TableShape
  <2>5. \A t \in db'.templates : t.command # "raw"
    BY <2>1, <2>3 DEF CallsInv, Shapes, TableShape
  <2> QED
    BY <1>1, <2>1, <2>4, <2>5, DoneMoves DEF Running
<1> QED
  BY <1>2, <1>3

LEMMA DeleteTemplateKeeps ==
    ASSUME CallsInv, NEW r \in Requests, DeleteTemplate(r)
    PROVE  CallsInv'
<1> DEFINE gone == {t \in db.templates : /\ t.id = Call(r).id
                                         /\ Call(r).host \in {0, t.host}
                                         /\ Call(r).project \in {0, t.project}}
<1>1. /\ requests[r].pc = "act" /\ Go(r, Ended(r, TRUE)) /\ setting' = setting
      /\ db' = [db EXCEPT !.templates = @ \ gone]
  BY DEF DeleteTemplate, At
<1> HIDE DEF gone
<1>2. TableShape(db') /\ db'.audit = db.audit /\ db'.templates \subseteq db.templates
  BY <1>1 DEF CallsInv, Shapes, TableShape
<1> QED
  BY <1>1, <1>2, DoneMoves DEF Running, CallsInv, Shapes

LEMMA CheckMappingKeeps ==
    ASSUME CallsInv, NEW r \in Requests, CheckMapping(r)
    PROVE  CallsInv'
<1>1. requests[r].pc = "roots"
  BY DEF CheckMapping, At
<1>2. Becomes(r, Moved(r, "look"))
  BY <1>1, MovedOK DEF EnsureSteps, Running
<1> QED
  BY <1>1, <1>2, StepMoves, FailMoves DEF CheckMapping

LEMMA LookForMappingKeeps ==
    ASSUME CallsInv, NEW r \in Requests, LookForMapping(r)
    PROVE  CallsInv'
<1>1. requests[r].pc = "look" /\ CallShape(requests[r])
  BY DEF LookForMapping, At, CallsInv, Shapes
<1> DEFINE n == [Moved(r, "write") EXCEPT !.row = RowOfMapping(db.mappings, Call(r))]
<1>2. Step(r, n)
  BY DEF LookForMapping
<1>3. /\ CallShape(n)
      /\ n.pc = "write" /\ n.performed = requests[r].performed
      /\ n.project = requests[r].project /\ n.made = requests[r].made
      /\ n.template = requests[r].template /\ n.steady = requests[r].steady
  BY <1>1 DEF CallShape, Moved
<1> HIDE DEF n
<1>4. Becomes(r, n)
  BY <1>1, <1>3, GoesOn DEF EnsureSteps, Running
<1> QED
  BY <1>1, <1>2, <1>4, StepMoves

LEMMA WriteMappingKeeps ==
    ASSUME CallsInv, NEW r \in Requests, WriteMapping(r)
    PROVE  CallsInv'
<1>1. requests[r].pc = "write"
  BY DEF WriteMapping, At
<1>2. CASE Fail(r)
  BY <1>1, <1>2, FailMoves
<1>3. CASE ~Fail(r)
  <2>1. PICK m : db' = [db EXCEPT !.mappings = m] /\ Go(r, Ended(r, TRUE)) /\ setting' = setting
    BY <1>3 DEF WriteMapping
  <2>2. TableShape(db') /\ db'.audit = db.audit /\ db'.templates = db.templates
    BY <2>1 DEF CallsInv, Shapes, TableShape
  <2> QED
    BY <1>1, <2>1, <2>2, DoneMoves DEF Running, CallsInv, Shapes
<1> QED
  BY <1>2, <1>3

LEMMA DeleteMappingKeeps ==
    ASSUME CallsInv, NEW r \in Requests, DeleteMapping(r)
    PROVE  CallsInv'
<1>1. requests[r].pc = "act"
  BY DEF DeleteMapping, At
<1>2. PICK m : db' = [db EXCEPT !.mappings = m] /\ Go(r, Ended(r, TRUE)) /\ setting' = setting
  BY DEF DeleteMapping
<1>3. TableShape(db') /\ db'.audit = db.audit /\ db'.templates = db.templates
  BY <1>2 DEF CallsInv, Shapes, TableShape
<1> QED
  BY <1>1, <1>2, <1>3, DoneMoves DEF Running, CallsInv, Shapes

LEMMA ReadDirectoriesKeeps ==
    ASSUME CallsInv, NEW r \in Requests, ReadDirectories(r)
    PROVE  CallsInv'
<1>1. requests[r].pc = "directory" /\ CallShape(requests[r]) /\ CallOK(r, requests[r])
  BY DEF ReadDirectories, At, CallsInv, Shapes
<1>2. Call(r).op \notin OnTables
  BY <1>1 DEF CallOK, Truly
<1> DEFINE n == [Moved(r, "write") EXCEPT !.view = db.directories[Call(r).host], !.performed = TRUE]
<1>3. /\ CallShape(n)
      /\ n.pc = "write" /\ n.performed = TRUE
      /\ n.project = requests[r].project /\ n.made = requests[r].made
      /\ n.template = requests[r].template /\ n.steady = requests[r].steady
  BY <1>1 DEF CallShape, Moved
<1>4. Step(r, n) \/ Step(r, Unheard(r)) \/ Fail(r)
  BY DEF ReadDirectories
<1> HIDE DEF n
<1>5. Truly(r, n)
  BY <1>1, <1>2, <1>3 DEF Truly, CallOK
<1>6. Defines(r, n)
  BY <1>1, <1>3 DEF Defines, CallOK, EnsureSteps
<1>7. Becomes(r, n)
  BY <1>3, <1>5, <1>6 DEF CallOK, Becomes
<1>8. Becomes(r, Unheard(r))
  BY <1>1, <1>2, UnheardOK DEF Running
<1> QED
  BY <1>1, <1>4, <1>7, <1>8, StepMoves, FailMoves

LEMMA WriteDirectoriesKeeps ==
    ASSUME CallsInv, NEW r \in Requests, WriteDirectories(r)
    PROVE  CallsInv'
<1> DEFINE n == [Ended(r, TRUE) EXCEPT !.view = {}]
<1>1. requests[r].pc = "write" /\ Go(r, n) /\ setting' = setting
  BY DEF WriteDirectories, At
<1>2. PICK d : db' = [db EXCEPT !.directories = d]
  BY DEF WriteDirectories
<1>3. TableShape(db') /\ db'.audit = db.audit /\ db'.templates = db.templates
  BY <1>2 DEF CallsInv, Shapes, TableShape
<1>4. Becomes(r, Ended(r, TRUE))
  BY <1>1, EndedOK DEF Running
<1>5. Ended(r, TRUE).pc = "audit"
  BY DEF Ended, CallsInv, Shapes, CallShape
<1>6. Becomes(r, n)
  BY <1>4, <1>5 DEF CallOK, Becomes, CallShape, Truly, Defines, EnsureSteps
<1> HIDE DEF n
<1> QED
  BY <1>1, <1>3, <1>6, CallMoves DEF Beside, CallsInv, Shapes

-----------------------------------------------------------------------------
(* Tokens, and what acts in one step.                                      *)

LEMMA SetTokenKeeps ==
    ASSUME CallsInv, NEW r \in Requests, NEW from, NEW to, SetToken(r, from, to),
           Running(r)
    PROVE  CallsInv'
<1>1. Go(r, Ended(r, TRUE)) /\ setting' = setting
  BY DEF SetToken
<1>2. PICK t : db' = [db EXCEPT !.tokens = t]
  BY DEF SetToken
<1>3. TableShape(db') /\ db'.audit = db.audit /\ db'.templates = db.templates
  BY <1>2 DEF CallsInv, Shapes, TableShape
<1> QED
  BY <1>1, <1>3, DoneMoves DEF Running, CallsInv, Shapes

LEMMA TokensKeep ==
    ASSUME CallsInv, NEW r \in Requests, CreateToken(r) \/ RevokeToken(r)
    PROVE  CallsInv'
<1>1. requests[r].pc = "act"
  BY DEF CreateToken, RevokeToken, At
<1> QED
  BY <1>1, FailMoves, SetTokenKeeps DEF CreateToken, RevokeToken, Running

LEMMA ActKeeps ==
    ASSUME CallsInv, NEW r \in Requests, Act(r)
    PROVE  CallsInv'
<1>1. requests[r].pc = "act" /\ Running(r)
  BY DEF Act, At, Running
<1>2. Call(r).op \notin OnTables
  BY DEF Act, Modelled, Steps, OnTables
<1>3. Step(r, Ended(r, TRUE)) \/ Step(r, Unheard(r)) \/ Fail(r)
  BY DEF Act
<1> QED
  BY <1>1, <1>2, <1>3, FailMoves, StepMoves, EndedOK, UnheardOK

-----------------------------------------------------------------------------
(* The discovery of projects.                                              *)

LEMMA AddProjectKeeps ==
    ASSUME CallsInv, NEW r \in Requests, AddProject(r)
    PROVE  CallsInv'
<1> DEFINE n == [Moved(r, "scan") EXCEPT !.performed = TRUE]
<1>1. /\ requests[r].pc = "add" /\ CallShape(requests[r]) /\ CallOK(r, requests[r])
      /\ Go(r, n) /\ Beside
  BY DEF AddProject, At, Beside, CallsInv, Shapes
<1>2. /\ CallShape(n)
      /\ n.pc = "scan" /\ n.performed = TRUE
      /\ n.project = requests[r].project /\ n.made = requests[r].made
      /\ n.template = requests[r].template /\ n.steady = requests[r].steady
  BY <1>1 DEF CallShape, Moved
<1> HIDE DEF n
<1>3. Truly(r, n)
  BY <1>1, <1>2 DEF Truly, CallOK
<1>4. Defines(r, n)
  BY <1>1, <1>2 DEF Defines, CallOK, EnsureSteps
<1>5. Becomes(r, n)
  BY <1>2, <1>3, <1>4 DEF CallOK, Becomes
<1> QED
  BY <1>1, <1>5, CallMoves

LEMMA ScanKeeps ==
    ASSUME CallsInv, NEW r \in Requests, Scan(r)
    PROVE  CallsInv'
<1>1. /\ requests[r].pc = "scan" \/ (requests[r].pc = "new" /\ Call(r).op = "discovery.projects")
      /\ CallShape(requests[r])
  BY DEF Scan, At, CallsInv, Shapes
<1> DEFINE n == [Moved(r, "merge") EXCEPT !.found = Reported]
<1>2. /\ CallShape(n)
      /\ n.pc = "merge" /\ n.performed = requests[r].performed
      /\ n.project = requests[r].project /\ n.made = requests[r].made
      /\ n.template = requests[r].template /\ n.steady = requests[r].steady
  BY <1>1 DEF CallShape, Moved
<1>3. Step(r, n) \/ Fail(r)
  BY DEF Scan
<1> HIDE DEF n
<1>4. Becomes(r, n)
  BY <1>1, <1>2, GoesOn DEF EnsureSteps, Running
<1> QED
  BY <1>1, <1>3, <1>4, StepMoves, FailMoves

LEMMA MergeKeeps ==
    ASSUME CallsInv, NEW r \in Requests, Merge(r)
    PROVE  CallsInv'
<1>1. requests[r].pc = "merge" /\ CallShape(requests[r])
  BY DEF Merge, At, CallsInv, Shapes
<1>2. PICK found : Step(r, [Moved(r, "sync") EXCEPT !.found = found])
  BY DEF Merge
<1> DEFINE n == [Moved(r, "sync") EXCEPT !.found = found]
<1>3. /\ CallShape(n)
      /\ n.pc = "sync" /\ n.performed = requests[r].performed
      /\ n.project = requests[r].project /\ n.made = requests[r].made
      /\ n.template = requests[r].template /\ n.steady = requests[r].steady
  BY <1>1 DEF CallShape, Moved
<1> HIDE DEF n
<1>4. Becomes(r, n)
  BY <1>1, <1>3, GoesOn DEF EnsureSteps, Running
<1> QED
  BY <1>1, <1>2, <1>4, StepMoves DEF n

\* What a merge writes.
SyncWritten(r, list) ==
    syncDiscoveredProjects(db.projects, requests[r].found, list, ids.project + 1)

LEMMA SyncWrites ==
    ASSUME NEW r \in Requests, Sync(r)
    PROVE  \E list, kept, number :
             /\ db' = [db EXCEPT !.projects = SyncWritten(r, list),
                                 !.templates = {t \in @ : t.project \in kept},
                                 !.definitions = {d \in @ : d.project \in kept}]
             /\ ids' = [ids EXCEPT !.project = number]
             /\ settled' = [s \in {s \in DOMAIN settled : s[2] \in kept} |-> settled[s]]
<1> DEFINE kept(list) == {0} \union {p.id : p \in SyncWritten(r, list)}
           number(list) == NextId(SyncWritten(r, list) \union {[id |-> ids.project]}) - 1
<1>1. PICK list \in SetToSeqs(requests[r].found) :
        /\ db' = [db EXCEPT !.projects = SyncWritten(r, list),
                            !.templates = {t \in @ : t.project \in kept(list)},
                            !.definitions = {d \in @ : d.project \in kept(list)}]
        /\ ids' = [ids EXCEPT !.project = number(list)]
        /\ settled' = [s \in {s \in DOMAIN settled : s[2] \in kept(list)} |-> settled[s]]
  BY DEF Sync, SyncWritten
<1> HIDE DEF kept, number
<1> QED
  BY <1>1

LEMMA SyncKeeps ==
    ASSUME CallsInv, NEW r \in Requests, Sync(r)
    PROVE  CallsInv'
<1> DEFINE n == [Ended(r, TRUE) EXCEPT !.found = {}]
<1>1. requests[r].pc = "sync" /\ Go(r, n) /\ setting' = setting
  BY DEF Sync, At
<1>2. PICK list, kept, number :
        /\ db' = [db EXCEPT !.projects = SyncWritten(r, list),
                            !.templates = {t \in @ : t.project \in kept},
                            !.definitions = {d \in @ : d.project \in kept}]
        /\ ids' = [ids EXCEPT !.project = number]
        /\ settled' = [s \in {s \in DOMAIN settled : s[2] \in kept} |-> settled[s]]
  BY SyncWrites
<1>3. TableShape(db') /\ db'.audit = db.audit /\ db'.templates \subseteq db.templates
  BY <1>2 DEF CallsInv, Shapes, TableShape
<1>4. Becomes(r, Ended(r, TRUE))
  BY <1>1, EndedOK DEF Running
<1>5. Ended(r, TRUE).pc = "audit"
  BY DEF Ended, CallsInv, Shapes, CallShape
<1>6. Becomes(r, n)
  BY <1>4, <1>5 DEF CallOK, Becomes, CallShape, Truly, Defines, EnsureSteps
<1> HIDE DEF n
<1> QED
  BY <1>1, <1>3, <1>6, CallMoves DEF Beside, CallsInv, Shapes

-----------------------------------------------------------------------------
(* The audit, and what happens around the calls.                           *)

LEMMA AuditKeeps ==
    ASSUME CallsInv, NEW r \in Requests, Audit(r)
    PROVE  CallsInv'
<1> DEFINE n == Moved(r, "done")
<1>1. requests[r].pc = "audit" /\ CallShape(requests[r]) /\ CallOK(r, requests[r])
  BY DEF Audit, At, CallsInv, Shapes
<1>2. Go(r, n) /\ setting' = setting
  BY DEF Audit, recordRuntimeAuditEvent
<1>3. \/ db' = db
      \/ db' = [db EXCEPT !.audit = @ \union {[request |-> r, status |-> requests[r].answer]}]
  BY DEF Audit, recordRuntimeAuditEvent
<1> DEFINE record == [request |-> r, status |-> requests[r].answer]
<1>4. /\ TableShape(db') /\ db'.templates = db.templates
      /\ db'.audit = db.audit \/ db'.audit = db.audit \union {record}
      /\ Audited(Call(r).op) /\ "database" \notin setting.faults => record \in db'.audit
  <2>1. Audited(Call(r).op) /\ "database" \notin setting.faults =>
          db' = [db EXCEPT !.audit = @ \union {record}]
    BY DEF Audit, recordRuntimeAuditEvent
  <2> QED
    BY <1>3, <2>1 DEF CallsInv, Shapes, TableShape
<1>5. /\ CallShape(n)
      /\ n.pc = "done" /\ n.performed = requests[r].performed /\ n.answer = requests[r].answer
      /\ n.project = requests[r].project /\ n.made = requests[r].made
      /\ n.template = requests[r].template /\ n.steady = requests[r].steady
  BY <1>1 DEF CallShape, Moved
<1> HIDE DEF n
<1>6. CallOK(r, n)
  BY <1>1, <1>5 DEF CallOK, Truly, Defines, EnsureSteps
<1>7. Requests' = Requests /\ setting' \in Settings
  BY <1>2 DEF CallsInv, Shapes, Requests
<1>8. /\ requests' = [requests EXCEPT ![r] = n]
      /\ requests'[r] = n /\ \A q \in Requests : q # r => requests'[q] = requests[q]
  BY <1>2 DEF Go, CallsInv, Shapes
<1>9. \A q \in Requests : CallOK(q, requests'[q])
  BY <1>6, <1>8 DEF CallsInv
<1>10. \A q \in Requests : CallOK(q, requests[q])' <=> CallOK(q, requests'[q])
  BY <1>2, <1>7 DEF CallOK, CallShape, Truly, Defines, Call, Allowed, buildAccessProfile, Stored, Automation
<1>11. requests' = [q \in Requests' |-> requests'[q]]
  BY <1>7, <1>8 DEF CallsInv, Shapes
<1>12. AuditOK'
  <2>1. record.request = r /\ record.status = requests[r].answer
    OBVIOUS
  <2> HIDE DEF record
  <2>2. \A e \in db.audit : e.request \in Requests /\ e.request # r
    BY <1>1 DEF CallsInv, AuditOK
  <2>3. \A e \in db'.audit : /\ e.request \in Requests
                             /\ requests'[e.request].pc = "done"
                             /\ e.status = requests'[e.request].answer
    BY <1>4, <1>5, <1>8, <2>1, <2>2 DEF CallsInv, AuditOK
  <2>4. \A e, f \in db'.audit : e.request = f.request => e = f
    BY <1>4, <2>1, <2>2 DEF CallsInv, AuditOK
  <2>5. \A q \in Requests :
          requests'[q].pc = "done" /\ requests'[q].performed /\ Audited(Call(q).op)
            /\ "database" \notin setting.faults => \E e \in db'.audit : e.request = q
    BY <1>4, <1>8, <2>1 DEF CallsInv, AuditOK
  <2>6. \A q \in Requests : Call(q)' = Call(q)
    BY <1>2 DEF Call
  <2> QED
    BY <1>2, <1>7, <2>3, <2>4, <2>5, <2>6 DEF AuditOK
<1>13. Shapes'
  BY <1>4, <1>7, <1>9, <1>11 DEF Shapes, CallsInv, CallOK
<1> QED
  BY <1>7, <1>9, <1>10, <1>12, <1>13 DEF CallsInv

\* The calls stay, and the tables as far as they are concerned.
LEMMA CallsStay ==
    ASSUME CallsInv, requests' = requests, Beside
    PROVE  CallsInv'
<1>1. Requests' = Requests
  BY DEF Beside, Requests
<1>2. \A q \in Requests : CallOK(q, requests[q])' <=> CallOK(q, requests[q])
  BY <1>1 DEF CallOK, CallShape, Truly, Defines, Call, Allowed, buildAccessProfile, Stored, Automation, Beside
<1> QED
  BY <1>1, <1>2 DEF CallsInv, Shapes, AuditOK, Beside, Call

LEMMA ExpireKeeps ==
    ASSUME CallsInv, Expire
    PROVE  CallsInv'
<1>1. requests' = requests /\ setting' = setting
  BY DEF Expire
<1>2. PICK t : db' = [db EXCEPT !.tokens = t]
  BY DEF Expire
<1>3. TableShape(db') /\ db'.audit = db.audit /\ db'.templates = db.templates
  BY <1>2 DEF CallsInv, Shapes, TableShape
<1> QED
  BY <1>1, <1>3, CallsStay DEF Beside, CallsInv, Shapes

LEMMA RestartKeeps ==
    ASSUME CallsInv, Restart
    PROVE  CallsInv'
<1>1. /\ setting' = setting /\ db' = db
      /\ requests' = [r \in Requests |-> IF requests[r].pc \in {"new", "done"} THEN requests[r]
                                         ELSE [requests[r] EXCEPT !.pc = "lost"]]
  BY DEF Restart
<1>2. Requests' = Requests /\ setting' \in Settings
  BY <1>1 DEF CallsInv, Shapes, Requests
<1>3. ASSUME NEW q \in Requests
      PROVE  /\ CallOK(q, requests'[q])
             /\ requests[q].pc = "done" \/ requests'[q].pc = "done" => requests'[q] = requests[q]
  <2>1. CallShape(requests[q]) /\ CallOK(q, requests[q])
    BY DEF CallsInv, Shapes
  <2>2. CASE requests[q].pc \in {"new", "done"}
    BY <1>1, <2>1, <2>2
  <2>3. CASE requests[q].pc \notin {"new", "done"}
    <3> DEFINE n == [requests[q] EXCEPT !.pc = "lost"]
    <3>1. requests'[q] = n
      BY <1>1, <2>3
    <3>2. /\ CallShape(n)
          /\ n.pc = "lost" /\ n.performed = requests[q].performed
          /\ n.project = requests[q].project /\ n.made = requests[q].made
          /\ n.template = requests[q].template /\ n.steady = requests[q].steady
      BY <2>1 DEF CallShape
    <3> HIDE DEF n
    <3>3. CallOK(q, n)
      BY <2>1, <3>2 DEF CallOK, Truly, Defines, EnsureSteps
    <3> QED
      BY <2>3, <3>1, <3>2, <3>3
  <2> QED
    BY <2>2, <2>3
<1>4. \A q \in Requests : CallOK(q, requests[q])' <=> CallOK(q, requests'[q])
  BY <1>1, <1>2 DEF CallOK, CallShape, Truly, Defines, Call, Allowed, buildAccessProfile, Stored, Automation
<1>5. requests' = [q \in Requests' |-> requests'[q]]
  BY <1>1, <1>2
<1>6. Shapes'
  BY <1>1, <1>2, <1>3, <1>5 DEF Shapes, CallsInv, CallOK
<1>7. AuditOK'
  BY <1>1, <1>2, <1>3 DEF AuditOK, CallsInv, Call
<1> QED
  BY <1>2, <1>3, <1>4, <1>6, <1>7 DEF CallsInv

-----------------------------------------------------------------------------
LEMMA CallsInit == Init => CallsInv
<1> SUFFICES ASSUME Init
             PROVE  CallsInv
  OBVIOUS
<1>1. setting \in Settings /\ TableShape(db) /\ db.audit = {} /\ db.templates = setting.templates
  BY DEF Init, TableShape
<1>2. \A t \in db.templates : t.command # "raw"
  BY <1>1, ServerApiAssumption
<1>3. requests = [r \in Requests |-> Fresh]
  BY DEF Init, Requests
<1>4. ASSUME NEW r \in Requests
      PROVE  CallShape(requests[r]) /\ CallOK(r, requests[r])
  BY <1>3 DEF CallOK, CallShape, Fresh, Truly, Defines, EnsureSteps
<1> QED
  <2>1. \A r \in Requests : requests[r].pc = "new"
    BY <1>3 DEF Fresh
  <2> QED
    BY <1>1, <1>2, <1>3, <1>4, <2>1 DEF CallsInv, Shapes, AuditOK

LEMMA CallsNext == CallsInv /\ [Next]_vars => CallsInv'
<1> SUFFICES ASSUME CallsInv, [Next]_vars
             PROVE  CallsInv'
  OBVIOUS
<1>1. CASE UNCHANGED vars
  BY <1>1, CallsStay DEF vars, Beside, CallsInv, Shapes
<1>2. ASSUME NEW r \in Requests, Work(r)
      PROVE  CallsInv'
  BY <1>2, AuthenticateKeeps, AuthorizeKeeps, FindProjectKeeps, FindAgainKeeps, ListTemplatesKeeps,
     CompileKeeps, RegisterKeeps, CheckTemplateKeeps, LookForTemplateKeeps, WriteTemplateKeeps,
     DeleteTemplateKeeps, CheckMappingKeeps, LookForMappingKeeps, WriteMappingKeeps, DeleteMappingKeeps,
     ReadDirectoriesKeeps, WriteDirectoriesKeeps, TokensKeep, ActKeeps, AddProjectKeeps, ScanKeeps,
     MergeKeeps, SyncKeeps, AuditKeeps DEF Work
<1>3. CASE Report
  BY <1>3, CallsStay DEF Report, Beside, CallsInv, Shapes
<1>4. CASE Expire
  BY <1>4, ExpireKeeps
<1>5. CASE Restart
  BY <1>5, RestartKeeps
<1> QED
  BY <1>1, <1>2, <1>3, <1>4, <1>5 DEF Next

\* Answers and audit say what happened.
LEMMA TellsTruly == CallsInv => ToldTruly
<1> SUFFICES ASSUME CallsInv
             PROVE  ToldTruly
  OBVIOUS
<1>1. \A r \in Requests :
        /\ requests[r].performed /\ Call(r).op # "discovery.projects" => Allowed(r)
        /\ At(r, "done") /\ requests[r].answer = "ok" => requests[r].performed
        /\ At(r, "done") /\ requests[r].performed /\ Call(r).op \in OnTables => requests[r].answer = "ok"
  BY DEF CallsInv, CallOK, Truly, At
<1> QED
  BY <1>1 DEF CallsInv, AuditOK, ToldTruly, At

\* A process that is defined for a path alone runs at the path of its project.
LEMMA PathsRight == CallsInv => PathOfProject
BY DEF CallsInv, PathOfProject, CallOK, Defines, ByPath

\* What the rules see of a call that defines a process from a template.
LEMMA TargetSeen ==
    ASSUME NEW call, call.op = "ensureProcessFromTemplate"
    PROVE  /\ TargetOf(call).host = call.host /\ TargetOf(call).project = call.project
           /\ TargetOf(call).paths = ShownPaths(call)
           /\ call.raw => TargetOf(call).raw
<1>1. Operation(call.op) = CatalogWrites["ensureProcessFromTemplate"]
  BY DEF Operation, Reads, RuntimeReads, ProjectReads, HostWrites, TokenWrites, CatalogWrites,
         RegistryWrites, KeyWrites, ShellWrites, Op
<1>2. CatalogWrites["ensureProcessFromTemplate"] =
        Op("runtime:ensure", "runtime:ensure", {"host", "project", "path"}, "given", "all")
  BY DEF CatalogWrites
<1>3. Operation(call.op).shows = {"host", "project", "path"} /\ Operation(call.op).raw = "given"
  BY <1>1, <1>2 DEF Op
<1>4. /\ TargetOf(call).host = IF "host" \in Operation(call.op).shows THEN call.host ELSE 0
      /\ TargetOf(call).project = IF "project" \in Operation(call.op).shows THEN call.project ELSE 0
      /\ TargetOf(call).paths = IF "path" \in Operation(call.op).shows THEN ShownPaths(call) ELSE {}
      /\ TargetOf(call).raw = (Operation(call.op).raw = "yes" \/ (Operation(call.op).raw = "given" /\ call.raw))
  BY Zenon DEF TargetOf
<1>5. call.raw => TargetOf(call).raw
  BY <1>3, <1>4
<1> QED
  BY <1>3, <1>4, <1>5

\* The one path of the host that a call gives is shown to the rules.
LEMMA NamedShown ==
    ASSUME NEW call, NEW template, call.path = <<>>, NamedAlone(call, template)
    PROVE  NamedPath(call) \in ShownPaths(call)
<1>1. NamedPath(call) # <<>>
  BY DEF NamedAlone, NamedPath, Or
<1> QED
  BY <1>1 DEF ShownPaths

LEMMA StaysWithinToken == CallsInv => WithinToken
<1> SUFFICES ASSUME CallsInv, NEW r \in Requests, Stored(Call(r).token),
                    NEW made \in requests[r].made
             PROVE  LET token == buildAccessProfile(Call(r).token)
                    IN  /\ token.hosts # {} => made.host \in token.hosts
                        /\ token.projects # {} => made.project \in token.projects
                        /\ made.command = "raw" => token.raw
                        /\ token.prefixes # {} /\ RunsAtNamed(r) =>
                              \E prefix \in token.prefixes : pathStartsWith(made.cwd, prefix)
  BY DEF WithinToken
<1> DEFINE token == buildAccessProfile(Call(r).token)
           target == TargetOf(Call(r))
           fullAccess == Automation(Call(r).token) => setting.fullAccess
<1>1. /\ Call(r).op = "ensureProcessFromTemplate"
      /\ authorizeLifecycleAction(token, Call(r), fullAccess)
      /\ Call(r).project # 0 => made.project = Call(r).project
      /\ made.host = Call(r).host
      /\ made.command = "raw" => Call(r).raw
  BY DEF CallsInv, CallOK, Defines, Allowed
<1>2. /\ target.host = Call(r).host /\ target.project = Call(r).project
      /\ target.paths = ShownPaths(Call(r))
      /\ Call(r).raw => target.raw
  BY <1>1, TargetSeen
<1>3. 0 \notin token.projects /\ (token.mode = "full-access" => token.raw)
  <2>1. setting.tokens[Call(r).token] \in TokenKinds
    BY ServerApiAssumption DEF CallsInv, Shapes, Stored
  <2>2. token = [setting.tokens[Call(r).token] EXCEPT !.raw = @ \/ setting.tokens[Call(r).token].mode = "full-access"]
    BY DEF buildAccessProfile
  <2>3. setting.tokens[Call(r).token].projects \subseteq Nat \ {0}
    BY <2>1 DEF TokenKinds
  <2> QED
    BY <2>1, <2>2, <2>3 DEF TokenKinds
<1>4. RunsAtNamed(r) => NamedPath(Call(r)) \in ShownPaths(Call(r)) /\ made.cwd = NamedPath(Call(r))
  <2>1. RunsAtNamed(r) => NamedAlone(Call(r), requests[r].template)
    BY DEF RunsAtNamed, NamedAlone
  <2>2. Call(r).path = <<>>
    BY <1>1, ServerApiAssumption DEF CallsInv, Shapes, Call, Requests
  <2>3. NamedAlone(Call(r), requests[r].template) => made.cwd = NamedPath(Call(r))
    BY DEF CallsInv, CallOK, Defines
  <2> QED
    BY <2>1, <2>2, <2>3, NamedShown
<1> HIDE DEF token, target, fullAccess
<1>5. /\ assertScopeConstraints(token, target)
      /\ target.raw => token.raw
  BY <1>1, <1>3 DEF authorizeLifecycleAction, RawAllowed, target
<1> QED
  BY <1>1, <1>2, <1>3, <1>4, <1>5 DEF assertScopeConstraints, token

\* A process that a limited token compiles is of its hosts and projects, however the project
\* was found and whatever other calls did meanwhile, has a command of the caller's own only
\* by right, and runs under one of its prefixes where the caller gave one path of the host.
\* Where he gave several, the code looks at one of them only, and nothing is claimed.
THEOREM LimitsKept == Spec => []WithinToken
<1> QED
  BY CallsInit, CallsNext, StaysWithinToken, PTL DEF Spec

\* Nothing is done for a call that is not allowed; what was answered as done was done, what
\* was answered as an error may have been done unless it only writes to the tables; and what
\* was done has one record, if it can be written, which says what the caller was told.
THEOREM AuditIsTrue == Spec => []ToldTruly
<1> QED
  BY CallsInit, CallsNext, TellsTruly, PTL DEF Spec

\* A process defined for a path alone, with no cwd of the call or of its template, runs at the
\* path of its project, unless what a codexPath leads to changed while the call ran.
THEOREM RunsAtItsProject == Spec => []PathOfProject
<1> QED
  BY CallsInit, CallsNext, PathsRight, PTL DEF Spec

-----------------------------------------------------------------------------
(* Templates and what is settled of them.                                  *)

\* Whether call r is about to write a template.
Upserting(r) == requests[r].pc = "write" /\ Call(r).op = "upsertProcessTemplate"

\* Ids and, where no two writes have overlapped, scopes tell the templates apart.
Telling(rows, last, overlapped) ==
    /\ last \in Nat
    /\ IsFiniteSet(rows)
    /\ \A t \in rows : t.id \in 1 .. last
    /\ \A t, u \in rows : t.id = u.id => t = u
    /\ \A t, u \in rows : ScopeOf(t) = ScopeOf(u) /\ ScopeOf(t) \notin overlapped => t = u

\* Each scope that is settled has the row that was written last.
SettledIn(rows, overlapped, written) ==
    \A s \in DOMAIN written :
        s \notin overlapped /\ \E t \in rows : ScopeOf(t) = s /\ Content(t) = written[s]

\* What has been found of the row that is about to be written is still so, unless another
\* write has overlapped: there is no row of the scope, or one, with this id, or the id is
\* the one the caller named, of a row that then moves.
FoundIn(rows, last, overlapped, scope, named, row) ==
    /\ row \in 0 .. last
    /\ row = 0 /\ scope \notin overlapped => \A t \in rows : ScopeOf(t) # scope
    /\ row # 0 /\ scope \notin overlapped =>
          \/ \A t \in rows : ScopeOf(t) = scope => t.id = row
          \/ row = named /\ \A t \in rows : t.id = row => ScopeOf(t) # scope
    /\ row # 0 =>
          \A t \in rows : t.id = row =>
              \/ ScopeOf(t) = scope
              \/ row = named
              \/ ScopeOf(t) \in overlapped /\ scope \in overlapped

FoundOK(r) ==
    FoundIn(db.templates, ids.template, crowded, CallScope(r), Call(r).id, requests[r].row)

UpsertInv ==
    /\ ids = [project |-> ids.project, mapping |-> ids.mapping, template |-> ids.template]
    /\ Telling(db.templates, ids.template, crowded)
    /\ SettledIn(db.templates, crowded, settled)
    /\ \A r \in Requests : Upserting(r) => FoundOK(r)
    /\ \A r \in Requests : requests[r].pc = "directory" => Call(r).op # "upsertProcessTemplate"

\* What is found stays so when rows go.
LEMMA FewerFound ==
    ASSUME NEW rows, NEW fewer \in SUBSET rows, NEW last, NEW overlapped,
           NEW scope, NEW named, NEW row, FoundIn(rows, last, overlapped, scope, named, row)
    PROVE  FoundIn(fewer, last, overlapped, scope, named, row)
BY DEF FoundIn

LEMMA FewerTelling ==
    ASSUME NEW rows, NEW fewer \in SUBSET rows, NEW last, NEW overlapped,
           Telling(rows, last, overlapped)
    PROVE  Telling(fewer, last, overlapped)
BY FS_Subset DEF Telling

\* No row is written, and the scopes that stay settled keep their rows.
Quiet ==
    /\ setting' = setting /\ crowded' = crowded
    /\ db'.templates \subseteq db.templates
    /\ ids' = [project |-> ids'.project, mapping |-> ids'.mapping, template |-> ids.template]
    /\ \A s \in DOMAIN settled' :
          /\ s \in DOMAIN settled /\ settled'[s] = settled[s]
          /\ \A t \in db.templates : ScopeOf(t) = s => t \in db'.templates

LEMMA QuietKeeps ==
    ASSUME UpsertInv, Quiet
    PROVE  /\ ids' = [project |-> ids'.project, mapping |-> ids'.mapping, template |-> ids'.template]
           /\ ids'.template = ids.template
           /\ Telling(db'.templates, ids'.template, crowded')
           /\ SettledIn(db'.templates, crowded', settled')
           /\ \A scope, named, row :
                 FoundIn(db.templates, ids.template, crowded, scope, named, row) =>
                     FoundIn(db'.templates, ids'.template, crowded', scope, named, row)
<1>1. /\ ids'.template = ids.template
      /\ ids' = [project |-> ids'.project, mapping |-> ids'.mapping, template |-> ids'.template]
  BY DEF Quiet
<1>2. Telling(db'.templates, ids'.template, crowded')
  BY <1>1, FewerTelling DEF Quiet, UpsertInv
<1>3. SettledIn(db'.templates, crowded', settled')
  BY DEF Quiet, UpsertInv, SettledIn
<1>4. \A scope, named, row :
         FoundIn(db.templates, ids.template, crowded, scope, named, row) =>
             FoundIn(db'.templates, ids'.template, crowded', scope, named, row)
  BY <1>1, FewerFound DEF Quiet
<1> QED
  BY <1>1, <1>2, <1>3, <1>4

LEMMA UpsertStays ==
    ASSUME CallsInv, UpsertInv, NEW r \in Requests, NEW n, Go(r, n), Quiet,
           n.pc \in {"write", "directory"} => Call(r).op # "upsertProcessTemplate"
    PROVE  UpsertInv'
<1>1. Requests' = Requests
  BY DEF Quiet, Requests
<1>2. requests' = [requests EXCEPT ![r] = n]
  BY DEF Go
<1>3. requests'[r] = n /\ \A q \in Requests : q # r => requests'[q] = requests[q]
  BY <1>2 DEF CallsInv, Shapes
<1>4. \A q \in Requests : Call(q)' = Call(q) /\ CallScope(q)' = CallScope(q)
  BY DEF Quiet, Call, CallScope
<1>5. \A q \in Requests : Upserting(q)' => q # r /\ Upserting(q)
  BY <1>3, <1>4 DEF Upserting
<1>6. ASSUME NEW q \in Requests, Upserting(q)'
      PROVE  FoundOK(q)'
  <2>1. q # r /\ FoundOK(q) /\ requests'[q].row = requests[q].row
    BY <1>3, <1>5, <1>6 DEF UpsertInv
  <2>2. FoundIn(db'.templates, ids'.template, crowded', CallScope(q), Call(q).id, requests[q].row)
    BY <2>1, QuietKeeps DEF FoundOK
  <2> QED
    BY <1>4, <2>1, <2>2 DEF FoundOK
<1>7. \A q \in Requests : requests'[q].pc = "directory" => Call(q)'.op # "upsertProcessTemplate"
  BY <1>3, <1>4 DEF UpsertInv
<1> QED
  BY <1>1, <1>6, <1>7, QuietKeeps DEF UpsertInv

\* The tables are as before as far as templates are concerned.
Beneath == /\ setting' = setting /\ crowded' = crowded /\ settled' = settled
           /\ db'.templates = db.templates
           /\ ids' = [project |-> ids'.project, mapping |-> ids'.mapping, template |-> ids.template]

LEMMA BeneathQuiet == Beneath => Quiet
BY DEF Beneath, Quiet

LEMMA StepStays ==
    ASSUME CallsInv, UpsertInv, NEW r \in Requests, NEW n, Step(r, n),
           n.pc \in {"write", "directory"} => Call(r).op # "upsertProcessTemplate"
    PROVE  UpsertInv'
<1>1. Go(r, n) /\ Beneath
  BY DEF Step, Beneath, UpsertInv
<1> QED
  BY <1>1, BeneathQuiet, UpsertStays

LEMMA PcOf ==
    ASSUME CallsInv, NEW r \in Requests
    PROVE  /\ \A pc : Moved(r, pc).pc = pc
           /\ \A ok : Ended(r, ok).pc = "audit"
           /\ \A pc, x : [Moved(r, pc) EXCEPT !.answer = x].pc = pc
           /\ \A pc, x : [Moved(r, pc) EXCEPT !.row = x].pc = pc
           /\ \A pc, x : [Moved(r, pc) EXCEPT !.template = x].pc = pc
           /\ \A pc, x : [Moved(r, pc) EXCEPT !.found = x].pc = pc
           /\ \A pc, x : [Moved(r, pc) EXCEPT !.view = x].pc = pc
           /\ Unheard(r).pc = "audit"
           /\ \A pc, x : [Moved(r, pc) EXCEPT !.performed = x].pc = pc
           /\ \A pc, x, y : [Moved(r, pc) EXCEPT !.view = x, !.performed = y].pc = pc
           /\ \A pc, x, y : [Moved(r, pc) EXCEPT !.project = x, !.view = y].pc = pc
           /\ \A pc, x, y, z : [Moved(r, pc) EXCEPT !.steady = x, !.view = y, !.made = z].pc = pc
<1>1. requests[r] \in [pc : {requests[r].pc}, answer : {requests[r].answer}, performed : BOOLEAN,
                       project : {requests[r].project}, template : {requests[r].template},
                       row : {requests[r].row}, view : {requests[r].view},
                       found : {requests[r].found}, made : {requests[r].made}, steady : BOOLEAN]
  BY DEF CallsInv, Shapes, CallShape
<1> QED
  BY <1>1 DEF Moved, Ended, Unheard

LEMMA FailStays ==
    ASSUME CallsInv, UpsertInv, NEW r \in Requests, Fail(r)
    PROVE  UpsertInv'
<1>1. Go(r, Ended(r, FALSE)) /\ Beneath
  BY DEF Fail, Beneath, UpsertInv
<1>2. Ended(r, FALSE).pc = "audit"
  BY PcOf
<1> QED
  BY <1>1, <1>2, BeneathQuiet, UpsertStays

LEMMA UnheardStays ==
    ASSUME CallsInv, UpsertInv, NEW r \in Requests, Step(r, Unheard(r))
    PROVE  UpsertInv'
<1>1. Unheard(r).pc = "audit"
  BY PcOf
<1> QED
  BY <1>1, StepStays

\* A write to the tables that ends the call and concerns no template.
LEMMA EndStays ==
    ASSUME CallsInv, UpsertInv, NEW r \in Requests, NEW n, Go(r, n), n.pc = "audit", Beneath
    PROVE  UpsertInv'
BY BeneathQuiet, UpsertStays

-----------------------------------------------------------------------------
(* The steps that write no template.                                       *)

LEMMA CallsStayUpsert ==
    ASSUME CallsInv, UpsertInv, NEW r \in Requests, Authenticate(r) \/ Authorize(r)
    PROVE  UpsertInv'
<1>1. CASE Authenticate(r)
  <2>1. Step(r, Moved(r, "called")) \/ Step(r, [Moved(r, "done") EXCEPT !.answer = "error"])
    BY <1>1 DEF Authenticate
  <2>2. Moved(r, "called").pc = "called" /\ [Moved(r, "done") EXCEPT !.answer = "error"].pc = "done"
    BY PcOf
  <2> QED
    BY <2>1, <2>2, StepStays
<1>2. CASE Authorize(r)
  <2>1. \/ Step(r, Moved(r, First(Call(r).op))) \/ Fail(r)
        \/ Step(r, [Moved(r, "done") EXCEPT !.answer = "error"])
    BY <1>2 DEF Authorize
  <2>2. /\ Moved(r, First(Call(r).op)).pc = First(Call(r).op)
        /\ [Moved(r, "done") EXCEPT !.answer = "error"].pc = "done"
    BY PcOf
  <2>3. First("upsertProcessTemplate") = "check"
    BY DEF First, Steps
  <2> QED
    BY <2>1, <2>2, <2>3, FirstSteps, StepStays, FailStays
<1> QED
  BY <1>1, <1>2

LEMMA ProcessesStayUpsert ==
    ASSUME CallsInv, UpsertInv, NEW r \in Requests,
           FindProject(r) \/ FindAgain(r) \/ ListTemplates(r) \/ Compile(r) \/ Register(r)
    PROVE  UpsertInv'
<1>1. CASE FindProject(r)
  <2>1. PICK x, y : Step(r, [Moved(r, "refind") EXCEPT !.project = x, !.view = y]) \/ Fail(r)
    BY <1>1 DEF FindProject
  <2>2. [Moved(r, "refind") EXCEPT !.project = x, !.view = y].pc = "refind"
    BY PcOf
  <2> QED
    BY <2>1, <2>2, StepStays, FailStays
<1>2. CASE FindAgain(r)
  <2>1. PICK x : Step(r, [Moved(r, "list") EXCEPT !.row = x]) \/ Fail(r)
    BY <1>2 DEF FindAgain
  <2>2. [Moved(r, "list") EXCEPT !.row = x].pc = "list"
    BY PcOf
  <2> QED
    BY <2>1, <2>2, StepStays, FailStays
<1>3. CASE ListTemplates(r)
  <2>1. PICK x : Step(r, [Moved(r, "compile") EXCEPT !.template = x]) \/ Fail(r)
    BY <1>3 DEF ListTemplates
  <2>2. [Moved(r, "compile") EXCEPT !.template = x].pc = "compile"
    BY PcOf
  <2> QED
    BY <2>1, <2>2, StepStays, FailStays
<1>4. CASE Compile(r)
  <2>1. PICK x, z : Step(r, [Moved(r, "register") EXCEPT !.steady = x, !.view = {}, !.made = z]) \/ Fail(r)
    BY <1>4 DEF Compile
  <2>2. [Moved(r, "register") EXCEPT !.steady = x, !.view = {}, !.made = z].pc = "register"
    BY PcOf
  <2> QED
    BY <2>1, <2>2, StepStays, FailStays
<1>5. CASE Register(r)
  <2>1. CASE Fail(r) \/ Step(r, Unheard(r))
    BY <2>1, FailStays, UnheardStays
  <2>2. CASE ~Fail(r) /\ ~Step(r, Unheard(r))
    <3>1. PICK x : db' = [db EXCEPT !.definitions = x]
      BY <1>5, <2>2 DEF Register
    <3>2. /\ Go(r, Ended(r, TRUE)) /\ setting' = setting /\ ids' = ids
          /\ settled' = settled /\ crowded' = crowded
      BY <1>5, <2>2 DEF Register
    <3>3. Beneath
      BY <3>1, <3>2 DEF Beneath, UpsertInv, CallsInv, Shapes, TableShape
    <3>4. Ended(r, TRUE).pc = "audit"
      BY PcOf
    <3> QED
      BY <3>2, <3>3, <3>4, EndStays
  <2> QED
    BY <2>1, <2>2
<1> QED
  BY <1>1, <1>2, <1>3, <1>4, <1>5

LEMMA MappingsStayUpsert ==
    ASSUME CallsInv, UpsertInv, NEW r \in Requests,
           CheckTemplate(r) \/ CheckMapping(r) \/ LookForMapping(r) \/ WriteMapping(r) \/ DeleteMapping(r)
    PROVE  UpsertInv'
<1>1. CASE CheckTemplate(r) \/ CheckMapping(r)
  <2>1. Step(r, Moved(r, "look")) \/ Fail(r)
    BY <1>1 DEF CheckTemplate, CheckMapping
  <2>2. Moved(r, "look").pc = "look"
    BY PcOf
  <2> QED
    BY <2>1, <2>2, StepStays, FailStays
<1>2. CASE LookForMapping(r)
  <2>1. PICK x : Step(r, [Moved(r, "write") EXCEPT !.row = x])
    BY <1>2 DEF LookForMapping
  <2>2. Call(r).op # "upsertProcessTemplate"
    BY <1>2 DEF LookForMapping
  <2> QED
    BY <2>1, <2>2, StepStays
<1>3. CASE WriteMapping(r) /\ ~Fail(r)
  <2>1. PICK x : db' = [db EXCEPT !.mappings = x]
    BY <1>3 DEF WriteMapping
  <2>2. /\ Go(r, Ended(r, TRUE)) /\ setting' = setting /\ settled' = settled /\ crowded' = crowded
        /\ ids' = ids \/ ids' = [ids EXCEPT !.mapping = @ + 1]
    BY <1>3 DEF WriteMapping
  <2>3. Beneath
    BY <2>1, <2>2 DEF Beneath, UpsertInv, CallsInv, Shapes, TableShape
  <2>4. Ended(r, TRUE).pc = "audit"
    BY PcOf
  <2> QED
    BY <2>2, <2>3, <2>4, EndStays
<1>4. CASE DeleteMapping(r)
  <2>1. PICK x : db' = [db EXCEPT !.mappings = x]
    BY <1>4 DEF DeleteMapping
  <2>2. /\ Go(r, Ended(r, TRUE)) /\ setting' = setting /\ settled' = settled /\ crowded' = crowded
        /\ ids' = ids
    BY <1>4 DEF DeleteMapping
  <2>3. Beneath
    BY <2>1, <2>2 DEF Beneath, UpsertInv, CallsInv, Shapes, TableShape
  <2>4. Ended(r, TRUE).pc = "audit"
    BY PcOf
  <2> QED
    BY <2>2, <2>3, <2>4, EndStays
<1> QED
  BY <1>1, <1>2, <1>3, <1>4, FailStays

LEMMA DirectoriesStayUpsert ==
    ASSUME CallsInv, UpsertInv, NEW r \in Requests, ReadDirectories(r) \/ WriteDirectories(r)
    PROVE  UpsertInv'
<1>1. CASE ReadDirectories(r)
  <2>1. \/ Step(r, [Moved(r, "write") EXCEPT !.view = db.directories[Call(r).host], !.performed = TRUE])
        \/ Step(r, Unheard(r)) \/ Fail(r)
    BY <1>1 DEF ReadDirectories
  <2>2. Call(r).op # "upsertProcessTemplate"
    BY <1>1 DEF ReadDirectories, At, UpsertInv
  <2> QED
    BY <2>1, <2>2, StepStays, FailStays, UnheardStays
<1>2. CASE WriteDirectories(r)
  <2> DEFINE n == [Ended(r, TRUE) EXCEPT !.view = {}]
  <2>1. PICK x : db' = [db EXCEPT !.directories = x]
    BY <1>2 DEF WriteDirectories
  <2>2. /\ Go(r, n) /\ setting' = setting /\ settled' = settled /\ crowded' = crowded
        /\ ids' = ids
    BY <1>2 DEF WriteDirectories
  <2>3. Beneath
    BY <2>1, <2>2 DEF Beneath, UpsertInv, CallsInv, Shapes, TableShape
  <2>4. n.pc = "audit"
    BY DEF CallsInv, Shapes, CallShape, Ended
  <2> HIDE DEF n
  <2> QED
    BY <2>2, <2>3, <2>4, EndStays
<1> QED
  BY <1>1, <1>2

LEMMA TokensStayUpsert ==
    ASSUME CallsInv, UpsertInv, NEW r \in Requests,
           CreateToken(r) \/ RevokeToken(r) \/ Act(r) \/ Audit(r)
    PROVE  UpsertInv'
<1>1. Ended(r, TRUE).pc = "audit" /\ Moved(r, "done").pc = "done"
  BY PcOf
<1>2. ASSUME NEW from, NEW to, SetToken(r, from, to)
      PROVE  UpsertInv'
  <2>1. PICK x : db' = [db EXCEPT !.tokens = x]
    BY <1>2 DEF SetToken
  <2>2. /\ Go(r, Ended(r, TRUE)) /\ setting' = setting /\ settled' = settled /\ crowded' = crowded
        /\ ids' = ids
    BY <1>2 DEF SetToken
  <2>3. Beneath
    BY <2>1, <2>2 DEF Beneath, UpsertInv, CallsInv, Shapes, TableShape
  <2> QED
    BY <1>1, <2>2, <2>3, EndStays
<1>3. CASE CreateToken(r) \/ RevokeToken(r)
  BY <1>2, <1>3, FailStays DEF CreateToken, RevokeToken
<1>4. CASE Act(r)
  <2>1. Step(r, Ended(r, TRUE)) \/ Step(r, Unheard(r)) \/ Fail(r)
    BY <1>4 DEF Act
  <2> QED
    BY <1>1, <2>1, StepStays, FailStays, UnheardStays
<1>5. CASE Audit(r)
  <2>1. Go(r, Moved(r, "done")) /\ setting' = setting /\ settled' = settled /\ crowded' = crowded /\ ids' = ids
    BY <1>5 DEF Audit, recordRuntimeAuditEvent
  <2>2. PICK x : db' = [db EXCEPT !.audit = x] \/ db' = db
    BY <1>5 DEF Audit, recordRuntimeAuditEvent
  <2>3. Beneath
    BY <2>1, <2>2 DEF Beneath, UpsertInv, CallsInv, Shapes, TableShape
  <2> QED
    BY <1>1, <2>1, <2>3, BeneathQuiet, UpsertStays
<1> QED
  BY <1>3, <1>4, <1>5

LEMMA DiscoveryStaysUpsert ==
    ASSUME CallsInv, UpsertInv, NEW r \in Requests, AddProject(r) \/ Scan(r) \/ Merge(r)
    PROVE  UpsertInv'
<1>1. CASE AddProject(r)
  <2>1. Go(r, [Moved(r, "scan") EXCEPT !.performed = TRUE]) /\ Beneath
    BY <1>1 DEF AddProject, Beneath, UpsertInv
  <2>2. [Moved(r, "scan") EXCEPT !.performed = TRUE].pc = "scan"
    BY PcOf
  <2> QED
    BY <2>1, <2>2, BeneathQuiet, UpsertStays
<1>2. CASE Scan(r)
  <2>1. PICK x : Step(r, [Moved(r, "merge") EXCEPT !.found = x]) \/ Fail(r)
    BY <1>2 DEF Scan
  <2>2. [Moved(r, "merge") EXCEPT !.found = x].pc = "merge"
    BY PcOf
  <2> QED
    BY <2>1, <2>2, StepStays, FailStays
<1>3. CASE Merge(r)
  <2>1. PICK x : Step(r, [Moved(r, "sync") EXCEPT !.found = x])
    BY <1>3 DEF Merge
  <2>2. [Moved(r, "sync") EXCEPT !.found = x].pc = "sync"
    BY PcOf
  <2> QED
    BY <2>1, <2>2, StepStays
<1> QED
  BY <1>1, <1>2, <1>3

-----------------------------------------------------------------------------
(* The steps that take templates away.                                     *)

LEMMA DeleteStaysUpsert ==
    ASSUME CallsInv, UpsertInv, NEW r \in Requests, DeleteTemplate(r)
    PROVE  UpsertInv'
<1> DEFINE gone == {t \in db.templates : /\ t.id = Call(r).id
                                         /\ Call(r).host \in {0, t.host}
                                         /\ Call(r).project \in {0, t.project}}
           scopes == DOMAIN settled \ {ScopeOf(t) : t \in gone}
<1>1. /\ Go(r, Ended(r, TRUE)) /\ setting' = setting /\ ids' = ids /\ crowded' = crowded
      /\ db' = [db EXCEPT !.templates = @ \ gone]
      /\ settled' = [s \in scopes |-> settled[s]]
  BY DEF DeleteTemplate
<1>2. \A s \in scopes : s \in DOMAIN settled /\ \A t \in gone : ScopeOf(t) # s
  OBVIOUS
<1>3. Ended(r, TRUE).pc = "audit"
  BY PcOf
<1> HIDE DEF gone, scopes
<1>4. db'.templates = db.templates \ gone
  BY <1>1 DEF CallsInv, Shapes, TableShape
<1>5. Quiet
  BY <1>1, <1>2, <1>4 DEF Quiet, UpsertInv
<1> QED
  BY <1>1, <1>3, <1>5, UpsertStays

LEMMA SyncStaysUpsert ==
    ASSUME CallsInv, UpsertInv, NEW r \in Requests, Sync(r)
    PROVE  UpsertInv'
<1> DEFINE n == [Ended(r, TRUE) EXCEPT !.found = {}]
<1>1. PICK list, kept, number :
        /\ db' = [db EXCEPT !.projects = SyncWritten(r, list),
                            !.templates = {t \in @ : t.project \in kept},
                            !.definitions = {d \in @ : d.project \in kept}]
        /\ ids' = [ids EXCEPT !.project = number]
        /\ settled' = [s \in {s \in DOMAIN settled : s[2] \in kept} |-> settled[s]]
  BY SyncWrites
<1>2. Go(r, n) /\ setting' = setting /\ crowded' = crowded
  BY DEF Sync
<1>3. n.pc = "audit"
  BY DEF CallsInv, Shapes, CallShape, Ended
<1>4. db'.templates = {t \in db.templates : t.project \in kept}
  BY <1>1 DEF CallsInv, Shapes, TableShape
<1>5. \A t \in db.templates : ScopeOf(t)[2] = t.project
  BY DEF ScopeOf
<1>6. Quiet
  BY <1>1, <1>2, <1>4, <1>5 DEF Quiet, UpsertInv
<1> HIDE DEF n
<1> QED
  BY <1>2, <1>3, <1>6, UpsertStays

-----------------------------------------------------------------------------
(* An upsert: it looks for its row, and writes it later.                   *)

\* Looking for the row of a scope finds what FoundIn says.
LEMMA LookingFinds ==
    ASSUME NEW rows, NEW last, NEW overlapped, Telling(rows, last, overlapped),
           NEW call, NEW row \in RowOfTemplate(rows, call)
    PROVE  FoundIn(rows, last, overlapped, <<call.host, call.project, call.key>>, call.id, row)
<1> DEFINE scope == <<call.host, call.project, call.key>>
           Here == {t \in rows : ScopeOf(t) = scope}
<1>1. CASE \E t \in rows : t.id = call.id
  <2>1. row = call.id
    BY <1>1 DEF RowOfTemplate
  <2>2. row \in 0 .. last /\ row # 0
    BY <1>1, <2>1 DEF Telling
  <2>3. ASSUME scope \notin overlapped
        PROVE  \/ \A t \in rows : ScopeOf(t) = scope => t.id = row
               \/ \A t \in rows : t.id = row => ScopeOf(t) # scope
    BY <2>3 DEF Telling
  <2> QED
    BY <2>1, <2>2, <2>3 DEF FoundIn
<1>2. CASE ~(\E t \in rows : t.id = call.id) /\ Here = {}
  <2>1. row = 0
    BY <1>2 DEF RowOfTemplate, RowsOfScope
  <2>2. last \in Nat
    BY DEF Telling
  <2> QED
    BY <1>2, <2>1, <2>2 DEF FoundIn
<1>3. CASE ~(\E t \in rows : t.id = call.id) /\ Here # {}
  <2>1. PICK u \in Here : row = u.id
    BY <1>3 DEF RowOfTemplate, RowsOfScope
  <2>2. row \in 0 .. last /\ row # 0
    BY <2>1 DEF Telling
  <2>3. \A t \in rows : t.id = row => t = u
    BY <2>1 DEF Telling
  <2>4. scope \notin overlapped => \A t \in rows : ScopeOf(t) = scope => t = u
    BY <2>1 DEF Telling
  <2> QED
    BY <2>1, <2>2, <2>3, <2>4 DEF FoundIn
<1> QED
  BY <1>1, <1>2, <1>3

LEMMA LookStaysUpsert ==
    ASSUME CallsInv, UpsertInv, NEW r \in Requests, LookForTemplate(r)
    PROVE  UpsertInv'
<1>1. PICK row \in RowOfTemplate(db.templates, Call(r)) :
         Step(r, [Moved(r, "write") EXCEPT !.row = row])
  BY DEF LookForTemplate
<1> DEFINE n == [Moved(r, "write") EXCEPT !.row = row]
<1>2. n.pc = "write" /\ n.row = row
  BY DEF CallsInv, Shapes, CallShape, Moved
<1>3. Step(r, n)
  BY <1>1
<1> HIDE DEF n
<1>4. /\ setting' = setting /\ db' = db /\ ids' = ids /\ settled' = settled /\ crowded' = crowded
      /\ requests' = [requests EXCEPT ![r] = n]
  BY <1>3 DEF Step, Go
<1>5. Requests' = Requests
  BY <1>4 DEF Requests
<1>6. requests'[r] = n /\ \A q \in Requests : q # r => requests'[q] = requests[q]
  BY <1>4 DEF CallsInv, Shapes
<1>7. \A q \in Requests : Call(q)' = Call(q) /\ CallScope(q)' = CallScope(q)
  BY <1>4 DEF Call, CallScope
<1>8. FoundIn(db.templates, ids.template, crowded, CallScope(r), Call(r).id, row)
  BY <1>1, LookingFinds DEF UpsertInv, CallScope
<1>9. ASSUME NEW q \in Requests, Upserting(q)'
      PROVE  FoundOK(q)'
  <2>1. CASE q = r
    BY <1>2, <1>4, <1>6, <1>7, <1>8, <2>1 DEF FoundOK
  <2>2. CASE q # r
    <3>1. Upserting(q)
      BY <1>6, <1>7, <1>9, <2>2 DEF Upserting
    <3>2. FoundOK(q)
      BY <3>1 DEF UpsertInv
    <3> QED
      BY <1>4, <1>6, <1>7, <2>2, <3>2 DEF FoundOK
  <2> QED
    BY <2>1, <2>2
<1>10. \A q \in Requests : requests'[q].pc = "directory" => Call(q)'.op # "upsertProcessTemplate"
  BY <1>2, <1>6, <1>7 DEF UpsertInv
<1> QED
  BY <1>4, <1>5, <1>9, <1>10 DEF UpsertInv

\* What a finite set is mapped onto is finite.
LEMMA OntoFinite ==
    ASSUME NEW S, IsFiniteSet(S), NEW T, NEW f \in Surjection(S, T)
    PROVE  IsFiniteSet(T)
BY FS_Surjection, Zenon

\* Of two scopes that a write concerns, neither is settled afterwards.
LEMMA MovesCrowd ==
    ASSUME CallsInv, UpsertInv, NEW r \in Requests, NEW s \in ScopesOf(r), s # CallScope(r)
    PROVE  ScopesOf(r) \subseteq Crowding(r)
<1> DEFINE named == {t \in db.templates : t.id = Call(r).id}
           Scopes == {ScopeOf(t) : t \in named}
<1>1. IsFiniteSet(db.templates)
  BY DEF UpsertInv, Telling
<1>2. IsFiniteSet(named)
  BY <1>1, FS_Subset
<1>3. IsFiniteSet(Scopes)
  <2> DEFINE f == [t \in named |-> ScopeOf(t)]
  <2>1. f \in Surjection(named, Scopes)
    BY DEF Surjection
  <2> HIDE DEF named, Scopes, f
  <2> QED
    BY <1>2, <2>1, OntoFinite
<1>4. ScopesOf(r) = {CallScope(r)} \union Scopes
  BY DEF ScopesOf
<1>5. IsFiniteSet({CallScope(r)} \union Scopes)
  BY <1>3, FS_Singleton, FS_Union
<1> HIDE DEF Scopes
<1>6. Cardinality(ScopesOf(r)) \in Nat /\ IsFiniteSet(ScopesOf(r))
  BY <1>4, <1>5, FS_CardinalityType
<1>7. Cardinality(ScopesOf(r)) # 0 /\ Cardinality(ScopesOf(r)) # 1
  BY <1>4, <1>6, FS_EmptySet, FS_Singleton
<1>8. Cardinality(ScopesOf(r)) > 1
  BY <1>6, <1>7
<1>9. Crowding(r) = (UNION {ScopesOf(q) \intersect ScopesOf(r) : q \in Overlapping(r)})
                       \union ScopesOf(r)
  <2> HIDE DEF named
  <2> QED
    BY <1>8, Zenon DEF Crowding
<1> QED
  BY <1>9

\* What a write does to the rows, when it is not one that is missing.
Rewritten(rows, row, w) == {t \in rows : t.id # row} \union {w}

LEMMA WriteTells ==
    ASSUME NEW rows, NEW last, NEW overlapped, NEW more, overlapped \subseteq more,
           NEW scope, NEW named, NEW row, NEW w,
           Telling(rows, last, overlapped), FoundIn(rows, last, overlapped, scope, named, row),
           ScopeOf(w) = scope, w.id = IF row = 0 THEN last + 1 ELSE row,
           row # 0 => \E t \in rows : t.id = row,
           \A t \in rows : t.id = named /\ ScopeOf(t) # scope => scope \in more
    PROVE  Telling(Rewritten(rows, row, w), IF row = 0 THEN last + 1 ELSE last, more)
<1> DEFINE next == IF row = 0 THEN last + 1 ELSE last
           new == Rewritten(rows, row, w)
<1>1. last \in Nat /\ row \in 0 .. last /\ \A t \in rows : t.id \in 1 .. last
  BY DEF Telling, FoundIn
<1>2. next \in Nat /\ w.id \in 1 .. next
  BY <1>1
<1>3. IsFiniteSet(new)
  <2> DEFINE stay == {t \in rows : t.id # row}
  <2>1. IsFiniteSet(stay)
    BY FS_Subset DEF Telling
  <2>2. new = stay \union {w}
    BY DEF Rewritten
  <2> HIDE DEF stay
  <2> QED
    BY <2>1, <2>2, FS_AddElement
<1>4. \A t \in new : t.id \in 1 .. next
  BY <1>1, <1>2 DEF Rewritten
<1>5. \A t \in rows : t.id # row => t.id # w.id
  BY <1>1
<1>6. \A t, u \in new : t.id = u.id => t = u
  BY <1>5 DEF Rewritten, Telling
<1>7. ASSUME NEW t \in rows, t.id # row, ScopeOf(t) = scope
      PROVE  scope \in more
  <2> SUFFICES ASSUME scope \notin more
               PROVE  FALSE
    OBVIOUS
  <2>1. scope \notin overlapped
    OBVIOUS
  <2>2. row # 0
    BY <1>7, <2>1 DEF FoundIn
  <2>3. row = named /\ \A u \in rows : u.id = row => ScopeOf(u) # scope
    BY <1>7, <2>1, <2>2 DEF FoundIn
  <2> QED
    BY <2>2, <2>3
<1>8. \A t, u \in new : ScopeOf(t) = ScopeOf(u) /\ ScopeOf(t) \notin more => t = u
  BY <1>7 DEF Rewritten, Telling
<1> HIDE DEF next, new
<1>9. Telling(new, next, more)
  BY <1>2, <1>3, <1>4, <1>6, <1>8 DEF Telling
<1> QED
  BY <1>9 DEF next, new

\* What another call has found stays so.
LEMMA WriteLeavesFound ==
    ASSUME NEW rows, NEW last, NEW overlapped, NEW more, overlapped \subseteq more,
           NEW scope, NEW named, NEW row, NEW w,
           Telling(rows, last, overlapped), FoundIn(rows, last, overlapped, scope, named, row),
           ScopeOf(w) = scope, w.id = IF row = 0 THEN last + 1 ELSE row,
           row # 0 => \E t \in rows : t.id = row,
           \A t \in rows : t.id = named /\ ScopeOf(t) # scope =>
               scope \in more /\ ScopeOf(t) \in more,
           NEW scope2, NEW named2, NEW row2,
           FoundIn(rows, last, overlapped, scope2, named2, row2),
           scope2 = scope => scope \in more,
           \A t \in rows : t.id = named /\ ScopeOf(t) = scope2 => scope2 \in more
    PROVE  FoundIn(Rewritten(rows, row, w), IF row = 0 THEN last + 1 ELSE last, more,
                   scope2, named2, row2)
<1> DEFINE next == IF row = 0 THEN last + 1 ELSE last
           new == Rewritten(rows, row, w)
<1>1. last \in Nat /\ row \in 0 .. last /\ row2 \in 0 .. last
  BY DEF Telling, FoundIn
<1>2. row2 \in 0 .. next
  BY <1>1
<1>3. scope2 \notin more => scope2 \notin overlapped /\ ScopeOf(w) # scope2
  OBVIOUS
<1>4. \A t \in new : t \in rows \/ t = w
  BY DEF Rewritten
<1>5. row2 = 0 /\ scope2 \notin more => \A t \in new : ScopeOf(t) # scope2
  BY <1>3, <1>4 DEF FoundIn
<1>6. row2 # 0 /\ scope2 \notin more =>
          \/ \A t \in new : ScopeOf(t) = scope2 => t.id = row2
          \/ row2 = named2 /\ \A t \in new : t.id = row2 => ScopeOf(t) # scope2
  BY <1>3, <1>4 DEF FoundIn
<1>7. ASSUME row2 # 0, NEW t \in new, t.id = row2
      PROVE  \/ ScopeOf(t) = scope2
             \/ row2 = named2
             \/ ScopeOf(t) \in more /\ scope2 \in more
  <2>1. CASE t \in rows
    BY <1>7, <2>1 DEF FoundIn
  <2>2. CASE t = w
    <3>1. row # 0 /\ row = row2
      BY <1>1, <1>7, <2>2
    <3>2. PICK u \in rows : u.id = row
      BY <3>1
    <3>3. \/ ScopeOf(u) = scope
          \/ row = named
          \/ ScopeOf(u) \in overlapped /\ scope \in overlapped
      BY <3>1, <3>2 DEF FoundIn
    <3>4. \/ ScopeOf(u) = scope2
          \/ row2 = named2
          \/ ScopeOf(u) \in overlapped /\ scope2 \in overlapped
      BY <3>1, <3>2 DEF FoundIn
    <3> QED
      BY <2>2, <3>1, <3>2, <3>3, <3>4
  <2> QED
    BY <1>4, <2>1, <2>2
<1> HIDE DEF next, new
<1>8. FoundIn(new, next, more, scope2, named2, row2)
  BY <1>2, <1>5, <1>6, <1>7 DEF FoundIn
<1> QED
  BY <1>8 DEF next, new

LEMMA WriteSettles ==
    ASSUME NEW rows, NEW last, NEW overlapped, NEW more, overlapped \subseteq more,
           NEW scope, NEW named, NEW row, NEW w,
           Telling(rows, last, overlapped), FoundIn(rows, last, overlapped, scope, named, row),
           ScopeOf(w) = scope,
           \A t \in rows : t.id = named /\ ScopeOf(t) # scope => ScopeOf(t) \in more,
           NEW before, SettledIn(rows, overlapped, before),
           NEW after,
           \A s \in DOMAIN after :
              /\ s \notin more
              /\ IF s = scope THEN after[s] = Content(w)
                 ELSE s \in DOMAIN before /\ after[s] = before[s]
    PROVE  SettledIn(Rewritten(rows, row, w), more, after)
<1> SUFFICES ASSUME NEW s \in DOMAIN after
             PROVE  \E t \in Rewritten(rows, row, w) : ScopeOf(t) = s /\ Content(t) = after[s]
  BY DEF SettledIn
<1>1. CASE s = scope
  BY <1>1 DEF Rewritten
<1>2. CASE s # scope
  <2>1. s \in DOMAIN before /\ after[s] = before[s] /\ s \notin more
    BY <1>2
  <2>2. PICK t \in rows : ScopeOf(t) = s /\ Content(t) = before[s]
    BY <2>1 DEF SettledIn
  <2>3. t.id # row
    <3> SUFFICES ASSUME t.id = row
                 PROVE  FALSE
      OBVIOUS
    <3>1. row # 0
      BY DEF Telling
    <3>2. \/ ScopeOf(t) = scope \/ row = named \/ ScopeOf(t) \in overlapped
      BY <3>1 DEF FoundIn
    <3> QED
      BY <1>2, <2>1, <2>2, <3>2
  <2> QED
    BY <2>1, <2>2, <2>3 DEF Rewritten
<1> QED
  BY <1>1, <1>2

LEMMA WriteStaysUpsert ==
    ASSUME CallsInv, UpsertInv, NEW r \in Requests, WriteTemplate(r)
    PROVE  UpsertInv'
<1> DEFINE row == requests[r].row
           w == WrittenTemplate(IF row = 0 THEN ids.template + 1 ELSE row, Call(r))
           written == {w}
           missing == row # 0 /\ \A t \in db.templates : t.id # row
<1>1. CASE Fail(r)
  BY <1>1, FailStays
<1>2. CASE ~Fail(r)
  <2>1. /\ Upserting(r)
        /\ db' = IF missing THEN db
                 ELSE [db EXCEPT !.templates = {t \in @ : t.id # row} \union written]
        /\ ids' = IF row = 0 THEN [ids EXCEPT !.template = @ + 1] ELSE ids
        /\ Settle(r, IF missing THEN {} ELSE written)
        /\ requests' = [requests EXCEPT ![r] = Ended(r, TRUE)] /\ setting' = setting
    BY <1>2 DEF WriteTemplate, At, Upserting, Go
  <2>2. ScopeOf(w) = CallScope(r) /\ w.id = IF row = 0 THEN ids.template + 1 ELSE row
    BY DEF WrittenTemplate, ScopeOf, CallScope
  <2> HIDE DEF row, w, missing
  <2>3. db'.templates = IF missing THEN db.templates ELSE Rewritten(db.templates, row, w)
    BY <2>1 DEF Rewritten, CallsInv, Shapes, TableShape
  <2>4. /\ ids'.template = IF row = 0 THEN ids.template + 1 ELSE ids.template
        /\ ids' = [project |-> ids'.project, mapping |-> ids'.mapping, template |-> ids'.template]
    BY <2>1 DEF UpsertInv
  <2>5. missing => row # 0 /\ \A t \in db.templates : t.id # row
    BY DEF missing
  <2>6. ~missing => (row # 0 => \E t \in db.templates : t.id = row)
    BY DEF missing
  <2>7. /\ Telling(db.templates, ids.template, crowded)
        /\ SettledIn(db.templates, crowded, settled)
        /\ FoundIn(db.templates, ids.template, crowded, CallScope(r), Call(r).id, row)
    BY <2>1 DEF UpsertInv, FoundOK, row
  <2>8. crowded' = crowded \union Crowding(r)
    BY <2>1 DEF Settle
  <2>9. \A t \in db.templates : t.id = Call(r).id => ScopeOf(t) \in ScopesOf(r)
    BY DEF ScopesOf
  <2>10. CallScope(r) \in ScopesOf(r)
    BY DEF ScopesOf
  <2>11. \A t \in db.templates : t.id = Call(r).id /\ ScopeOf(t) # CallScope(r) =>
            CallScope(r) \in crowded' /\ ScopeOf(t) \in crowded'
    BY <2>8, <2>9, <2>10, MovesCrowd
  <2>12. \A q \in Requests : q # r /\ Upserting(q) =>
            \A s \in ScopesOf(r) \intersect ScopesOf(q) : s \in crowded'
    <3>1. \A q \in Requests : q # r /\ Upserting(q) => q \in Overlapping(r)
      BY DEF Upserting, Overlapping, At
    <3>2. \A q \in Overlapping(r) : ScopesOf(q) \intersect ScopesOf(r) \subseteq Crowding(r)
      BY DEF Crowding
    <3> QED
      BY <2>8, <3>1, <3>2
  <2>13. Telling(db'.templates, ids'.template, crowded')
    <3>1. CASE missing
      BY <2>3, <2>4, <2>5, <2>7, <2>8, <3>1 DEF Telling
    <3>2. CASE ~missing
      BY <2>2, <2>3, <2>4, <2>6, <2>7, <2>8, <2>11, <3>2, WriteTells
    <3> QED
      BY <3>1, <3>2
  <2>14. SettledIn(db'.templates, crowded', settled')
    <3> DEFINE put == IF missing THEN {} ELSE written
               scopes == (DOMAIN settled \union {ScopeOf(t) : t \in put}) \ crowded'
    <3>1. settled' = [s \in scopes |-> IF \E t \in put : ScopeOf(t) = s
                                       THEN Content(CHOOSE t \in put : TRUE) ELSE settled[s]]
      BY <2>1 DEF Settle
    <3>2. CASE missing
      <4>1. put = {}
        BY <3>2
      <4>2. \A s \in DOMAIN settled' : s \in DOMAIN settled /\ s \notin crowded' /\ settled'[s] = settled[s]
        BY <3>1, <4>1
      <4> QED
        BY <2>3, <2>7, <3>2, <4>2 DEF SettledIn
    <3>3. CASE ~missing
      <4>1. put = {w} /\ (CHOOSE t \in {w} : TRUE) = w
        BY <3>3
      <4>2. \A s \in DOMAIN settled' :
               /\ s \notin crowded'
               /\ IF s = CallScope(r) THEN settled'[s] = Content(w)
                  ELSE s \in DOMAIN settled /\ settled'[s] = settled[s]
        BY <2>2, <3>1, <4>1
      <4> QED
        BY <2>2, <2>3, <2>7, <2>8, <2>11, <3>3, <4>2, WriteSettles
    <3> QED
      BY <3>2, <3>3
  <2>15. Requests' = Requests
    BY <2>1 DEF Requests
  <2>16. /\ requests'[r] = Ended(r, TRUE) /\ Ended(r, TRUE).pc = "audit"
         /\ \A q \in Requests : q # r => requests'[q] = requests[q]
    BY <2>1, PcOf DEF CallsInv, Shapes
  <2>17. \A q \in Requests : Call(q)' = Call(q) /\ CallScope(q)' = CallScope(q)
    BY <2>1 DEF Call, CallScope
  <2>18. ASSUME NEW q \in Requests, Upserting(q)'
         PROVE  FoundOK(q)'
    <3>1. q # r /\ Upserting(q) /\ requests'[q] = requests[q]
      BY <2>16, <2>17, <2>18 DEF Upserting
    <3>2. FoundIn(db.templates, ids.template, crowded, CallScope(q), Call(q).id, requests[q].row)
      BY <3>1 DEF UpsertInv, FoundOK
    <3>3. CallScope(q) \in ScopesOf(q)
      BY DEF ScopesOf
    <3>4. FoundIn(db'.templates, ids'.template, crowded', CallScope(q), Call(q).id, requests[q].row)
      <4>1. CASE missing
        BY <2>3, <2>4, <2>5, <2>8, <3>2, <4>1 DEF FoundIn
      <4>2. CASE ~missing
        <5>1. CallScope(q) = CallScope(r) => CallScope(r) \in crowded'
          BY <2>10, <2>12, <3>1, <3>3
        <5>2. \A t \in db.templates : t.id = Call(r).id /\ ScopeOf(t) = CallScope(q) =>
                 CallScope(q) \in crowded'
          BY <2>9, <2>12, <3>1, <3>3
        <5>3. crowded \subseteq crowded'
          BY <2>8
        <5> QED
          BY <2>2, <2>3, <2>4, <2>6, <2>7, <2>11, <3>2, <4>2, <5>1, <5>2, <5>3, WriteLeavesFound
      <4> QED
        BY <4>1, <4>2
    <3> QED
      BY <2>17, <3>1, <3>4 DEF FoundOK
  <2>19. \A q \in Requests : requests'[q].pc = "directory" => Call(q)'.op # "upsertProcessTemplate"
    BY <2>16, <2>17 DEF UpsertInv
  <2> QED
    BY <2>4, <2>13, <2>14, <2>15, <2>18, <2>19 DEF UpsertInv
<1> QED
  BY <1>1, <1>2

-----------------------------------------------------------------------------
(* Around the calls, and at first.                                         *)

\* No call begins or is about to write a template.
LEMMA AroundStaysUpsert ==
    ASSUME UpsertInv, Quiet, DOMAIN requests' = DOMAIN requests, Requests = DOMAIN requests,
           \A q \in Requests : \/ requests'[q] = requests[q]
                               \/ requests'[q].pc = "lost"
    PROVE  UpsertInv'
<1>1. Requests' = Requests
  BY DEF Quiet, Requests
<1>2. \A q \in Requests : Call(q)' = Call(q) /\ CallScope(q)' = CallScope(q)
  BY DEF Quiet, Call, CallScope
<1>3. ASSUME NEW q \in Requests, Upserting(q)'
      PROVE  FoundOK(q)'
  <2>1. Upserting(q) /\ requests'[q] = requests[q]
    BY <1>2, <1>3 DEF Upserting
  <2>2. FoundIn(db.templates, ids.template, crowded, CallScope(q), Call(q).id, requests[q].row)
    BY <2>1 DEF UpsertInv, FoundOK
  <2>3. FoundIn(db'.templates, ids'.template, crowded', CallScope(q), Call(q).id, requests[q].row)
    BY <2>2, QuietKeeps
  <2> QED
    BY <1>2, <2>1, <2>3 DEF FoundOK
<1>4. \A q \in Requests : requests'[q].pc = "directory" => Call(q)'.op # "upsertProcessTemplate"
  BY <1>2 DEF UpsertInv
<1> QED
  BY <1>1, <1>3, <1>4, QuietKeeps DEF UpsertInv

LEMMA UpsertNext == CallsInv /\ UpsertInv /\ [Next]_vars => UpsertInv'
<1> SUFFICES ASSUME CallsInv, UpsertInv, [Next]_vars
             PROVE  UpsertInv'
  OBVIOUS
<1>1. Requests = DOMAIN requests
  BY DEF CallsInv, Shapes
<1>2. CASE UNCHANGED vars \/ Report
  <2>1. Beneath /\ requests' = requests
    BY <1>2 DEF vars, Report, Beneath, UpsertInv
  <2> QED
    BY <1>1, <2>1, BeneathQuiet, AroundStaysUpsert
<1>3. CASE Expire
  <2>1. PICK x : db' = [db EXCEPT !.tokens = x]
    BY <1>3 DEF Expire
  <2>2. Beneath /\ requests' = requests
    BY <1>3, <2>1 DEF Expire, Beneath, UpsertInv, CallsInv, Shapes, TableShape
  <2> QED
    BY <1>1, <2>2, BeneathQuiet, AroundStaysUpsert
<1>4. CASE Restart
  <2>1. Beneath
    BY <1>4 DEF Restart, Beneath, UpsertInv
  <2>2. requests' = [r \in Requests |-> IF requests[r].pc \in {"new", "done"} THEN requests[r]
                                        ELSE [requests[r] EXCEPT !.pc = "lost"]]
    BY <1>4 DEF Restart
  <2>3. \A q \in Requests : [requests[q] EXCEPT !.pc = "lost"].pc = "lost"
    BY DEF CallsInv, Shapes, CallShape
  <2>4. \A q \in Requests : requests'[q] = requests[q] \/ requests'[q].pc = "lost"
    BY <2>2, <2>3
  <2>5. DOMAIN requests' = DOMAIN requests
    BY <1>1, <2>2
  <2> QED
    BY <1>1, <2>1, <2>4, <2>5, BeneathQuiet, AroundStaysUpsert
<1>5. ASSUME NEW r \in Requests, Work(r)
      PROVE  UpsertInv'
  BY <1>5, CallsStayUpsert, ProcessesStayUpsert, MappingsStayUpsert, DirectoriesStayUpsert,
     TokensStayUpsert, DiscoveryStaysUpsert, DeleteStaysUpsert, SyncStaysUpsert, LookStaysUpsert,
     WriteStaysUpsert DEF Work
<1> QED
  BY <1>2, <1>3, <1>4, <1>5 DEF Next

\* A finite set of numbers with a member has a greatest one.
LEMMA GreatestOf ==
    ASSUME NEW S \in SUBSET Nat, IsFiniteSet(S), S # {}
    PROVE  \E m \in S : \A s \in S : m >= s
<1> DEFINE Has(U) == \E m \in U : \A s \in U : m >= s
           Bad == {U \in FiniteSubsetsOf(S) : U # {} /\ ~Has(U)}
<1> SUFFICES ASSUME ~Has(S) PROVE FALSE
  OBVIOUS
<1>1. S \in Bad /\ Bad \subseteq FiniteSubsetsOf(S)
  BY DEF FiniteSubsetsOf
<1>2. PICK U \in Bad : \A V \in Bad : ~(<<V, U>> \in StrictSubsetOrdering(S))
  <2> HIDE DEF Bad
  <2> QED
    BY <1>1, FS_StrictSubsetOrderingWellFounded, WFMin
<1>3. U \in SUBSET S /\ IsFiniteSet(U) /\ U # {} /\ ~Has(U)
  BY <1>2 DEF FiniteSubsetsOf
<1>4. PICK x \in U : TRUE
  BY <1>3
<1> DEFINE V == U \ {x}
<1>5. V \in FiniteSubsetsOf(S) /\ <<V, U>> \in StrictSubsetOrdering(S)
  BY <1>3, <1>4, FS_Subset DEF FiniteSubsetsOf, StrictSubsetOrdering
<1>6. V = {} \/ Has(V)
  BY <1>2, <1>5
<1>7. CASE V = {}
  BY <1>3, <1>4, <1>7
<1>8. CASE Has(V)
  <2>1. PICK m \in V : \A s \in V : m >= s
    BY <1>8
  <2>2. x \in Nat /\ m \in Nat /\ m \in U /\ \A s \in U : s \in Nat
    BY <1>3, <1>4, <2>1
  <2>3. CASE m >= x
    BY <2>1, <2>2, <2>3, <1>3
  <2>4. CASE x >= m
    <3>1. \A s \in U : x >= s
      BY <2>1, <2>2, <2>4
    <3> QED
      BY <1>3, <1>4, <3>1
  <2> QED
    BY <2>2, <2>3, <2>4
<1> QED
  BY <1>6, <1>7, <1>8

\* The last id of a table.
LEMMA LastId ==
    ASSUME NEW table, IsFiniteSet(table), \A t \in table : t.id \in Nat \ {0}
    PROVE  NextId(table) - 1 \in Nat /\ \A t \in table : t.id \in 1 .. NextId(table) - 1
<1> DEFINE S == {0} \union {row.id : row \in table}
           IdSet == {row.id : row \in table}
           f == [row \in table |-> row.id]
<1>1. IsFiniteSet(IdSet)
  <2>1. f \in Surjection(table, IdSet)
    BY DEF Surjection
  <2> HIDE DEF f, IdSet
  <2> QED
    BY <2>1, OntoFinite
<1>2. IsFiniteSet(S) /\ S # {} /\ S \in SUBSET Nat
  <2>1. S = IdSet \union {0} /\ IdSet \in SUBSET Nat
    OBVIOUS
  <2> HIDE DEF IdSet, S
  <2> QED
    BY <1>1, <2>1, FS_AddElement
<1>3. \A t \in table : t.id \in S
  OBVIOUS
<1>4. NextId(table) = (CHOOSE x \in S : \A y \in S : x >= y) + 1
  BY DEF NextId, Max
<1> HIDE DEF S
<1> DEFINE m == CHOOSE x \in S : \A y \in S : x >= y
<1>5. m \in S /\ \A y \in S : m >= y
  BY <1>2, GreatestOf
<1> HIDE DEF m
<1>6. NextId(table) = m + 1 /\ m \in Nat
  BY <1>2, <1>4, <1>5 DEF m
<1> QED
  BY <1>3, <1>5, <1>6

LEMMA UpsertInit == Init => UpsertInv
<1> SUFFICES ASSUME Init
             PROVE  UpsertInv
  OBVIOUS
<1>1. /\ db.templates = setting.templates /\ setting \in Settings
      /\ ids = [project |-> NextId(setting.projects) - 1, mapping |-> NextId(setting.mappings) - 1,
                template |-> NextId(setting.templates) - 1]
      /\ settled = [s \in {} |-> <<>>] /\ crowded = {}
      /\ \A r \in Requests : requests[r].pc = "new"
  BY DEF Init, Fresh, Requests
<1>2. /\ IsFiniteSet(db.templates)
      /\ \A t \in db.templates : t.id \in Nat \ {0}
      /\ \A t, u \in db.templates : t.id = u.id \/ ScopeOf(t) = ScopeOf(u) => t = u
  BY <1>1, ServerApiAssumption
<1>3. ids.template = NextId(db.templates) - 1
  BY <1>1
<1>4. Telling(db.templates, ids.template, crowded)
  BY <1>2, <1>3, LastId DEF Telling
<1>5. SettledIn(db.templates, crowded, settled)
  BY <1>1 DEF SettledIn
<1> QED
  BY <1>1, <1>4, <1>5 DEF UpsertInv, Upserting

LEMMA UpsertsLast == UpsertInv => UpsertTakesEffect
<1> SUFFICES ASSUME UpsertInv, NEW s \in DOMAIN settled
             PROVE  \E t \in db.templates :
                       /\ ScopeOf(t) = s /\ Content(t) = settled[s]
                       /\ \A other \in db.templates : ScopeOf(other) = s => other.id <= t.id
  BY DEF UpsertTakesEffect
<1>1. PICK t \in db.templates : ScopeOf(t) = s /\ Content(t) = settled[s]
  BY DEF UpsertInv, SettledIn
<1>2. \A other \in db.templates : ScopeOf(other) = s => other = t
  BY <1>1 DEF UpsertInv, SettledIn, Telling
<1>3. t.id <= t.id
  BY DEF UpsertInv, Telling
<1> QED
  BY <1>1, <1>2, <1>3

\* The template of a scope is the one that its last upsert wrote, in spite of the upserts and
\* deletions that run between its steps, unless one of them overlapped it on the scope.
THEOREM UpsertsTakeEffect == Spec => []UpsertTakesEffect
<1>1. Init => CallsInv /\ UpsertInv
  BY CallsInit, UpsertInit
<1>2. CallsInv /\ UpsertInv /\ [Next]_vars => (CallsInv /\ UpsertInv)'
  BY CallsNext, UpsertNext
<1>3. CallsInv /\ UpsertInv => UpsertTakesEffect
  BY UpsertsLast
<1> QED
  BY <1>1, <1>2, <1>3, PTL DEF Spec

-----------------------------------------------------------------------------
(* The rows of projects.                                                   *)

\* What holds of 0, and of k + 1 when of k, holds of n.
LEMMA ByCount ==
    ASSUME NEW n \in Nat, NEW S, 0 \in S, \A k \in 0 .. n - 1 : k \in S => k + 1 \in S
    PROVE  n \in S
<1> DEFINE Left == {k \in 0 .. n : k \notin S}
<1> SUFFICES ASSUME Left # {}
             PROVE  FALSE
  OBVIOUS
<1>1. PICK m \in Left : \A k \in Left : ~(k < m)
  <2>1. Left \subseteq Nat /\ Left # {}
    OBVIOUS
  <2> HIDE DEF Left
  <2>2. PICK m \in Left : \A k \in Left : <<k, m>> \notin OpToRel(<, Nat)
    BY <2>1, NatLessThanWellFounded, WFMin
  <2>3. \A k \in Left : k < m => <<k, m>> \in OpToRel(<, Nat)
    BY <2>1 DEF OpToRel
  <2> QED
    BY <2>2, <2>3
<1>2. m # 0 /\ m - 1 \in 0 .. n - 1 /\ m - 1 \notin Left
  BY <1>1
<1> QED
  BY <1>1, <1>2

\* The tables between the writes of a merge.
WritesOf(f, projects, entries, list, id) ==
    f = [k \in 0 .. Cardinality(entries) |->
            IF k = 0 THEN KeptRows(projects, entries)
            ELSE WriteProject(f[k - 1], list[k], id)]

LEMMA WritesExist ==
    ASSUME NEW projects, NEW entries, IsFiniteSet(entries), NEW list, NEW id
    PROVE  \E f : WritesOf(f, projects, entries, list, id)
<1> DEFINE n == Cardinality(entries)
           More(d, k) == WriteProject(d, list[k], id)
           zero == KeptRows(projects, entries)
           Writes(f, m) == f = [k \in 0 .. m |-> IF k = 0 THEN zero ELSE More(f[k - 1], k)]
           S == {m \in 0 .. n : \E f : Writes(f, m)}
<1>0. \A f : WritesOf(f, projects, entries, list, id) <=> Writes(f, n)
  BY DEF WritesOf
<1>1. n \in Nat
  BY FS_CardinalityType
<1> HIDE DEF n, More, zero
<1>2. 0 \in S
  <2>1. Writes([k \in 0 .. 0 |-> zero], 0)
    OBVIOUS
  <2> HIDE DEF Writes
  <2> QED
    BY <1>1, <2>1
<1>3. ASSUME NEW m \in 0 .. n - 1, m \in S
      PROVE  m + 1 \in S
  <2>1. PICK f : Writes(f, m)
    BY <1>3
  <2> DEFINE g == [k \in 0 .. m + 1 |-> IF k <= m THEN f[k] ELSE More(f[m], k)]
  <2>2. \A k \in 0 .. m : g[k] = f[k]
    BY <1>1
  <2>3. ASSUME NEW k \in 0 .. m + 1
        PROVE  g[k] = IF k = 0 THEN zero ELSE More(g[k - 1], k)
    <3>1. CASE k <= m
      <4>1. g[k] = f[k] /\ f[k] = IF k = 0 THEN zero ELSE More(f[k - 1], k)
        BY <1>1, <2>1, <2>2, <3>1
      <4>2. k # 0 => g[k - 1] = f[k - 1]
        BY <1>1, <2>2, <3>1
      <4> QED
        BY <4>1, <4>2
    <3>2. CASE k = m + 1
      BY <1>1, <2>2, <3>2
    <3> QED
      BY <1>1, <3>1, <3>2
  <2>4. g = [k \in 0 .. m + 1 |-> IF k = 0 THEN zero ELSE More(g[k - 1], k)]
    <3>1. g = [k \in 0 .. m + 1 |-> g[k]]
      OBVIOUS
    <3> HIDE DEF g
    <3> QED
      BY <2>3, <3>1
  <2> HIDE DEF g
  <2>5. Writes(g, m + 1)
    BY <2>4
  <2> QED
    BY <1>1, <2>5
<1> HIDE DEF S
<1>4. n \in S
  <2>1. \A m \in 0 .. n - 1 : m \in S => m + 1 \in S
    BY <1>3
  <2> QED
    BY <1>1, <1>2, <2>1, ByCount
<1>5. PICK f : Writes(f, n)
  BY <1>4 DEF S
<1> HIDE DEF Writes
<1> QED
  BY <1>0, <1>5

\* A write takes no row away, and leaves finitely many.
LEMMA WriteKeepsRows ==
    ASSUME NEW projects, NEW entry, NEW id
    PROVE  /\ IsFiniteSet(projects) => IsFiniteSet(WriteProject(projects, entry, id))
           /\ \A p \in projects : \E q \in WriteProject(projects, entry, id) : q.id = p.id
<1> DEFINE rows == RowsOfPath(projects, entry)
           kept == CHOOSE row \in rows : \A other \in rows : other.id <= row.id
           Row(i) == [id |-> i, host |-> entry.host, path |-> entry.path, custom |-> entry.custom]
           new == Max({id} \union {row.id + 1 : row \in projects})
           next == WriteProject(projects, entry, id)
<1>1. next = IF rows = {} THEN projects \union {Row(new)} ELSE (projects \ {kept}) \union {Row(kept.id)}
  BY DEF WriteProject
<1>2. \A i : Row(i).id = i
  OBVIOUS
<1> HIDE DEF rows, kept, Row, new, next
<1>3. \A p \in projects : \E q \in next : q.id = p.id
  BY <1>1, <1>2
<1>4. IsFiniteSet(projects) => IsFiniteSet(projects \union {Row(new)})
  BY FS_AddElement
<1>5. IsFiniteSet(projects) => IsFiniteSet((projects \ {kept}) \union {Row(kept.id)})
  <2> DEFINE less == projects \ {kept}
  <2>1. less \subseteq projects
    OBVIOUS
  <2> HIDE DEF less
  <2>2. IsFiniteSet(projects) => IsFiniteSet(less)
    BY <2>1, FS_Subset
  <2>3. IsFiniteSet(projects) => IsFiniteSet(less \union {Row(kept.id)})
    BY <2>2, FS_AddElement
  <2> QED
    BY <2>3 DEF less
<1> QED
  BY <1>1, <1>3, <1>4, <1>5 DEF next

\* A merge takes away no row whose path is in the list.
LEMMA MergeKeepsRows ==
    ASSUME NEW projects, IsFiniteSet(projects), NEW entries, IsFiniteSet(entries), NEW list, NEW id
    PROVE  /\ IsFiniteSet(syncDiscoveredProjects(projects, entries, list, id))
           /\ \A p \in KeptRows(projects, entries) :
                 \E q \in syncDiscoveredProjects(projects, entries, list, id) : q.id = p.id
<1> DEFINE n == Cardinality(entries)
           written == CHOOSE f : WritesOf(f, projects, entries, list, id)
           first == KeptRows(projects, entries)
           S == {k \in 0 .. n : /\ IsFiniteSet(written[k])
                                /\ \A p \in first : \E q \in written[k] : q.id = p.id}
<1>1. syncDiscoveredProjects(projects, entries, list, id) = written[n]
  BY DEF syncDiscoveredProjects, WritesOf
<1>2. WritesOf(written, projects, entries, list, id)
  BY WritesExist
<1>3. n \in Nat
  BY FS_CardinalityType
<1>4. IsFiniteSet(first)
  <2>1. first \subseteq projects
    BY DEF KeptRows
  <2> HIDE DEF first
  <2> QED
    BY <2>1, FS_Subset
<1> HIDE DEF written
<1>5. written[0] = first
  BY <1>2, <1>3 DEF WritesOf
<1>6. \A k \in 0 .. n - 1 : written[k + 1] = WriteProject(written[k], list[k + 1], id)
  <2> SUFFICES ASSUME NEW k \in 0 .. n - 1
               PROVE  written[k + 1] = WriteProject(written[k], list[k + 1], id)
    OBVIOUS
  <2> DEFINE m == k + 1
  <2>1. m \in 0 .. n /\ m # 0 /\ m - 1 = k
    BY <1>3
  <2> HIDE DEF m
  <2>2. written[m] = WriteProject(written[m - 1], list[m], id)
    BY <1>2, <2>1 DEF WritesOf
  <2> QED
    BY <2>1, <2>2 DEF m
<1> HIDE DEF first, n
<1>7. 0 \in S
  BY <1>3, <1>4, <1>5
<1>8. ASSUME NEW k \in 0 .. n - 1, k \in S
      PROVE  k + 1 \in S
  <2>1. k + 1 \in 0 .. n
    BY <1>3
  <2> DEFINE old == written[k]
             new == written[k + 1]
  <2>2. IsFiniteSet(new) /\ \A p \in old : \E q \in new : q.id = p.id
    BY <1>6, <1>8, WriteKeepsRows
  <2>3. \A p \in first : \E q \in old : q.id = p.id
    BY <1>8
  <2> HIDE DEF old, new
  <2>4. \A p \in first : \E q \in new : q.id = p.id
    BY <2>2, <2>3
  <2> QED
    BY <2>1, <2>2, <2>4 DEF new
<1> HIDE DEF S
<1>9. n \in S
  BY <1>3, <1>7, <1>8, ByCount
<1> QED
  BY <1>1, <1>9 DEF S, first

LEMMA ValuesFinite ==
    ASSUME NEW S, IsFiniteSet(S), NEW f, f = [x \in S |-> f[x]]
    PROVE  IsFiniteSet({f[x] : x \in S})
<1> DEFINE T == {f[x] : x \in S}
<1>1. f \in Surjection(S, T)
  BY DEF Surjection
<1> HIDE DEF T
<1>2. IsFiniteSet(T)
  BY <1>1, OntoFinite
<1> QED
  BY <1>2 DEF T

\* The paths of the rows that were added by hand.
LEMMA PathsFinite ==
    ASSUME NEW projects, IsFiniteSet(projects)
    PROVE  IsFiniteSet({p.path : p \in {p \in projects : p.custom}})
<1> DEFINE own == {p \in projects : p.custom}
           f == [p \in own |-> p.path]
<1>1. IsFiniteSet(own)
  <2>1. own \subseteq projects
    OBVIOUS
  <2> HIDE DEF own
  <2> QED
    BY <2>1, FS_Subset
<1> HIDE DEF own
<1>2. IsFiniteSet({f[p] : p \in own})
  <2>1. f = [p \in own |-> f[p]]
    OBVIOUS
  <2> HIDE DEF f
  <2> QED
    BY <1>1, <2>1, ValuesFinite
<1>3. {f[p] : p \in own} = {p.path : p \in own}
  OBVIOUS
<1> QED
  BY <1>2, <1>3 DEF own

\* What is merged with a list is finite, and has the paths of the list.
LEMMA MergedOK ==
    ASSUME NEW reported, IsFiniteSet(reported), NEW paths, IsFiniteSet(paths), NEW hosts
    PROVE  /\ IsFiniteSet(Merged(reported, paths, hosts))
           /\ \A e \in reported : \E m \in Merged(reported, paths, hosts) : m.path = e.path
<1> DEFINE rest == paths \ {entry.path : entry \in reported}
           f == [path \in rest |-> [agent |-> "none", path |-> path, custom |-> TRUE]]
           added == {f[path] : path \in rest}
           both == reported \union added
           g == [entry \in both |->
                    [host |-> IF entry.agent \in DOMAIN hosts THEN hosts[entry.agent] ELSE 0,
                     path |-> entry.path, custom |-> entry.custom]]
<1>1. added = createCustomPathDiscoveryEntry(paths, reported)
  BY DEF createCustomPathDiscoveryEntry
<1>2. Merged(reported, paths, hosts) = {g[entry] : entry \in both}
  BY <1>1 DEF Merged, resolveDiscoveredProjectHostMetadata
<1>3. IsFiniteSet(rest)
  <2>1. rest \subseteq paths
    OBVIOUS
  <2> HIDE DEF rest
  <2> QED
    BY <2>1, FS_Subset
<1> HIDE DEF rest
<1>4. IsFiniteSet(added)
  <2>1. f = [path \in rest |-> f[path]]
    OBVIOUS
  <2> HIDE DEF f
  <2> QED
    BY <1>3, <2>1, ValuesFinite
<1> HIDE DEF added
<1>5. IsFiniteSet(both)
  BY <1>4, FS_Union
<1>6. \A e \in reported : e \in both
  OBVIOUS
<1> HIDE DEF both
<1>7. IsFiniteSet({g[entry] : entry \in both})
  <2>1. g = [entry \in both |-> g[entry]]
    OBVIOUS
  <2> HIDE DEF g
  <2> QED
    BY <1>5, <2>1, ValuesFinite
<1>8. \A e \in both : g[e].path = e.path
  OBVIOUS
<1> HIDE DEF g
<1> QED
  BY <1>2, <1>6, <1>7, <1>8

\* A list that was read holds every path that the slaves report all the time, however late
\* it is merged.
ListOK(q) ==
    q.pc \in {"merge", "sync"} =>
        /\ IsFiniteSet(q.found)
        /\ \A path \in Steady : \E e \in q.found : e.path = path

ListsInv ==
    /\ at \in DOMAIN setting.reports
    /\ IsFiniteSet(custom) /\ IsFiniteSet(db.projects)
    /\ \A r \in Requests : ListOK(requests[r])

LEMMA ListsInit == Init => ListsInv
<1> SUFFICES ASSUME Init
             PROVE  ListsInv
  OBVIOUS
<1>1. setting \in Settings /\ db.projects = setting.projects
  BY DEF Init
<1>2. IsFiniteSet(setting.projects) /\ at \in DOMAIN setting.reports
  BY <1>1, ServerApiAssumption DEF Init
<1>3. IsFiniteSet(custom)
  BY <1>2, PathsFinite DEF Init
<1>4. \A r \in Requests : requests[r].pc = "new"
  BY DEF Init, Fresh, Requests
<1> QED
  BY <1>1, <1>2, <1>3, <1>4 DEF ListsInv, ListOK

\* The call r moves on, the others stay, and with them what the slaves report.
LEMMA ListStays ==
    ASSUME CallsInv, ListsInv, NEW r \in Requests, NEW n, Go(r, n), ListOK(n),
           setting' = setting, at' = at, IsFiniteSet(custom'), IsFiniteSet(db'.projects)
    PROVE  ListsInv'
<1>1. Steady' = Steady /\ Requests' = Requests
  BY DEF Steady, Requests
<1>2. \A q \in Requests : requests'[q] = IF q = r THEN n ELSE requests[q]
  BY DEF Go, CallsInv, Shapes
<1> QED
  BY <1>1, <1>2 DEF ListsInv, ListOK

\* A step that reads no list and writes no project.
Aside(r) ==
    /\ \E n : Go(r, n) /\ n.pc \notin {"merge", "sync"}
    /\ setting' = setting /\ at' = at /\ custom' = custom /\ db'.projects = db.projects

LEMMA AsideStays ==
    ASSUME CallsInv, ListsInv, NEW r \in Requests, Aside(r)
    PROVE  ListsInv'
<1>1. PICK n : Go(r, n) /\ n.pc \notin {"merge", "sync"}
  BY DEF Aside
<1>2. ListOK(n)
  BY <1>1 DEF ListOK
<1> QED
  BY <1>1, <1>2, ListStays DEF Aside, ListsInv

LEMMA StepAside ==
    ASSUME CallsInv, NEW r \in Requests, NEW n, Step(r, n), n.pc \notin {"merge", "sync"}
    PROVE  Aside(r)
BY DEF Step, Aside

LEMMA FailAside == ASSUME CallsInv, NEW r \in Requests, Fail(r) PROVE Aside(r)
<1>1. Ended(r, FALSE).pc = "audit"
  BY PcOf
<1> QED
  BY <1>1 DEF Fail, Aside

LEMMA UnheardAside == ASSUME CallsInv, NEW r \in Requests, Step(r, Unheard(r)) PROVE Aside(r)
<1>1. Unheard(r).pc = "audit"
  BY PcOf
<1> QED
  BY <1>1, StepAside

\* A write to the other tables that ends the call.
LEMMA EndAside ==
    ASSUME CallsInv, NEW r \in Requests, Go(r, Ended(r, TRUE)),
           setting' = setting, at' = at, custom' = custom, db'.projects = db.projects
    PROVE  Aside(r)
<1>1. Ended(r, TRUE).pc = "audit"
  BY PcOf
<1> QED
  BY <1>1 DEF Aside

LEMMA CallsAside ==
    ASSUME CallsInv, NEW r \in Requests, Authenticate(r) \/ Authorize(r)
    PROVE  Aside(r)
<1>1. CASE Authenticate(r)
  <2>1. Step(r, Moved(r, "called")) \/ Step(r, [Moved(r, "done") EXCEPT !.answer = "error"])
    BY <1>1 DEF Authenticate
  <2>2. Moved(r, "called").pc = "called" /\ [Moved(r, "done") EXCEPT !.answer = "error"].pc = "done"
    BY PcOf
  <2> QED
    BY <2>1, <2>2, StepAside
<1>2. CASE Authorize(r)
  <2>1. \/ Step(r, Moved(r, First(Call(r).op))) \/ Fail(r)
        \/ Step(r, [Moved(r, "done") EXCEPT !.answer = "error"])
    BY <1>2 DEF Authorize
  <2>2. /\ Moved(r, First(Call(r).op)).pc = First(Call(r).op)
        /\ [Moved(r, "done") EXCEPT !.answer = "error"].pc = "done"
    BY PcOf
  <2>3. First(Call(r).op) \notin {"merge", "sync"}
    BY FirstSteps
  <2> QED
    BY <2>1, <2>2, <2>3, StepAside, FailAside
<1> QED
  BY <1>1, <1>2

LEMMA ProcessesAside ==
    ASSUME CallsInv, NEW r \in Requests,
           FindProject(r) \/ FindAgain(r) \/ ListTemplates(r) \/ Compile(r) \/ Register(r)
    PROVE  Aside(r)
<1>1. CASE FindProject(r)
  <2>1. PICK x, y : Step(r, [Moved(r, "refind") EXCEPT !.project = x, !.view = y]) \/ Fail(r)
    BY <1>1 DEF FindProject
  <2>2. [Moved(r, "refind") EXCEPT !.project = x, !.view = y].pc = "refind"
    BY PcOf
  <2> QED
    BY <2>1, <2>2, StepAside, FailAside
<1>2. CASE FindAgain(r)
  <2>1. PICK x : Step(r, [Moved(r, "list") EXCEPT !.row = x]) \/ Fail(r)
    BY <1>2 DEF FindAgain
  <2>2. [Moved(r, "list") EXCEPT !.row = x].pc = "list"
    BY PcOf
  <2> QED
    BY <2>1, <2>2, StepAside, FailAside
<1>3. CASE ListTemplates(r)
  <2>1. PICK x : Step(r, [Moved(r, "compile") EXCEPT !.template = x]) \/ Fail(r)
    BY <1>3 DEF ListTemplates
  <2>2. [Moved(r, "compile") EXCEPT !.template = x].pc = "compile"
    BY PcOf
  <2> QED
    BY <2>1, <2>2, StepAside, FailAside
<1>4. CASE Compile(r)
  <2>1. PICK x, z : Step(r, [Moved(r, "register") EXCEPT !.steady = x, !.view = {}, !.made = z]) \/ Fail(r)
    BY <1>4 DEF Compile
  <2>2. [Moved(r, "register") EXCEPT !.steady = x, !.view = {}, !.made = z].pc = "register"
    BY PcOf
  <2> QED
    BY <2>1, <2>2, StepAside, FailAside
<1>5. CASE Register(r) /\ ~Fail(r) /\ ~Step(r, Unheard(r))
  <2>1. PICK x : db' = [db EXCEPT !.definitions = x]
    BY <1>5 DEF Register
  <2>2. /\ Go(r, Ended(r, TRUE)) /\ setting' = setting /\ at' = at /\ custom' = custom
    BY <1>5 DEF Register
  <2>3. db'.projects = db.projects
    BY <2>1 DEF CallsInv, Shapes, TableShape
  <2> QED
    BY <2>2, <2>3, EndAside
<1> QED
  BY <1>1, <1>2, <1>3, <1>4, <1>5, FailAside, UnheardAside

LEMMA TemplatesAside ==
    ASSUME CallsInv, NEW r \in Requests,
           CheckTemplate(r) \/ LookForTemplate(r) \/ WriteTemplate(r) \/ DeleteTemplate(r)
    PROVE  Aside(r)
<1>1. CASE CheckTemplate(r)
  <2>1. Step(r, Moved(r, "look")) \/ Fail(r)
    BY <1>1 DEF CheckTemplate
  <2>2. Moved(r, "look").pc = "look"
    BY PcOf
  <2> QED
    BY <2>1, <2>2, StepAside, FailAside
<1>2. CASE LookForTemplate(r)
  <2>1. PICK x : Step(r, [Moved(r, "write") EXCEPT !.row = x])
    BY <1>2 DEF LookForTemplate
  <2>2. [Moved(r, "write") EXCEPT !.row = x].pc = "write"
    BY PcOf
  <2> QED
    BY <2>1, <2>2, StepAside
<1>3. CASE (WriteTemplate(r) \/ DeleteTemplate(r)) /\ ~Fail(r)
  <2>1. PICK x : db' = [db EXCEPT !.templates = x] \/ db' = db
    BY <1>3 DEF WriteTemplate, DeleteTemplate
  <2>2. /\ Go(r, Ended(r, TRUE)) /\ setting' = setting /\ at' = at /\ custom' = custom
    BY <1>3 DEF WriteTemplate, DeleteTemplate
  <2>3. db'.projects = db.projects
    BY <2>1 DEF CallsInv, Shapes, TableShape
  <2> QED
    BY <2>2, <2>3, EndAside
<1> QED
  BY <1>1, <1>2, <1>3, FailAside

LEMMA PathsAside ==
    ASSUME CallsInv, NEW r \in Requests,
           \/ CheckMapping(r) \/ LookForMapping(r) \/ WriteMapping(r) \/ DeleteMapping(r)
           \/ ReadDirectories(r) \/ WriteDirectories(r)
    PROVE  Aside(r)
<1>1. CASE CheckMapping(r)
  <2>1. Step(r, Moved(r, "look")) \/ Fail(r)
    BY <1>1 DEF CheckMapping
  <2>2. Moved(r, "look").pc = "look"
    BY PcOf
  <2> QED
    BY <2>1, <2>2, StepAside, FailAside
<1>2. CASE LookForMapping(r)
  <2>1. PICK x : Step(r, [Moved(r, "write") EXCEPT !.row = x])
    BY <1>2 DEF LookForMapping
  <2>2. [Moved(r, "write") EXCEPT !.row = x].pc = "write"
    BY PcOf
  <2> QED
    BY <2>1, <2>2, StepAside
<1>3. CASE (WriteMapping(r) \/ DeleteMapping(r)) /\ ~Fail(r)
  <2>1. PICK x : db' = [db EXCEPT !.mappings = x]
    BY <1>3 DEF WriteMapping, DeleteMapping
  <2>2. /\ Go(r, Ended(r, TRUE)) /\ setting' = setting /\ at' = at /\ custom' = custom
    BY <1>3 DEF WriteMapping, DeleteMapping
  <2>3. db'.projects = db.projects
    BY <2>1 DEF CallsInv, Shapes, TableShape
  <2> QED
    BY <2>2, <2>3, EndAside
<1>4. CASE ReadDirectories(r)
  <2> DEFINE n == [Moved(r, "write") EXCEPT !.view = db.directories[Call(r).host], !.performed = TRUE]
  <2>1. Step(r, n) \/ Step(r, Unheard(r)) \/ Fail(r)
    BY <1>4 DEF ReadDirectories
  <2>2. n.pc = "write"
    BY PcOf
  <2> HIDE DEF n
  <2> QED
    BY <2>1, <2>2, StepAside, FailAside, UnheardAside
<1>5. CASE WriteDirectories(r)
  <2> DEFINE n == [Ended(r, TRUE) EXCEPT !.view = {}]
  <2>1. PICK x : db' = [db EXCEPT !.directories = x]
    BY <1>5 DEF WriteDirectories
  <2>2. Go(r, n) /\ setting' = setting /\ at' = at /\ custom' = custom
    BY <1>5 DEF WriteDirectories
  <2>3. db'.projects = db.projects
    BY <2>1 DEF CallsInv, Shapes, TableShape
  <2>4. n.pc = "audit"
    BY DEF CallsInv, Shapes, CallShape, Ended
  <2> HIDE DEF n
  <2> QED
    BY <2>2, <2>3, <2>4 DEF Aside
<1> QED
  BY <1>1, <1>2, <1>3, <1>4, <1>5, FailAside

LEMMA TokensAside ==
    ASSUME CallsInv, NEW r \in Requests,
           CreateToken(r) \/ RevokeToken(r) \/ Act(r) \/ Audit(r)
    PROVE  Aside(r)
<1>1. Ended(r, TRUE).pc = "audit" /\ Moved(r, "done").pc = "done"
  BY PcOf
<1>2. ASSUME NEW from, NEW to, SetToken(r, from, to)
      PROVE  Aside(r)
  <2>1. PICK x : db' = [db EXCEPT !.tokens = x]
    BY <1>2 DEF SetToken
  <2>2. Go(r, Ended(r, TRUE)) /\ setting' = setting /\ at' = at /\ custom' = custom
    BY <1>2 DEF SetToken
  <2>3. db'.projects = db.projects
    BY <2>1 DEF CallsInv, Shapes, TableShape
  <2> QED
    BY <2>2, <2>3, EndAside
<1>3. CASE CreateToken(r) \/ RevokeToken(r)
  BY <1>2, <1>3, FailAside DEF CreateToken, RevokeToken
<1>4. CASE Act(r)
  <2>1. Step(r, Ended(r, TRUE)) \/ Step(r, Unheard(r)) \/ Fail(r)
    BY <1>4 DEF Act
  <2> QED
    BY <1>1, <2>1, StepAside, FailAside, UnheardAside
<1>5. CASE Audit(r)
  <2>1. Go(r, Moved(r, "done")) /\ setting' = setting /\ at' = at /\ custom' = custom
    BY <1>5 DEF Audit, recordRuntimeAuditEvent
  <2>2. PICK x : db' = [db EXCEPT !.audit = x] \/ db' = db
    BY <1>5 DEF Audit, recordRuntimeAuditEvent
  <2>3. db'.projects = db.projects
    BY <2>2 DEF CallsInv, Shapes, TableShape
  <2> QED
    BY <1>1, <2>1, <2>3 DEF Aside
<1> QED
  BY <1>3, <1>4, <1>5

\* The paths that the slaves report all the time are in what they report now.
LEMMA ReportedOK ==
    ASSUME CallsInv, ListsInv
    PROVE  IsFiniteSet(Reported) /\ \A path \in Steady : \E e \in Reported : e.path = path
<1>1. setting \in Settings /\ at \in DOMAIN setting.reports
  BY DEF CallsInv, Shapes, ListsInv
<1> QED
  BY <1>1, ServerApiAssumption DEF Reported, Steady

LEMMA FoundOf ==
    ASSUME CallsInv, NEW r \in Requests, NEW pc, NEW x
    PROVE  /\ [Moved(r, pc) EXCEPT !.found = x].pc = pc
           /\ [Moved(r, pc) EXCEPT !.found = x].found = x
<1>1. CallShape(requests[r])
  BY DEF CallsInv, Shapes
<1> QED
  BY <1>1 DEF CallShape, Moved

LEMMA ReadingKeepsLists ==
    ASSUME CallsInv, ListsInv, NEW r \in Requests, AddProject(r) \/ Scan(r) \/ Merge(r)
    PROVE  ListsInv' /\ db'.projects = db.projects
<1>1. CASE AddProject(r)
  <2>1. /\ Go(r, [Moved(r, "scan") EXCEPT !.performed = TRUE]) /\ setting' = setting
        /\ at' = at /\ db' = db /\ custom' = custom \union {normalizePathPrefix(Call(r).path)}
    BY <1>1 DEF AddProject
  <2>2. ListOK([Moved(r, "scan") EXCEPT !.performed = TRUE])
    BY PcOf DEF ListOK
  <2>3. IsFiniteSet(custom')
    BY <2>1, FS_AddElement DEF ListsInv
  <2> QED
    BY <2>1, <2>2, <2>3, ListStays DEF ListsInv
<1>2. CASE Scan(r) /\ ~Fail(r)
  <2> DEFINE n == [Moved(r, "merge") EXCEPT !.found = Reported]
  <2>1. Step(r, n)
    BY <1>2 DEF Scan
  <2>2. n.found = Reported
    BY FoundOf
  <2> HIDE DEF n
  <2>3. ListOK(n)
    BY <2>2, ReportedOK DEF ListOK
  <2> QED
    BY <2>1, <2>3, ListStays DEF Step, ListsInv
<1>3. CASE Merge(r)
  <2> DEFINE found == requests[r].found
             all == Merged(found, custom, setting.agents)
             n == [Moved(r, "sync") EXCEPT !.found = all]
  <2>1. requests[r].pc = "merge"
    BY <1>3 DEF Merge, At
  <2>2. Step(r, n)
    <3>1. CallShape(requests[r])
      BY DEF CallsInv, Shapes
    <3>2. Moved(r, "sync").found = requests[r].found
      BY <3>1 DEF Moved, CallShape
    <3> QED
      BY <1>3, <3>2 DEF Merge
  <2>3. n.found = all
    BY FoundOf
  <2>4. IsFiniteSet(found) /\ \A path \in Steady : \E e \in found : e.path = path
    BY <2>1 DEF ListsInv, ListOK
  <2>5. IsFiniteSet(all) /\ \A e \in found : \E m \in all : m.path = e.path
    BY <2>4, MergedOK DEF ListsInv
  <2> HIDE DEF n, all, found
  <2>6. ListOK(n)
    BY <2>3, <2>4, <2>5 DEF ListOK
  <2> QED
    BY <2>2, <2>6, ListStays DEF Step, ListsInv
<1> QED
  BY <1>1, <1>2, <1>3, FailAside, AsideStays DEF Aside

LEMMA SyncKeepsLists ==
    ASSUME CallsInv, ListsInv, NEW r \in Requests, Sync(r)
    PROVE  /\ ListsInv'
           /\ \A p \in db.projects : p.path \in Steady => \E q \in db'.projects : q.id = p.id
<1> DEFINE found == requests[r].found
           n == [Ended(r, TRUE) EXCEPT !.found = {}]
<1>1. /\ requests[r].pc = "sync" /\ Go(r, n) /\ setting' = setting /\ at' = at
      /\ custom' = custom
  BY DEF Sync, At
<1>2. PICK list : db'.projects = SyncWritten(r, list)
  <2>1. PICK list, kept, number :
          /\ db' = [db EXCEPT !.projects = SyncWritten(r, list),
                              !.templates = {t \in @ : t.project \in kept},
                              !.definitions = {d \in @ : d.project \in kept}]
          /\ ids' = [ids EXCEPT !.project = number]
          /\ settled' = [s \in {s \in DOMAIN settled : s[2] \in kept} |-> settled[s]]
    BY SyncWrites
  <2> QED
    BY <2>1 DEF CallsInv, Shapes, TableShape
<1>3. IsFiniteSet(found) /\ \A path \in Steady : \E e \in found : e.path = path
  BY <1>1 DEF ListsInv, ListOK
<1>4. IsFiniteSet(db.projects)
  BY DEF ListsInv
<1>5. /\ IsFiniteSet(SyncWritten(r, list))
      /\ \A p \in KeptRows(db.projects, found) : \E q \in SyncWritten(r, list) : q.id = p.id
  BY <1>3, <1>4, MergeKeepsRows DEF SyncWritten
<1>6. n.pc = "audit"
  BY DEF CallsInv, Shapes, CallShape, Ended
<1> HIDE DEF n, found
<1>7. ListOK(n)
  BY <1>6 DEF ListOK
<1>8. ListsInv'
  BY <1>1, <1>2, <1>5, <1>7, ListStays DEF ListsInv
<1>9. \A p \in db.projects : p.path \in Steady => p \in KeptRows(db.projects, found)
  BY <1>3 DEF KeptRows
<1> QED
  BY <1>2, <1>5, <1>8, <1>9

LEMMA AroundKeepsLists ==
    ASSUME CallsInv, ListsInv, Report \/ Expire \/ Restart
    PROVE  ListsInv' /\ db'.projects = db.projects
<1>1. CASE Report
  <2>1. setting' = setting /\ db' = db /\ custom' = custom /\ requests' = requests /\ at' = at + 1
    BY <1>1 DEF Report
  <2>2. at' \in DOMAIN setting.reports
    <3>1. setting \in Settings /\ at \in DOMAIN setting.reports /\ at < Len(setting.reports)
      BY <1>1 DEF CallsInv, Shapes, ListsInv, Report
    <3>2. DOMAIN setting.reports = 1 .. Len(setting.reports) /\ Len(setting.reports) \in Nat
      BY <3>1, ServerApiAssumption
    <3> QED
      BY <2>1, <3>1, <3>2
  <2> QED
    BY <2>1, <2>2 DEF ListsInv, ListOK, Steady, Requests
<1>2. CASE Expire
  <2>1. PICK x : db' = [db EXCEPT !.tokens = x]
    BY <1>2 DEF Expire
  <2>2. db'.projects = db.projects
    BY <2>1 DEF CallsInv, Shapes, TableShape
  <2>3. setting' = setting /\ custom' = custom /\ requests' = requests /\ at' = at
    BY <1>2 DEF Expire
  <2> QED
    BY <2>2, <2>3 DEF ListsInv, ListOK, Steady, Requests
<1>3. CASE Restart
  <2>1. /\ setting' = setting /\ db' = db /\ at' = at
        /\ custom' = {p.path : p \in {p \in db.projects : p.custom}}
    BY <1>3 DEF Restart
  <2>2. IsFiniteSet(custom')
    BY <2>1, PathsFinite DEF ListsInv
  <2>3. ASSUME NEW q \in Requests
        PROVE  requests'[q] = requests[q] \/ requests'[q].pc = "lost"
    <3>1. CallShape(requests[q])
      BY DEF CallsInv, Shapes
    <3>2. requests'[q] = IF requests[q].pc \in {"new", "done"} THEN requests[q]
                         ELSE [requests[q] EXCEPT !.pc = "lost"]
      BY <1>3 DEF Restart
    <3> QED
      BY <3>1, <3>2 DEF CallShape
  <2>4. Steady' = Steady /\ Requests' = Requests
    BY <2>1 DEF Steady, Requests
  <2> QED
    BY <2>1, <2>2, <2>3, <2>4 DEF ListsInv, ListOK
<1> QED
  BY <1>1, <1>2, <1>3

LEMMA ListsNext ==
    ASSUME CallsInv, ListsInv, [Next]_vars
    PROVE  /\ ListsInv'
           /\ \A p \in db.projects : p.path \in Steady => \E q \in db'.projects : q.id = p.id
<1>1. CASE UNCHANGED vars
  BY <1>1 DEF vars, ListsInv, ListOK, Steady, Requests
<1>2. CASE Report \/ Expire \/ Restart
  BY <1>2, AroundKeepsLists
<1>3. ASSUME NEW r \in Requests, Work(r)
      PROVE  /\ ListsInv'
             /\ \A p \in db.projects : p.path \in Steady => \E q \in db'.projects : q.id = p.id
  <2>1. CASE Aside(r)
    BY <2>1, AsideStays DEF Aside
  <2>2. CASE AddProject(r) \/ Scan(r) \/ Merge(r)
    BY <2>2, ReadingKeepsLists
  <2>3. CASE Sync(r)
    BY <2>3, SyncKeepsLists
  <2> QED
    BY <1>3, <2>1, <2>2, <2>3, CallsAside, ProcessesAside, TemplatesAside, PathsAside,
       TokensAside DEF Work
<1> QED
  BY <1>1, <1>2, <1>3 DEF Next

\* No merge of a discovery takes away a project whose path the slaves never stop reporting:
\* the list it merges may be old, but every list holds that path, and a row is known by its
\* path alone, on whatever host it is found.
THEOREM SteadyProjectsKept == Spec => SteadyProjectsStay
<1>1. CallsInv /\ ListsInv /\ [Next]_vars
        => [\A p \in db.projects : p.path \in Steady => \E q \in db'.projects : q.id = p.id]_vars
  BY ListsNext
<1>2. CallsInv /\ ListsInv /\ [Next]_vars => ListsInv'
  BY ListsNext
<1> QED
  BY CallsInit, CallsNext, ListsInit, <1>1, <1>2, PTL DEF Spec, SteadyProjectsStay
=============================================================================
