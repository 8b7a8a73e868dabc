---------------------------- MODULE HostCatalog -----------------------------
(***************************************************************************)
(* The hosts that the server keeps and the deployments it runs on them     *)
(* (packages/server/src: hostCatalog.js, hostAgentLifecycle.js,            *)
(* hostDeployment.js and the host operations of index.js).  Every listing  *)
(* of hosts or projects reads the master's list of slaves, merges it into  *)
(* the table (HostRows) and starts an upgrade on every slave that is out   *)
(* of date.  A deployment may ask the browsers for a sudo password.        *)
(*                                                                         *)
(* The promise of a deployment that was started by hand is not awaited: if *)
(* it fails, the rejection is unhandled and ends the server.               *)
(***************************************************************************)
EXTENDS HostRows

CONSTANTS Calls,      \* listings and upgrades that may be under way at once
          Browsers,
          Order,      \* the slaves as the master lists them: by name, then id
          Settings    \* settings to look at

\* The names and addresses that each slave's machine may have; the slaves that run
\* at the start, and those of them that are out of date; the addresses a user adds;
\* whether the master restarts and whether users ask for upgrades; the calls and the
\* browsers there are; bounds on the rows made and on the passwords asked for; rows of
\* earlier days, the terminal sessions (bound) and what users do here (module HostPage)
\* and elsewhere (remove a host, close a terminal).
SettingKinds ==
    [names : [Slaves -> SUBSET STRING], ips : [Slaves -> SUBSET Ips],
     native : SUBSET Slaves, outdated : SUBSET Slaves, added : SUBSET Ips,
     forgets : BOOLEAN, upgrades : BOOLEAN, calls : SUBSET Calls,
     browsers : SUBSET Browsers, rows : Nat, asks : Nat,
     kept : Nat, sessions : Nat, does : SUBSET {"hosts", "start", "send", "work", "delete", "close", "remove"}]

\* The rows of earlier days are of different slaves and names, as the table requires.
ASSUME HostCatalogAssumption ==
    /\ Settings \subseteq SettingKinds
    /\ Order \in Seq(Slaves) /\ IsInjective(Order)
    /\ \A s \in Settings :
          /\ s.kept <= Len(Order)
          /\ \A i, k \in 1 .. s.kept :
                /\ s.names[Order[i]] # {} /\ s.ips[Order[i]] # {}
                /\ i # k => s.names[Order[i]] \intersect s.names[Order[k]] = {}

HostIds == UNION {1 .. s.rows : s \in Settings}
SessionIds == UNION {1 .. s.sessions : s \in Settings}
ChallengeIds == UNION {1 .. s.asks : s \in Settings}

VARIABLES
    setting,     \* never changes
    registry,    \* name and address of each slave the master knows
    installed,   \* slaves that run on some machine
    outdated,    \* slaves whose version is older than the server's target
    rows,        \* table of hosts
    nextId,      \* id of the next row
    minted,      \* slave ids made for hosts that were added by hand
    calls,       \* what each call is doing
    jobs,        \* hostDeploymentJobs
    attempted,   \* hosts whose last automatic attempt is not a cooldown ago
    challenges,  \* what became of each request for a password
    connected,   \* browsers with a WebSocket
    prompts,     \* per browser: the challenge it shows (0: none), those it has shown
    accepted,    \* answers that were told to be accepted: <<browser, challenge>>
    up           \* the server runs

master == <<registry, installed, outdated>>
table == <<rows, nextId, minted>>
passwords == <<challenges, prompts, accepted>>
vars == <<setting, master, table, calls, jobs, attempted, passwords, connected, up>>

Unknown == [name |-> "", ip |-> ""]

Idle == [op |-> "none", phase |-> "idle", hosts |-> <<>>, todo |-> {}, host |-> NoRow,
         slave |-> ""]

\* Of a call: idle, waiting for the master, with its list, looking at slaves that are
\* out of date, with the hosts listed.
Phases == {"idle", "asking", "read", "considering", "ending"}

-----------------------------------------------------------------------------
(* Slaves and the master (outside of the server).                          *)

ServerUnchanged == UNCHANGED <<setting, table, calls, jobs, attempted, passwords, connected, up>>

\* A slave registers with the master, again when its machine has another name or
\* address.
Register(s, name, ip) ==
    /\ s \in installed
    /\ registry[s] # [name |-> name, ip |-> ip]
    /\ registry' = [registry EXCEPT ![s] = [name |-> name, ip |-> ip]]
    /\ UNCHANGED <<installed, outdated>>
    /\ ServerUnchanged

\* The master restarts: slaves register again later.
MasterRestarts ==
    /\ setting.forgets
    /\ registry' = [s \in Slaves |-> Unknown]
    /\ UNCHANGED <<installed, outdated>>
    /\ ServerUnchanged

\* The master's list.
Listed ==
    LET Entry(s) == [slave |-> s, name |-> registry[s].name, ip |-> registry[s].ip,
                     old |-> s \in outdated]
        upTo[k \in 0 .. Len(Order)] ==
            CASE k = 0                        -> <<>>
              [] k # 0 /\ registry[Order[k]] = Unknown -> upTo[k - 1]
              [] OTHER                        -> Append(upTo[k - 1], Entry(Order[k]))
    IN  upTo[Len(Order)]

-----------------------------------------------------------------------------
(* Deployments: runHostAgentDeployment.                                    *)

JobOf(js, i) == {j \in js : j.host = i}

\* Seeded fault: a second deployment of a host is started beside the first.
NoJob(js, i) == FALSE

HasJob(js, i) == JobOf(js, i) # {}

NewJob(js, i, slave, loose, auto) ==
    [no |-> CHOOSE n \in 1 .. Cardinality(js) + 1 : \A j \in js : j.no # n,
     host |-> i, slave |-> slave, stage |-> "running", asked |-> FALSE,
     challenge |-> 0, loose |-> loose, auto |-> auto]

\* The jobs after a deployment was asked for: the host's job if it has one.  loose:
\* a caller does not handle a failure; auto: the upgrade controller waits for it.
runHostAgentDeployment(js, i, slave, loose, auto) ==
    IF HasJob(js, i)
    THEN {IF j.host = i THEN [j EXCEPT !.loose = @ \/ loose, !.auto = @ \/ auto] ELSE j :
            j \in js}
    ELSE js \union {NewJob(js, i, slave, loose, auto)}

\* All that the process held is gone.
Crash ==
    /\ up' = FALSE
    /\ jobs' = {}
    /\ calls' = [c \in Calls |-> Idle]
    /\ attempted' = {}
    /\ challenges' = [n \in DOMAIN challenges |->
                        IF challenges[n] = "open" THEN "lost" ELSE challenges[n]]
    /\ connected' = {}

\* A deployment ends with an error.
Fail(j) ==
    IF j.loose THEN Crash
               ELSE /\ jobs' = jobs \ {j}
                    /\ UNCHANGED <<up, calls, attempted, connected>>

\* The script puts the slave on its machine (outside of the server).
ScriptInstalls(j) ==
    /\ j.stage = "running"
    /\ j.slave \notin installed \/ j.slave \in outdated
    /\ installed' = installed \union {j.slave}
    /\ outdated' = outdated \ {j.slave}
    /\ UNCHANGED registry
    /\ ServerUnchanged

\* The script ends well.
ScriptSucceeds(j) ==
    /\ j.stage = "running"
    /\ j.slave \in installed \ outdated
    /\ jobs' = jobs \ {j}
    /\ UNCHANGED <<setting, master, table, calls, attempted, passwords, connected, up>>

\* The script ends for want of a password, the first time: the browsers are asked.
ScriptWantsPassword(j) ==
    /\ j.stage = "running" /\ ~j.asked
    /\ connected # {}
    /\ Len(challenges) < setting.asks
    /\ challenges' = Append(challenges, "open")
    /\ jobs' = (jobs \ {j}) \union {[j EXCEPT !.stage = "waiting", !.asked = TRUE,
                                             !.challenge = Len(challenges) + 1]}
    /\ UNCHANGED <<setting, master, table, calls, attempted, prompts, accepted, connected, up>>

\* The script fails, could not be started, wants a password again, or wants one
\* when there is no browser to ask.
ScriptFails(j) ==
    /\ j.stage = "running"
    /\ Fail(j)
    /\ (~j.loose) => UNCHANGED challenges
    /\ UNCHANGED <<setting, master, table, prompts, accepted>>

Waiting(n) == {j \in jobs : j.stage = "waiting" /\ j.challenge = n}

\* A password came: the script is run again with it.
Resolve(n) ==
    /\ challenges' = [challenges EXCEPT ![n] = "answered"]
    /\ jobs' = {IF j \in Waiting(n) THEN [j EXCEPT !.stage = "running"] ELSE j : j \in jobs}
    /\ UNCHANGED <<up, calls, attempted, connected>>

\* The request is cancelled or timed out: the deployment fails.
Reject(n, how) ==
    IF \E j \in Waiting(n) : j.loose
    THEN /\ up' = FALSE /\ jobs' = {} /\ attempted' = {} /\ connected' = {}
         /\ calls' = [c \in Calls |-> Idle]
         /\ challenges' = [m \in DOMAIN challenges |->
                             CASE m = n -> how
                               [] m # n /\ challenges[m] = "open" -> "lost"
                               [] OTHER -> challenges[m]]
    ELSE /\ challenges' = [challenges EXCEPT ![n] = how]
         /\ jobs' = jobs \ Waiting(n)
         /\ UNCHANGED <<up, calls, attempted, connected>>

\* Seeded fault: no timer is set for a request.
NeverTimesOut(n) == FALSE /\ UNCHANGED vars

ChallengeTimesOut(n) ==
    /\ n \in DOMAIN challenges
    /\ challenges[n] = "open"
    /\ Reject(n, "expired")
    /\ UNCHANGED <<setting, master, table, prompts, accepted>>

-----------------------------------------------------------------------------
(* The prompt in a browser.                                                *)

\* The event reaches a browser, at once or when it connects again; a challenge that
\* was shown, or has expired, is not shown.
ShowPrompt(b, n) ==
    /\ b \in connected
    /\ prompts[b].shows = 0
    /\ challenges[n] # "lost"
    /\ n \notin prompts[b].seen
    /\ prompts' = [prompts EXCEPT ![b] =
                     [shows |-> IF challenges[n] = "expired" THEN 0 ELSE n,
                      seen |-> @.seen \union {n}]]
    /\ UNCHANGED <<setting, master, table, calls, jobs, attempted, challenges, accepted,
                   connected, up>>

\* Seeded fault: an answer is accepted although its request is over.
Always(n) == TRUE

\* The request is known: it was not answered, cancelled or timed out.
IsOpen(n) == challenges[n] = "open"

\* The prompt is closed: a password is sent, or that there is none.  The server
\* tells whether the request was still open.
Answer(b, given) ==
    LET n == prompts[b].shows
    IN  /\ n # 0
        /\ prompts' = [prompts EXCEPT ![b].shows = 0]
        /\ CASE b \in connected /\ IsOpen(n) /\ given ->
                  Resolve(n) /\ accepted' = accepted \union {<<b, n>>}
             [] b \in connected /\ IsOpen(n) /\ ~given ->
                  Reject(n, "cancelled") /\ UNCHANGED accepted
             [] OTHER -> UNCHANGED <<challenges, jobs, up, calls, attempted, connected, accepted>>
        /\ UNCHANGED <<setting, master, table>>

Connect(b) ==
    /\ up
    /\ b \notin connected
    /\ connected' = connected \union {b}
    /\ UNCHANGED <<setting, master, table, calls, jobs, attempted, passwords, up>>

Disconnect(b) ==
    /\ b \in connected
    /\ connected' = connected \ {b}
    /\ UNCHANGED <<setting, master, table, calls, jobs, attempted, passwords, up>>

-----------------------------------------------------------------------------
(* Listings: listHosts and discoverProjects; upgradeHostAgent.             *)

CallUnchanged == UNCHANGED <<setting, master, passwords, connected, up>>

\* An upgrade that a user asked for: the row is read, then the hosts are listed.
BeginUpgrade(c, i) ==
    /\ up
    /\ setting.upgrades
    /\ calls[c] = Idle
    /\ calls' = [calls EXCEPT ![c] = [Idle EXCEPT !.op = "upgrade", !.phase = "asking",
                                        !.host = i, !.slave = rows[i].agentUuid]]
    /\ UNCHANGED <<table, jobs, attempted>>
    /\ CallUnchanged

\* The master answers a listing, or one that an upgrade makes.
ReadRegistry(c) ==
    /\ up
    /\ calls[c] = Idle \/ calls[c].phase = "asking"
    /\ calls' = [calls EXCEPT ![c].op = IF @ = "none" THEN "list" ELSE @,
                             ![c].phase = "read", ![c].hosts = Listed]
    /\ UNCHANGED <<table, jobs, attempted>>
    /\ CallUnchanged

\* The master cannot be asked: nothing is merged, and an upgrade goes on.
ReadFails(c) ==
    /\ calls[c].phase = "asking"
    /\ calls' = [calls EXCEPT ![c].phase = "ending"]
    /\ UNCHANGED <<table, jobs, attempted>>
    /\ CallUnchanged

\* A listing is answered when no slave of its list is left to look at.
Considering(call, hosts) ==
    IF hosts # {} THEN [call EXCEPT !.phase = "considering", !.todo = hosts, !.hosts = <<>>]
    ELSE IF call.op = "list" THEN Idle
    ELSE [call EXCEPT !.phase = "ending", !.todo = {}, !.hosts = <<>>]

\* The list is merged into the table; the slaves that are out of date are next.
Sync(c) ==
    /\ calls[c].phase = "read"
    /\ LET merged == syncRegisteredHosts(rows, nextId, calls[c].hosts)
       IN  /\ merged.nextId <= setting.rows + 1
           /\ rows' = merged.rows
           /\ nextId' = merged.nextId
    /\ calls' = [calls EXCEPT ![c] = Considering(@, {h \in Range(@.hosts) : h.old})]
    /\ UNCHANGED <<minted, jobs, attempted>>
    /\ CallUnchanged

\* No automatic upgrade of the host runs and none began within the cooldown.
MayUpgrade(i) == i \notin attempted /\ \A j \in jobs : j.host = i => ~j.auto

\* An automatic upgrade of one listed slave, by the row found for it.
considerRuntimeHost(c, host) ==
    LET i == findHostByRuntimeIdentity(rows, host)
    IN  /\ calls[c].phase = "considering"
        /\ host \in calls[c].todo
        /\ calls' = [calls EXCEPT ![c] = Considering(@, @.todo \ {host})]
        /\ IF i # NoRow /\ MayUpgrade(i)
           THEN /\ attempted' = attempted \union {i}
                /\ jobs' = runHostAgentDeployment(jobs, i, rows[i].agentUuid, FALSE, TRUE)
           ELSE UNCHANGED <<attempted, jobs>>
        /\ UNCHANGED table
        /\ CallUnchanged

\* The hosts are listed: the upgrade is started, with the row as it was read.
StartUpgrade(c) ==
    /\ calls[c].phase = "ending"
    /\ calls' = [calls EXCEPT ![c] = Idle]
    /\ jobs' = runHostAgentDeployment(jobs, calls[c].host, calls[c].slave, TRUE, FALSE)
    /\ UNCHANGED <<table, attempted>>
    /\ CallUnchanged

CooledDown(i) ==
    /\ i \in attempted
    /\ attempted' = attempted \ {i}
    /\ UNCHANGED <<table, calls, jobs>>
    /\ CallUnchanged

-----------------------------------------------------------------------------
(* Hosts that a user adds and removes.                                     *)

\* The slave ids that somebody has.
InUse == setting.native \union minted \union {Order[i] : i \in 1 .. setting.kept}

\* A host is added by its address, with a fresh slave id, and deployed to; one that
\* was added before is deployed to again.
AddHost(ip, s) ==
    LET known == {i \in DOMAIN rows : rows[i].source = "manual" /\ rows[i].ip = ip}
    IN  /\ up
        /\ ip \in setting.added
        /\ IF known # {}
           THEN /\ s = rows[FirstOf(known)].agentUuid
                /\ jobs' = runHostAgentDeployment(jobs, FirstOf(known), s, TRUE, FALSE)
                /\ UNCHANGED table
           ELSE /\ s \in Slaves \ InUse
                /\ nextId <= setting.rows
                /\ minted' = minted \union {s}
                /\ rows' = [i \in DOMAIN rows \union {nextId} |->
                              IF i = nextId
                              THEN [agentUuid |-> s, ip |-> ip, source |-> "manual",
                                    name |-> resolveManualHostName(rows, ip)]
                              ELSE rows[i]]
                /\ nextId' = nextId + 1
                /\ jobs' = runHostAgentDeployment(jobs, nextId, s, TRUE, FALSE)
        /\ UNCHANGED <<calls, attempted>>
        /\ CallUnchanged

\* The row is removed; a deployment of it goes on.
DeleteHost(i) ==
    /\ up
    /\ rows' = [k \in DOMAIN rows \ {i} |-> rows[k]]
    /\ UNCHANGED <<nextId, minted, calls, jobs, attempted>>
    /\ CallUnchanged

\* The server starts again; its first act is a listing.
Restart ==
    /\ ~up
    /\ up' = TRUE
    /\ UNCHANGED <<setting, master, table, calls, jobs, attempted, passwords, connected>>

-----------------------------------------------------------------------------

Init ==
    /\ setting \in Settings
    /\ registry = [s \in Slaves |-> Unknown]
    /\ installed = setting.native
    /\ outdated = setting.outdated
    /\ rows = [i \in 1 .. setting.kept |->
                  [agentUuid |-> Order[i], ip |-> CHOOSE ip \in setting.ips[Order[i]] : TRUE,
                   source |-> "runtime",
                   name |-> <<CHOOSE n \in setting.names[Order[i]] : TRUE, "", 0>>]]
    /\ nextId = setting.kept + 1
    /\ minted = {}
    /\ calls = [c \in Calls |-> Idle]
    /\ jobs = {}
    /\ attempted = {}
    /\ challenges = <<>>
    /\ connected = {}
    /\ prompts = [b \in Browsers |-> [shows |-> 0, seen |-> {}]]
    /\ accepted = {}
    /\ up = TRUE

Next ==
    \/ \E s \in Slaves : \E name \in setting.names[s], ip \in setting.ips[s] : Register(s, name, ip)
    \/ MasterRestarts
    \/ \E j \in jobs : ScriptInstalls(j)
    \/ \E j \in jobs : ScriptSucceeds(j) \/ ScriptWantsPassword(j) \/ ScriptFails(j)
    \/ \E n \in DOMAIN challenges : ChallengeTimesOut(n)
    \/ \E b \in Browsers, n \in DOMAIN challenges : ShowPrompt(b, n)
    \/ \E b \in Browsers, given \in BOOLEAN : Answer(b, given)
    \/ \E b \in setting.browsers : Connect(b) \/ Disconnect(b)
    \/ \E c \in setting.calls : ReadRegistry(c) \/ ReadFails(c) \/ Sync(c) \/ StartUpgrade(c)
    \/ \E c \in setting.calls, i \in DOMAIN rows : BeginUpgrade(c, i)
    \/ \E c \in setting.calls : \E host \in calls[c].todo : considerRuntimeHost(c, host)
    \/ \E i \in attempted : CooledDown(i)
    \/ \E ip \in Ips, s \in Slaves : AddHost(ip, s)
    \/ "remove" \in setting.does /\ \E i \in DOMAIN rows : DeleteHost(i)
    \/ Restart

Spec == Init /\ [][Next]_vars

\* A script ends, and the timer of a request fires.
CatalogFairness ==
    /\ \A i \in HostIds :
          WF_vars(\E j \in JobOf(jobs, i) :
                     ScriptSucceeds(j) \/ ScriptWantsPassword(j) \/ ScriptFails(j))
    /\ \A n \in ChallengeIds : WF_vars(ChallengeTimesOut(n))

-----------------------------------------------------------------------------
(* Properties.                                                             *)

TypeOK ==
    /\ \A s \in Slaves : registry[s] = Unknown \/ registry[s].ip \in setting.ips[s]
    /\ installed \subseteq Slaves /\ outdated \subseteq Slaves
    /\ nextId \in 1 .. setting.rows + 1 /\ DOMAIN rows \subseteq 1 .. nextId - 1
    /\ \A i \in DOMAIN rows : /\ rows[i].agentUuid \in Slaves /\ rows[i].ip \in Ips
                             /\ rows[i].source \in {"runtime", "manual"}
    /\ \A c \in Calls : calls[c].phase \in Phases
    /\ \A j \in jobs : /\ j.host \in 1 .. nextId - 1 /\ j.slave \in Slaves
                      /\ j.stage \in {"running", "waiting"}
                      /\ j.challenge \in 0 .. Len(challenges)
    /\ \A n \in DOMAIN challenges :
          challenges[n] \in {"open", "answered", "cancelled", "expired", "lost"}
    /\ \A b \in Browsers : prompts[b].shows \in prompts[b].seen \union {0}

\* The table's columns name and agent_uuid are unique: the merge, which writes row
\* after row, never makes two that are alike, in its course or with an old list
\* (else its transaction would be rolled back and hosts would not be merged).
RowsDiffer ==
    \A i, k \in DOMAIN rows : i # k =>
        rows[i].name # rows[k].name /\ rows[i].agentUuid # rows[k].agentUuid

\* No slave of a list has a name or an address that another one on it has left: names
\* differ, a row has the address that the list gives its slave, and no host has the name
\* of the row of another one.
NothingTaken(hosts) ==
    /\ \A k, m \in DOMAIN hosts : hosts[k].name = hosts[m].name => k = m
    /\ \A i \in DOMAIN rows : \A k, m \in DOMAIN hosts :
          rows[i].agentUuid = hosts[k].slave =>
            /\ rows[i].ip = hosts[k].ip
            /\ rows[i].name = <<hosts[m].name, "", 0>> => m = k

\* A merge leaves every slave of its list with a row of its own, and no row, with
\* the desired processes and projects that hang on it, goes from one slave of the
\* list to another (hostCatalog.js 379: the slave id is the stable identity); the list
\* that follows shows none of them as missing, nor as another (index.js 1293).
KeepsIdentity(hosts) ==
    LET listed == {hosts[k].slave : k \in DOMAIN hosts}
    IN  /\ \A s \in listed : \E i \in DOMAIN rows' : rows'[i].agentUuid = s
        /\ \A i \in DOMAIN rows : rows[i].agentUuid \in listed =>
              i \in DOMAIN rows' /\ rows'[i].agentUuid = rows[i].agentUuid
        /\ \A i \in DOMAIN rows' :
              /\ StatusOf(rows'[i], hosts) # "offline"
              /\ rows'[i].agentUuid \in listed =>
                    hosts[ShownWith(rows'[i], hosts)].slave = rows'[i].agentUuid

\* Slaves that keep their names and addresses keep their rows, whatever list is merged,
\* also an old one, and although several of them may have one address.  (A machine
\* that takes the name or the address another has left gets its row.)
SyncKeepsIdentity ==
    [][\A c \in Calls :
          calls[c].phase = "read" /\ calls'[c].phase # "read" /\ up' /\ NothingTaken(calls[c].hosts)
            => KeepsIdentity(calls[c].hosts)]_vars

\* A host that a user added is removed by a user only, also when its slave registered,
\* the row was merged with the list and the slave is not listed any more.
AddedHostsStay ==
    [][\A i \in DOMAIN rows \ DOMAIN rows' : rows[i].source = "manual" => calls' = calls]_vars

\* Two deployments of one slave run at once only if meanwhile one lost its row: the
\* row was removed or was given to another slave.  Hosts are added again, upgraded
\* by hand with a row that was read before the hosts were merged, and upgraded by
\* each listing that finds them out of date.
OneDeployment ==
    LET OfItsRow(j) == j.host \in DOMAIN rows /\ rows[j.host].agentUuid = j.slave
    IN  \A j, k \in {j \in jobs : OfItsRow(j)} : j.slave = k.slave => j = k

\* A password that was told to be accepted is the only one, and the deployment that
\* asked goes on with it: no timeout or cancellation of another browser took effect.
AcceptedIsUsed ==
    /\ \A a \in accepted : challenges[a[2]] = "answered"
    /\ \A a, o \in accepted : a[2] = o[2] => a = o

\* A deployment ends, whether or not a browser answers: it holds its host's place in
\* hostDeploymentJobs until then, and no other can be started.
DeploymentsEnd ==
    \A i \in HostIds : []<>~(\E j \in jobs : j.host = i)
=============================================================================
