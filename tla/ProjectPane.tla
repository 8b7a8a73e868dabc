----------------------------- MODULE ProjectPane ----------------------------
(***************************************************************************)
(* The selected project in the same page (packages/web/src/features/home): *)
(* useDashboardQueries and useProjectQueries of useHomeQueries.js,         *)
(* useProjectsPaneController.js, and the effects and port range of         *)
(* HomePageContainer.js.                                                   *)
(*                                                                         *)
(* Every asynchronous function is a job: steps that each ask the server    *)
(* once, in turn.  Nothing ends a job when another project is selected, so *)
(* jobs of several projects may be under way and their answers come in any *)
(* order.                                                                  *)
(***************************************************************************)
EXTENDS RuntimePane, Sequences, Functions

CONSTANTS
    Projects,
    Begins,    \* where a port range may begin
    JobCount,  \* bound: jobs under way at once
    PollCount  \* bound: polls among them

ASSUME ProjectAssumption ==
    /\ None \notin Projects \union Begins
    /\ Projects # {} /\ JobCount \in Nat /\ PollCount \in Nat

VARIABLES
    saved,  \* the master's port ranges; None: automatic
    view,   \* what the page shows of the selected project
    jobs    \* jobs under way

Jobs == 1 .. JobCount
pageVars == <<paneVars, saved, view, jobs>>

\* What is loaded with a flag of its own, and which of it is looked at here.
Loaded == {"dashboard", "logs", "environment", "ports", "stats"}
Looked == {"environment", "ports", "stats"}

\* todo: the steps that are left; got: the answer to the first, in a sequence; value:
\* the port range to save, in a sequence.
Job(p, todo) == [project |-> p, todo |-> todo, got |-> <<>>, value |-> <<>>, background |-> FALSE]
NoJob == Job(None, <<>>)

\* polled: the project whose statistics the interval asks for; saving: a port range is
\* being saved; mixed: two jobs that show the same thing have overlapped.
FirstView(p) ==
    [selected |-> p, panel |-> "projects", polled |-> None, shown |-> [k \in Looked |-> None],
     loading |-> [k \in Loaded |-> FALSE], saving |-> FALSE, error |-> FALSE,
     mixed |-> FALSE, acts |-> 0, fails |-> 0]

\* What a job will show of the two that a change of the port range concerns.
ShownAs(step) == IF step = "save" THEN "ports" ELSE step
WillShow(job) == {ShownAs(job.todo[i]) : i \in DOMAIN job.todo} \intersect {"environment", "ports"}

Unused == {s \in Jobs : jobs[s] = NoJob}
Places(news) == Injection(DOMAIN news, Unused)

\* Flags that rise when the first steps of these jobs begin.
Raised(flags, news) ==
    [k \in Loaded |-> flags[k] \/ \E job \in news : ~job.background /\ Head(job.todo) = k]

\* Jobs begin together.
StartJobs(news, next) ==
    /\ Places(news) # {}
    /\ LET place == CHOOSE f \in Places(news) : TRUE
       IN  jobs' = [s \in Jobs |-> IF s \in Range(place) THEN news[AntiFunction(place)[s]] ELSE jobs[s]]
    /\ view' = [next EXCEPT
                   !.loading = Raised(@, Range(news)),
                   !.mixed = @ \/ \E job \in Range(news), s \in Jobs :
                                     WillShow(job) \intersect WillShow(jobs[s]) # {}]

-----------------------------------------------------------------------------
(* What the user does, and the effects that follow.                        *)

Does == view.acts < setting.acts /\ UNCHANGED <<paneVars, saved>>
Acted == [view EXCEPT !.acts = @ + 1]

\* Another project: what is shown is emptied (the effect of
\* useLogsPanelController.js), and the panel of projects comes forward.
Selects(p, v) ==
    [v EXCEPT !.selected = p, !.panel = "projects", !.polled = None,
              !.shown = IF p = v.selected THEN @ ELSE [k \in Looked |-> None]]

onSelectProject(p) ==
    /\ Does
    /\ view' = Selects(p, Acted)
    /\ UNCHANGED jobs

\* Seeded fault: the interval of the last project goes on.
PolledAfterOnce(panel) == IF panel = "top" THEN CHOOSE p \in Projects : TRUE ELSE None

\* The interval is set for the project that is selected.
PolledAfter(panel) == IF panel = "top" THEN view.selected ELSE None

\* A panel comes forward and loads what it shows.
ShowPanel(panel) ==
    /\ Does /\ panel # view.panel
    /\ StartJobs(CASE panel = "environment" -> <<Job(view.selected, <<"environment">>),
                                                 Job(view.selected, <<"ports">>)>>
                   [] panel = "top" -> <<Job(view.selected, <<"stats">>)>>
                   [] panel = "projects" -> <<>>,
                 [Acted EXCEPT !.panel = panel, !.polled = PolledAfter(panel)])

\* Every 1.5 seconds, whether or not the last has been answered.  (Bound: PollCount.)
PollStats ==
    /\ view.polled # None /\ Cardinality({s \in Jobs : jobs[s].background}) < PollCount
    /\ StartJobs(<<[Job(view.polled, <<"stats">>) EXCEPT !.background = TRUE]>>, view)
    /\ UNCHANGED <<paneVars, saved>>

\* saveProjectPortRangeSettings, from a control that is not disabled.
SavePortRange(range) ==
    /\ Does /\ view.panel = "environment"
    /\ ~view.loading["ports"] /\ ~view.saving
    /\ StartJobs(<<[Job(view.selected, <<"save", "environment">>) EXCEPT !.value = <<range>>]>>,
                 [Acted EXCEPT !.saving = TRUE, !.error = FALSE])

\* onToggleServiceRuntime; onToggleRuntime loads the logs first.
Toggles ==
    {<<"toggle", "dashboard", "environment", "logs">>,
     <<"logs", "toggle", "dashboard", "environment", "logs">>}

\* (Bound: one at a time.)
Toggle(p, todo) ==
    /\ Does /\ \A s \in Jobs : "logs" \notin Range(jobs[s].todo)
    /\ StartJobs(<<Job(p, todo)>>,
                 [Selects(p, Acted) EXCEPT !.error = FALSE])

-----------------------------------------------------------------------------
(* Jobs.                                                                   *)

\* The master's port ranges when it has handled the first step.
SavedBy(job) == IF Head(job.todo) = "save" THEN [saved EXCEPT ![job.project] = job.value[1]] ELSE saved

\* The server handles the first step, and the master for it.
Answers(s) ==
    LET job == jobs[s]
        ports == SavedBy(job)
    IN  /\ job # NoJob /\ job.got = <<>>
        /\ saved' = ports
        /\ jobs' = [jobs EXCEPT ![s].got = <<ports[job.project]>>]
        /\ UNCHANGED <<paneVars, view>>

\* Seeded fault: what fails leaves its flag.
FlagsAfterAnswer(flags, job) ==
    [k \in Loaded |-> flags[k] /\ (k # Head(job.todo) \/ job.background \/ job.got = <<>>)]

\* finally: the flag of the step falls.
FlagsAfter(flags, job) == [k \in Loaded |-> flags[k] /\ (k # Head(job.todo) \/ job.background)]

\* The first step is over: the next begins, or the job ends.
GoOn(s, left, next) ==
    LET job == [jobs[s] EXCEPT !.todo = left, !.got = <<>>]
        fallen == FlagsAfter(next.loading, jobs[s])
    IN  /\ UNCHANGED <<paneVars, saved>>
        /\ IF left = <<>>
           THEN /\ jobs' = [jobs EXCEPT ![s] = NoJob]
                /\ view' = [next EXCEPT !.loading = fallen, !.saving = @ /\ job.value = <<>>]
           ELSE /\ jobs' = [jobs EXCEPT ![s] = job]
                /\ view' = [next EXCEPT !.loading = Raised(fallen, {job})]

\* The page shows the answer, whatever is selected by now.
ShowAnswer(s) ==
    LET job == jobs[s]
        entry == [of |-> job.project, is |-> job.got[1]]
    IN  /\ job # NoJob /\ job.got # <<>>
        /\ GoOn(s, Tail(job.todo),
                [view EXCEPT !.shown = [k \in Looked |-> IF k = ShownAs(Head(job.todo)) THEN entry ELSE @[k]]])

\* Loads catch their errors, and the job goes on; the others end it.
StepFails(s) ==
    LET job == jobs[s]
    IN  /\ job # NoJob /\ view.fails < setting.fails
        /\ GoOn(s, IF Head(job.todo) \in {"save", "toggle", "dashboard"} THEN <<>> ELSE Tail(job.todo),
                [view EXCEPT !.error = @ \/ ~job.background, !.fails = @ + 1])
-----------------------------------------------------------------------------
PageInit ==
    /\ PaneInit
    /\ saved = [p \in Projects |-> None]
    /\ view = FirstView(CHOOSE p \in Projects : TRUE)
    /\ jobs = [s \in Jobs |-> NoJob]

PageNext ==
    \/ PaneNext /\ UNCHANGED <<saved, view, jobs>>
    \/ \E p \in Projects : onSelectProject(p) \/ \E todo \in Toggles : Toggle(p, todo)
    \/ \E panel \in {"projects", "environment", "top"} : ShowPanel(panel)
    \/ \E range \in Begins \union {None} : SavePortRange(range)
    \/ PollStats
    \/ \E s \in Jobs : Answers(s) \/ ShowAnswer(s) \/ StepFails(s)

\* The page of the host as in RuntimePane; the interval fires, and queries are answered.
PageSpec ==
    /\ PageInit /\ [][PageNext]_pageVars /\ PaneFairness
    /\ WF_pageVars(PollStats)
    /\ WF_pageVars(\E s \in Jobs : Answers(s) \/ ShowAnswer(s))
-----------------------------------------------------------------------------
\* When nothing is under way, no flag of the page is up, whatever overlapped and failed
\* (the finally blocks of useProjectQueries, loadDashboard and
\* saveProjectPortRangeSettings).
ProjectFlagsFall ==
    (\A s \in Jobs : jobs[s] = NoJob) => ~view.saving /\ \A k \in Loaded : ~view.loading[k]

\* The environment's panel shows the port range that the master holds for the project
\* that is selected, and its environment, once nothing under way will show either;
\* unless a query failed, or jobs that show the same thing have overlapped: then a late
\* answer, perhaps of another project, may come last (no load looks at what is
\* selected when its answer is there).
ShowsSelected ==
    (view.panel = "environment" /\ (\A s \in Jobs : WillShow(jobs[s]) = {}) /\ ~view.mixed /\ ~view.error)
        => \A k \in {"environment", "ports"} :
              view.shown[k] = [of |-> view.selected, is |-> saved[view.selected]]

\* The page is true: of the host's processes and of the project.
PageTrue == PaneTrue /\ ProjectFlagsFall /\ ShowsSelected

\* While its panel is up, the statistics of the project that is selected come back
\* again and again, also after late answers of a project selected before (the
\* interval of HomePageContainer.js).
StatsCatchUp ==
    []<>(view.panel = "top" => view.shown["stats"] # None /\ view.shown["stats"].of = view.selected)

\* Requests end, and the page catches up.
PageEnds == PaneEnds /\ StatsCatchUp
=============================================================================
