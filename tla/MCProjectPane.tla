---------------------------- MODULE MCProjectPane ---------------------------
(* ProjectPane, with RuntimePane and DesiredPropagation, with model values, *)
(* for TLC.                                                                 *)
EXTENDS ProjectPane

CONSTANTS k1, k2, d1, d2, e1, e2, r1, r2, p1, a, b

Turns == [dialect |-> "sqlite", open |-> 1, restarts |-> 0, faults |-> {},
          defs |-> {d1}, envs |-> {e1}, keys |-> {k1, k2}, deployments |-> {p1}, requests |-> {r1, r2},
          opens |-> 0, reports |-> 0, fails |-> 0, acts |-> 0]

Pane == [Turns EXCEPT !.keys = {k1}, !.deployments = {}, !.requests = {}, !.opens = 1]

Project == [Pane EXCEPT !.keys = {}, !.opens = 0, !.acts = 3]

MCSettings ==
    { \* requests in turn
      [Turns EXCEPT !.envs = {e1, e2}],
      \* some of which fail half-way
      [Turns EXCEPT !.faults = {"lost", "commit", "crash"}],
      [Turns EXCEPT !.faults = {"lost", "commit", "crash"}, !.defs = {d1, d2}, !.keys = {k1}],
      [Turns EXCEPT !.faults = {"lost", "commit", "crash"}, !.defs = {d1, d2}, !.deployments = {}],
      \* two requests at once with calls that fail
      [Turns EXCEPT !.dialect = "postgres", !.open = 2, !.faults = {"lost"}],
      \* late calls beside a restart of the master
      [Turns EXCEPT !.dialect = "postgres", !.keys = {k1}, !.restarts = 1, !.faults = {"late", "crash"}],
      \* a page that is left and opened again
      [Pane EXCEPT !.requests = {r1}, !.opens = 2],
      \* whose requests fail
      [Pane EXCEPT !.requests = {r1}, !.faults = {"commit"}, !.fails = 1],
      \* beside reports of the slave
      [Pane EXCEPT !.opens = 2, !.reports = 1],
      \* projects that are selected in turn
      Project,
      \* with queries that fail
      [Project EXCEPT !.acts = 2, !.fails = 1] }
=============================================================================
