------------------------------ MODULE MCClients -----------------------------
(* Clients, and with it RunRecords, for TLC: two runs of a key, in four settings. *)
EXTENDS Clients

CONSTANTS a

MCKeyOf == <<a, a>>

Asked == [what |-> "list", by |-> a, hostId |-> FALSE, host |-> FALSE, project |-> FALSE,
          template |-> FALSE, cli |-> FALSE, wait |-> FALSE]

\* Runs, reports and a wait for them; waits alone, with checks of every kind; two
\* commands beside runs.
MCSettings ==
    {[runs |-> 2, clock |-> 2, applies |-> 2, stream |-> 2, checks |-> {<<"status">>},
      timeout |-> 1, interval |-> 1, lag |-> 0, inputs |-> {}],
     [runs |-> 0, clock |-> 7, applies |-> 0, stream |-> 0,
      checks |-> {<<"status">>, <<"exit", "remote">>, <<"log", "bad">>},
      timeout |-> 5, interval |-> 2, lag |-> 1, inputs |-> {}],
     [runs |-> 1, clock |-> 1, applies |-> 1, stream |-> 0, checks |-> {},
      timeout |-> 1, interval |-> 1, lag |-> 0,
      inputs |-> {[Asked EXCEPT !.what = "kill", !.by = 1, !.host = TRUE, !.project = TRUE],
                  [Asked EXCEPT !.what = "restart", !.hostId = TRUE]}],
     [runs |-> 1, clock |-> 1, applies |-> 1, stream |-> 0, checks |-> {},
      timeout |-> 1, interval |-> 1, lag |-> 0,
      inputs |-> {[Asked EXCEPT !.host = TRUE, !.cli = TRUE],
                  [Asked EXCEPT !.what = "restart", !.host = TRUE, !.project = TRUE, !.template = TRUE,
                                !.cli = TRUE, !.wait = TRUE],
                  [Asked EXCEPT !.what = "ensure", !.host = TRUE, !.template = TRUE, !.wait = TRUE]}]}
=============================================================================
