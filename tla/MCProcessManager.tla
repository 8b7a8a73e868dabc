-------------------------- MODULE MCProcessManager --------------------------
(* Instances of ProcessManager for TLC.                                     *)
EXTENDS ProcessManager

CONSTANTS web, job, v1, v2

\* One file per key.
MCFileOf == [k \in Keys |-> IF k = web THEN "web.json" ELSE "job.json"]

Listed(fp, policy, state) == [fp |-> fp, policy |-> policy, state |-> state]
ListOf(w, j) == [k \in Keys |-> IF k = web THEN w ELSE j]
Nothing == ListOf(None, None)

Service(fp) == Listed(fp, "package_change", "running")
OneShot(fp) == Listed(fp, "never", "running")
Stopped(fp) == Listed(fp, "manual", "stopped")

MCBootstrap == ListOf(Service(v1), None)

\* One key: the service and the one-shot in two versions, stopped, unlisted (the
\* job is listed in web's place when nothing would call for the bootstrap list).
WebLists == {ListOf(d, None) : d \in {Service(v1), Service(v2), OneShot(v1),
                                      OneShot(v2), Stopped(v1)}}
Replacing == {ListOf(Service(v1), None), ListOf(Service(v2), None), Nothing}
Changing == Replacing \union {ListOf(Stopped(v1), None)}

\* Two keys: the service alone, the service with the job, the job alone, and the
\* empty list that stands for the bootstrap list.
PairLists == {ListOf(Service(v1), OneShot(v1)), ListOf(Service(v2), None),
              ListOf(None, OneShot(v1)), Nothing}

=============================================================================
