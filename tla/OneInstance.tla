----------------------------- MODULE OneInstance -----------------------------
(***************************************************************************)
(* What the process manager of a slave promises to those who write desired *)
(* lists: a process key has at most one running instance, and each launch  *)
(* makes a new one.                                                        *)
(***************************************************************************)
CONSTANTS Keys, RunIds, None

VARIABLES
  instance,  \* the run that is alive under a key, or None
  used       \* the runs there have been

Init ==
  /\ instance = [k \in Keys |-> None]
  /\ used = {}

Launch(k, r) ==
  /\ instance[k] = None
  /\ r \notin used
  /\ instance' = [instance EXCEPT ![k] = r]
  /\ used' = used \cup {r}

\* One instance ends, or all of them with the host.
End(ended) ==
  /\ instance' = [k \in Keys |-> IF k \in ended THEN None ELSE instance[k]]
  /\ used' = used

Next ==
  \/ \E k \in Keys, r \in RunIds : Launch(k, r)
  \/ \E k \in Keys : End({k})
  \/ End(Keys)

Spec == Init /\ [][Next]_<<instance, used>>

=============================================================================
