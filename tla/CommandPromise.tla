--------------------------- MODULE CommandPromise ---------------------------
(***************************************************************************)
(* What the delivery of commands to a slave promises to those who queue    *)
(* them: each command is run at most once, and those that are run are run  *)
(* in the order in which they were queued.  A command may never be run.    *)
(***************************************************************************)
EXTENDS Naturals, Sequences

VARIABLES
  issued,   \* how many commands have been queued; they are 1 .. issued
  executed  \* the commands that have been run, in that order

Init == issued = 0 /\ executed = <<>>

Issue == issued' = issued + 1 /\ executed' = executed

\* One that has been queued.
Run(c) ==
  /\ \A i \in DOMAIN executed : executed[i] < c
  /\ executed' = Append(executed, c)
  /\ issued' = issued

Next == Issue \/ \E c \in 1..issued : Run(c)

Spec == Init /\ [][Next]_<<issued, executed>>

=============================================================================
