------------------------------ MODULE GapFeed -------------------------------
(***************************************************************************)
(* What every hop of the event feed promises: a source numbers what it     *)
(* sends, and a sink takes numbers in increasing order.  It may miss some: *)
(* nothing is replayed to a sink that was away.  It takes none twice and   *)
(* none before it was sent.                                                *)
(***************************************************************************)
EXTENDS Naturals

VARIABLES
    sent,   \* the last number given out
    last    \* the last number taken, 0 before the first

Init == sent = 0 /\ last = 0

Send == sent' = sent + 1 /\ UNCHANGED last

Take == last' \in last + 1 .. sent /\ UNCHANGED sent

Next == Send \/ Take

Spec == Init /\ [][Next]_<<sent, last>>
=============================================================================
