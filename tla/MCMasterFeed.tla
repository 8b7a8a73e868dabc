---------------------------- MODULE MCMasterFeed ----------------------------
(* Instances of MasterFeed for TLC.                                        *)
EXTENDS MasterFeed

CONSTANTS s1

MCSettings ==
    { \* answers, events and a changing registry
      [changes |-> 3, faults |-> 1, calls |-> 1, queue |-> 2, watched |-> TRUE, stops |-> FALSE],
      \* nobody lists the hosts; the server shuts down
      [changes |-> 2, faults |-> 1, calls |-> 1, queue |-> 1, watched |-> FALSE, stops |-> TRUE] }
=============================================================================
