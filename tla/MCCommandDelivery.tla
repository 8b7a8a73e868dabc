-------------------------- MODULE MCCommandDelivery --------------------------
(* Instances of CommandDelivery for TLC.                                    *)
EXTENDS CommandDelivery

CONSTANTS web, job, r1, r2, r3

\* The first two runs are of one key, the third is of the other.
MCKeyOf == [r \in RunIds |-> IF r = r3 THEN job ELSE web]

=============================================================================
