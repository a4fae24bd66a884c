------------------------- MODULE MCHiveReplication -------------------------
(* Small hives for HiveReplication. *)
EXTENDS HiveReplication, TLC

CONSTANTS a, b

\* Everyone finds everyone.
Mesh == Devices \X Devices

\* a and b agree on the time.
InStep == [d \in Devices |-> 0]

\* b is two seconds ahead: what it has just written is beyond the tolerance of
\* the run, and a second later it is not.
Ahead == [d \in Devices |-> IF d = b THEN 2 ELSE 0]

\* No content is special.
ContentSymmetry == Permutations(Contents)
=============================================================================
