------------------------------ MODULE MCAeLoop ------------------------------
(* Values of the constants of AeLoop that a configuration cannot write. *)
EXTENDS AeLoop

\* With three milliseconds to the second: overdue by one, at once, one
\* millisecond, and one second and one millisecond ahead.
MCDelays == {[sec |-> 0, ms |-> -1], [sec |-> 0, ms |-> 0],
             [sec |-> 0, ms |-> 1], [sec |-> 1, ms |-> 1]}
=============================================================================
