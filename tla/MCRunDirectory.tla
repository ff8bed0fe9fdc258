--------------------------- MODULE MCRunDirectory ---------------------------
(* Three starts: the second has the pid of the first, the third its ID and *)
(* the name of the second.                                                 *)
EXTENDS RunDirectory
MCIdOf   == [p \in Procs |-> IF p = "p2" THEN "b" ELSE "a"]
MCNameOf == [p \in Procs |-> IF p = "p1" THEN "m" ELSE "n"]
MCPidOf  == [p \in Procs |-> IF p = "p3" THEN 2 ELSE 1]
=============================================================================
