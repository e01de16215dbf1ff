--------------------------------- MODULE MCLink ---------------------------------
(* Link on small instances.  At the bounds on sends, resets and exits nothing *)
(* need happen any more.                                                      *)
EXTENDS Link

Quiet ==
    /\ sends = MaxSends /\ exits = MaxExits /\ resets = MaxResets
    /\ \A c \in Contexts : pc[c] = "idle"
    /\ hostUp /\ (Stream = <<>> \/ boot # "run")
    /\ UNCHANGED vars

MCSafety == Init /\ [][Next \/ Quiet]_vars
=============================================================================
