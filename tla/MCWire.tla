--------------------------------- MODULE MCWire ---------------------------------
(* Wire on a small instance: the executor and the driver thread, a sequence *)
(* number of four values and a queue of two, with enough sends to wrap.    *)
EXTENDS Wire

\* All sends made: the bound, not the system, ends the run.  What is still queued
\* then is left to EventuallyRead.
Done ==
    /\ sends = MaxSends
    /\ \A c \in Contexts : pc[c] = "idle"
    /\ UNCHANGED wireVars

MCNext == WireNext \/ Done

MCSpec == WireInit /\ [][MCNext]_wireVars /\ SendFairness /\ TxFairness
=============================================================================
