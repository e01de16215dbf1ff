-------------------------------- MODULE LossyLink --------------------------------
(***************************************************************************)
(* What the device promises of its link, without locks, queues or tasks:   *)
(* items are numbered as they are offered; each is either accepted, and    *)
(* then delivered once and in order, or lost and counted.                  *)
(***************************************************************************)
EXTENDS Naturals, Sequences

VARIABLES
    offered,  \* items offered so far: the next item's number
    lost,     \* items counted as lost
    pipe      \* accepted items not yet delivered, oldest first

linkVars == <<offered, lost, pipe>>

LinkInit == offered = 0 /\ lost = 0 /\ pipe = <<>>

Accept ==
    /\ pipe' = Append(pipe, offered)
    /\ offered' = offered + 1
    /\ UNCHANGED lost

Lose ==
    /\ lost' = lost + 1
    /\ offered' = offered + 1
    /\ UNCHANGED pipe

Deliver ==
    /\ pipe # <<>>
    /\ pipe' = Tail(pipe)
    /\ UNCHANGED <<offered, lost>>

LinkNext == Accept \/ Lose \/ Deliver

LinkSpec == LinkInit /\ [][LinkNext]_linkVars
=============================================================================
