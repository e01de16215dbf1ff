-------------------------------- MODULE MCReceiver --------------------------------
(* Receiver on a small instance, in which every frame is a Remote ID beacon     *)
(* and the link takes every observation (MCCapture has the other cases).  When  *)
(* the clock is at its bound and all frames it allows are handled, nothing need *)
(* happen any more.                                                             *)
EXTENDS Receiver

OneSignal == {-60}
EmptyPack == {{}}

PlainCase ==
    /\ \A k \in {"MGMT_FRAMES", "BEACONS"} :
           counted'[k] # counted[k] => drv'.at \in {"beacon", "rid"}
    /\ counted'["TX_DROPPED"] = 0

Quiet ==
    /\ drv.at \in {"idle", "fill"} /\ OBS_CH = <<>> /\ exec.task = "none"
    /\ now = MaxNow
    /\ UNCHANGED receiverVars

MCNext == (ReceiverNext /\ PlainCase) \/ Quiet

MCSpec == ReceiverInit /\ [][MCNext]_receiverVars /\ ReceiverFairness
=============================================================================
