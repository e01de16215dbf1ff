-------------------------------- MODULE MCCapture --------------------------------
(* Capture on a small instance.  Its counters have to wrap, and a frame takes   *)
(* many steps: so the first RunUp frames are Remote ID beacons that come one by *)
(* one, each accepted and applied before the next, without a report.  After     *)
(* them anything may happen.  When all frames and reports of the bounds have    *)
(* been made and every observation is handled, nothing need happen any more.    *)
EXTENDS Capture

CONSTANT RunUp

PlainFrame ==
    /\ drv' # drv => exec.task = "none" /\ OBS_CH = <<>> /\ drv'.obs.ok
    /\ drv.at # "put" => drv'.at \notin {"idle", "malformed"} \/ drv' = drv
    /\ counted'["MGMT_FRAMES"] # counted["MGMT_FRAMES"] => drv'.at = "beacon"
    /\ counted'["TX_DROPPED"] = 0 /\ exec'.task # "status"

MCNext == Next /\ (updates < RunUp => PlainFrame)

Quiet ==
    /\ counted["MGMT_FRAMES"] = MaxFrames /\ reports = MaxReports
    /\ drv.at = "idle" /\ OBS_CH = <<>> /\ exec.task = "none"
    /\ UNCHANGED vars

MCSafety == Init /\ [][MCNext \/ Quiet]_vars
=============================================================================
