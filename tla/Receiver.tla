--------------------------------- MODULE Receiver ---------------------------------
(***************************************************************************)
(* From the air to the table: Capture's queue filled on the driver's       *)
(* thread and emptied by obs_task, the track table it updates (Tracks),    *)
(* ui_task, which purges and clears that table between obs_task's passes,  *)
(* and the clock the stamps are taken from.  An observation's stamp        *)
(* indexes sent, which holds what RawObs carries of it.                    *)
(*                                                                         *)
(* The clock counts microseconds in the code: two frames take longer on    *)
(* the air than one of its ticks, so no two are stamped in the same.       *)
(*                                                                         *)
(* ParseUnlessCleared is a wrong variant of the definition after it.       *)
(***************************************************************************)
EXTENDS Capture, Tracks

VARIABLES
    sent,       \* transmitter and t_dev_us of each observation filled in
    clearedAt,  \* history: when the table was last cleared
    inFlight    \* history: the t_dev_us of the observations under way then

captureVars == vars
receiverVars == <<vars, tracksVars, sent, clearedAt, inFlight>>

ReceiverInit ==
    /\ Init
    /\ TracksInit
    /\ sent = <<>>
    /\ clearedAt = 0
    /\ inFlight = {}

LastStamp == IF sent = <<>> THEN 0 ELSE sent[Len(sent)].at

\* RawObs is filled, from some transmitter.
FillFrom(mac) ==
    /\ Fill
    /\ LastStamp < now
    /\ sent' = Append(sent, [mac |-> mac, at |-> now])
    /\ UNCHANGED <<tracksVars, clearedAt, inFlight>>

\* The other steps of sniffer_cb.
SnifferStep ==
    /\ FrameReceived \/ CountBeacon \/ CountMalformed \/ CountRid \/ TrySend \/ Drop
    /\ UNCHANGED <<tracksVars, sent, clearedAt, inFlight>>

\* obs_task up to the table, and status_task.
TaskStep ==
    /\ ReceiveObs \/ ForwardObs \/ StatusTask
    /\ UNCHANGED <<tracksVars, sent, clearedAt, inFlight>>

ParseUnlessCleared ==
    /\ ParsePack
    /\ IF exec.obs.ok /\ sent[exec.obs.t].at > clearedAt
       THEN LET o == sent[exec.obs.t] IN
            \E rssi \in Signals, items \in Packs : Apply(o.mac, rssi, items, o.at)
       ELSE UNCHANGED tracksVars
    /\ UNCHANGED <<sent, clearedAt, inFlight>>
\* obs_task parses the pack and updates the table under its lock.
ParseAndUpdate ==
    /\ ParsePack
    /\ IF exec.obs.ok
       THEN LET o == sent[exec.obs.t] IN
            \E rssi \in Signals, items \in Packs : Apply(o.mac, rssi, items, o.at)
       ELSE UNCHANGED tracksVars
    /\ UNCHANGED <<sent, clearedAt, inFlight>>

\* ui_task begins a pass.
UiPurge ==
    /\ exec.task = "none"
    /\ Purge
    /\ UNCHANGED <<captureVars, sent, clearedAt, inFlight>>

\* The stamps of observations filled in and not yet handed to obs_task.
UnderWay ==
    {sent[OBS_CH[i].t].at : i \in DOMAIN OBS_CH} \cup
    (IF drv.at \in {"put", "full"} THEN {sent[drv.obs.t].at} ELSE {})

\* ui_task takes a ClearTracks event.
UiClear ==
    /\ exec.task = "none"
    /\ Clear
    /\ clearedAt' = now
    /\ inFlight' = UnderWay
    /\ UNCHANGED <<captureVars, sent>>

ClockTick == Tick /\ UNCHANGED <<captureVars, sent, clearedAt, inFlight>>

ReceiverNext ==
    \/ SnifferStep \/ TaskStep \/ ParseAndUpdate
    \/ \E mac \in Macs : FillFrom(mac)
    \/ UiPurge \/ UiClear \/ ClockTick

\* What the executor and the driver's thread run on to, as in Capture.
ReceiverFairness ==
    /\ WF_receiverVars(SnifferStep /\ drv.at # "idle")
    /\ WF_receiverVars(\E mac \in Macs : FillFrom(mac))
    /\ SF_receiverVars(TaskStep /\ ReceiveObs)
    /\ WF_receiverVars(TaskStep /\ exec.task # "none")
    /\ WF_receiverVars(ParseAndUpdate)

ReceiverSpec == ReceiverInit /\ [][ReceiverNext]_receiverVars /\ ReceiverFairness

-----------------------------------------------------------------------------
(* Properties *)

\* The table is used as Tracks takes for granted: each observation is newer than
\* all before it and none is from the future, though it is stamped on one thread,
\* queued, and applied on another while the clock runs and ui_task purges.
UpdatesInOrder == TracksSpec

\* Clearing the table holds: a track that began before the clear comes from an
\* observation that was under way at the time, and there are no more of them than
\* OBS_CH holds and the one in the driver's hands.
ClearHolds ==
    /\ \A i \in Slots : Used(i) /\ slots[i].first_seen_us < clearedAt =>
           slots[i].first_seen_us \in inFlight
    /\ Cardinality(inFlight) <= ObsCap + 1

\* What is queued with a pack that parses gets into the table.
ReachesTable ==
    \A t \in 1..MaxFrames :
        (\E i \in DOMAIN OBS_CH : OBS_CH[i] = [t |-> t, ok |-> TRUE])
            ~> t <= Len(sent) /\ latest >= sent[t].at
=============================================================================
