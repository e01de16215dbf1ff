--------------------------------- MODULE Capture ---------------------------------
(***************************************************************************)
(* From the radio to the host and the table: sniffer_cb runs on the Wi-Fi  *)
(* driver's thread; obs_task and status_task run in the executor, one at a *)
(* time and each up to its next await.  The threads preempt each other     *)
(* anywhere outside a critical section, so the code of both is split at    *)
(* every access to a counter or a channel that the other can see.          *)
(*                                                                         *)
(* An observation is known by its stamp, the order its t_dev_us was taken  *)
(* in, and whether parse_pack accepts its pack.  send (see Wire) accepts a *)
(* frame or counts it in TX_DROPPED.  The table itself is Tracks: here an  *)
(* update is only counted.                                                 *)
(*                                                                         *)
(* The counters wrap; counted is their history, which does not.            *)
(*                                                                         *)
(* ReportOrderSwapped, HasRoomForOneMore, PutFirst, DropUncounted and      *)
(* ForwardParsed are wrong variants of the definition after each.          *)
(***************************************************************************)
EXTENDS Integers, Sequences

CONSTANTS
    ObsCap,       \* capacity of OBS_CH (32)
    CountSpan,    \* values of a counter (2^32)
    MaxFrames,    \* bound: management frames received
    MaxReports    \* bound: STATUS frames

\* As a difference of counters is read, below it is positive, from it on negative.
HalfSpan == CountSpan \div 2

ASSUME CaptureAssumption ==
    /\ ObsCap \in Nat \ {0}
    /\ CountSpan \in Nat /\ ObsCap + 1 < HalfSpan
    /\ MaxFrames \in Nat
    /\ MaxReports \in Nat

VARIABLES
    drv,       \* sniffer_cb: how far it is and with what
    OBS_CH,    \* observations on their way to obs_task
    count,     \* the counters of status.rs
    counted,   \* history: how often each of them was counted up
    exec,      \* the executor: idle, or in which task and how far
    stamps,    \* history: t_dev_us stamps taken
    handed,    \* history: observations obs_task has offered to the link
    accepted,  \* history: those the link accepted
    handled,   \* history: the stamp of the last observation handed over
    updates,   \* history: observations applied to the table
    report,    \* history: the last STATUS, the history of its counters as loaded,
               \* and what had been accepted before it
    reports    \* history: STATUS frames made

vars == <<drv, OBS_CH, count, counted, exec, stamps, handed, accepted, handled, updates,
          report, reports>>

ReportOrderSwapped ==
    <<"MGMT_FRAMES", "BEACONS", "BEACON_ERRORS", "PACK_ERRORS",
      "OBS_DROPPED", "TX_DROPPED", "RID_FRAMES">>
\* status_task loads the counters in this order.  RADIO_ERRORS and LOG_DROPPED,
\* which nothing here increments, are left out.
ReportOrder ==
    <<"MGMT_FRAMES", "BEACONS", "RID_FRAMES", "BEACON_ERRORS", "PACK_ERRORS",
      "OBS_DROPPED", "TX_DROPPED">>
Counters == {"MGMT_FRAMES", "BEACONS", "RID_FRAMES", "BEACON_ERRORS", "PACK_ERRORS",
             "OBS_DROPPED", "TX_DROPPED"}

Values == 0..(CountSpan - 1)

Observations == [t : Nat, ok : BOOLEAN]
DrvPoints == {"idle", "beacon", "malformed", "rid", "fill", "put", "full"}

Zeros == [k \in Counters |-> 0]
Idle == [at |-> "idle", obs |-> [t |-> 0, ok |-> TRUE]]
Awaiting ==
    [task |-> "none", at |-> 0, obs |-> Idle.obs, loaded |-> Zeros, counted |-> Zeros]

Init ==
    /\ drv = Idle
    /\ OBS_CH = <<>>
    /\ count = Zeros /\ counted = Zeros
    /\ exec = Awaiting
    /\ stamps = 0 /\ handed = 0 /\ accepted = 0 /\ handled = 0 /\ updates = 0
    /\ report = [counters |-> Zeros, counted |-> Zeros, accepted |-> 0]
    /\ reports = 0

\* fetch_add(1) on an AtomicU32: the value after the largest is 0.
Inc(k) ==
    /\ count' = [count EXCEPT ![k] = (@ + 1) % CountSpan]
    /\ counted' = [counted EXCEPT ![k] = @ + 1]

countVars == <<count, counted>>

-----------------------------------------------------------------------------
(* sniffer_cb, on the driver's thread *)

executorVars == <<exec, handed, accepted, handled, updates, report, reports>>

Goes(at) == drv' = [drv EXCEPT !.at = at]

\* A management frame: received in error, too short or not a beacon, or a beacon.
FrameReceived ==
    /\ drv.at = "idle"
    /\ counted["MGMT_FRAMES"] < MaxFrames
    /\ Inc("MGMT_FRAMES")
    /\ Goes("idle") \/ Goes("beacon")
    /\ UNCHANGED <<OBS_CH, stamps, executorVars>>

\* parse_beacon: not Remote ID, malformed, or a Remote ID pack.
CountBeacon ==
    /\ drv.at = "beacon"
    /\ Inc("BEACONS")
    /\ Goes("idle") \/ Goes("malformed") \/ Goes("rid")
    /\ UNCHANGED <<OBS_CH, stamps, executorVars>>

CountMalformed ==
    /\ drv.at = "malformed"
    /\ Inc("BEACON_ERRORS")
    /\ Goes("idle")
    /\ UNCHANGED <<OBS_CH, stamps, executorVars>>

CountRid ==
    /\ drv.at = "rid"
    /\ Inc("RID_FRAMES")
    /\ Goes("fill")
    /\ UNCHANGED <<OBS_CH, stamps, executorVars>>

\* RawObs is filled, with the time.
Fill ==
    /\ drv.at = "fill"
    /\ stamps' = stamps + 1
    /\ \E ok \in BOOLEAN : drv' = [at |-> "put", obs |-> [t |-> stamps + 1, ok |-> ok]]
    /\ UNCHANGED <<OBS_CH, countVars, executorVars>>

PutFirst(o) == OBS_CH' = <<o>> \o OBS_CH
Put(o) == OBS_CH' = Append(OBS_CH, o)

HasRoomForOneMore == Len(OBS_CH) <= ObsCap
HasRoom == Len(OBS_CH) < ObsCap

\* try_send, in the channel's critical section.
TrySend ==
    /\ drv.at = "put"
    /\ IF HasRoom
       THEN Put(drv.obs) /\ drv' = Idle
       ELSE Goes("full") /\ UNCHANGED OBS_CH
    /\ UNCHANGED <<countVars, stamps, executorVars>>

DropUncounted == UNCHANGED countVars
CountDropped == Inc("OBS_DROPPED")

Drop ==
    /\ drv.at = "full"
    /\ CountDropped
    /\ drv' = Idle
    /\ UNCHANGED <<OBS_CH, stamps, executorVars>>

Sniffer ==
    \/ FrameReceived \/ CountBeacon \/ CountMalformed \/ CountRid
    \/ Fill \/ TrySend \/ Drop

-----------------------------------------------------------------------------
(* obs_task *)

Continue(at) == exec' = [exec EXCEPT !.at = at]

ReceiveObs ==
    /\ exec.task = "none"
    /\ OBS_CH # <<>>
    /\ exec' = [exec EXCEPT !.task = "obs", !.at = 1, !.obs = Head(OBS_CH)]
    /\ OBS_CH' = Tail(OBS_CH)
    /\ UNCHANGED <<drv, countVars, stamps, handed, accepted, handled, updates, report, reports>>

ForwardParsed(o) == o.ok
\* Every observation is forwarded raw, before it is parsed.
Forwards(o) == TRUE

\* send(OBS): the link accepts the frame or counts it as dropped.
ForwardObs ==
    /\ exec.task = "obs" /\ exec.at = 1
    /\ IF Forwards(exec.obs)
       THEN /\ handed' = handed + 1
            /\ handled' = exec.obs.t
            /\ \/ accepted' = accepted + 1 /\ UNCHANGED countVars
               \/ Inc("TX_DROPPED") /\ UNCHANGED accepted
       ELSE UNCHANGED <<handed, handled, accepted, countVars>>
    /\ Continue(2)
    /\ UNCHANGED <<drv, OBS_CH, stamps, updates, report, reports>>

\* parse_pack accepts it and the table is updated, or PACK_ERRORS counts it.
ParsePack ==
    /\ exec.task = "obs" /\ exec.at = 2
    /\ IF exec.obs.ok
       THEN updates' = updates + 1 /\ UNCHANGED countVars
       ELSE Inc("PACK_ERRORS") /\ UNCHANGED updates
    /\ exec' = Awaiting
    /\ UNCHANGED <<drv, OBS_CH, stamps, handed, accepted, handled, report, reports>>

-----------------------------------------------------------------------------
(* status_task *)

\* The ticker fires.
StartReport ==
    /\ exec.task = "none"
    /\ reports < MaxReports
    /\ exec' = [exec EXCEPT !.task = "status", !.at = 1]
    /\ UNCHANGED <<drv, OBS_CH, countVars, stamps, handed, accepted, handled, updates,
                   report, reports>>

\* Relaxed loads, one counter at a time.
LoadCounter ==
    /\ exec.task = "status"
    /\ exec.at <= Len(ReportOrder)
    /\ LET k == ReportOrder[exec.at] IN
       exec' = [exec EXCEPT !.loaded[k] = count[k], !.counted[k] = counted[k], !.at = @ + 1]
    /\ UNCHANGED <<drv, OBS_CH, countVars, stamps, handed, accepted, handled, updates,
                   report, reports>>

\* send(STATUS); on every 30th pass a HELLO follows.
SendStatus ==
    /\ exec.task = "status"
    /\ exec.at = Len(ReportOrder) + 1
    /\ \/ /\ report' = [counters |-> exec.loaded, counted |-> exec.counted,
                       accepted |-> accepted]
          /\ UNCHANGED countVars
       \/ Inc("TX_DROPPED") /\ UNCHANGED report
    /\ reports' = reports + 1
    /\ exec' = Awaiting \/ Continue(exec.at + 1)
    /\ UNCHANGED <<drv, OBS_CH, stamps, handed, accepted, handled, updates>>

SendHello ==
    /\ exec.task = "status"
    /\ exec.at = Len(ReportOrder) + 2
    /\ UNCHANGED countVars \/ Inc("TX_DROPPED")
    /\ exec' = Awaiting
    /\ UNCHANGED <<drv, OBS_CH, stamps, handed, accepted, handled, updates, report, reports>>

-----------------------------------------------------------------------------

ObsTask == ReceiveObs \/ ForwardObs \/ ParsePack
StatusTask == StartReport \/ LoadCounter \/ SendStatus \/ SendHello

Next == Sniffer \/ ObsTask \/ StatusTask

\* sniffer_cb and a task that runs reach their end.  The executor polls the tasks
\* that were woken in turn, so obs_task is not overtaken for ever by status_task.
\* Frames and reports need never come.
Fairness ==
    /\ WF_vars(CountBeacon) /\ WF_vars(CountMalformed) /\ WF_vars(CountRid)
    /\ WF_vars(Fill) /\ WF_vars(TrySend) /\ WF_vars(Drop)
    /\ SF_vars(ReceiveObs) /\ WF_vars(ForwardObs) /\ WF_vars(ParsePack)
    /\ WF_vars(LoadCounter) /\ WF_vars(SendStatus) /\ WF_vars(SendHello)

Spec == Init /\ [][Next]_vars /\ Fairness

-----------------------------------------------------------------------------
(* Properties *)

CaptureTypeOK ==
    /\ drv \in [at : DrvPoints, obs : Observations]
    /\ OBS_CH \in Seq(Observations) /\ Len(OBS_CH) <= ObsCap
    /\ count \in [Counters -> Values] /\ counted \in [Counters -> Nat]
    /\ exec \in [task : {"none", "obs", "status"}, at : Nat, obs : Observations,
                 loaded : [Counters -> Values], counted : [Counters -> Nat]]
    /\ stamps \in Nat /\ handed \in Nat /\ accepted \in Nat /\ handled \in Nat
    /\ updates \in Nat /\ reports \in Nat
    /\ report \in [counters : [Counters -> Values], counted : [Counters -> Nat],
                   accepted : Nat]

InDriver == IF drv.at \in {"fill", "put", "full"} THEN 1 ELSE 0
InObsTask(at) == IF exec.task = "obs" /\ exec.at = at THEN 1 ELSE 0

\* Equal up to what a counter cannot tell.
Congruent(a, b) == a % CountSpan = b % CountSpan

\* Every Remote ID beacon counted in RID_FRAMES is somewhere: being filled in,
\* queued, counted as dropped, in obs_task's hands or offered to the host; and
\* every one offered to the host, rejected packs included, has updated the table
\* or been counted in PACK_ERRORS, except the one at hand.  The counters wrap, each
\* at a time of its own, so their sums agree up to multiples of CountSpan.
ObsConserved ==
    /\ Congruent(count["RID_FRAMES"],
                 handed + InObsTask(1) + Len(OBS_CH) + InDriver + count["OBS_DROPPED"])
    /\ Congruent(handed, updates + count["PACK_ERRORS"] + InObsTask(2))

\* Observations reach the link and the table in the order of their stamps, which
\* TrackTable.update and the age of a track rest on.
StampsAscend == [][handled' # handled => handled' > handled]_handled

\* What RID_FRAMES is ahead of the frames accepted and those counted as dropped.
Missing(c, received) == c["RID_FRAMES"] - received - c["OBS_DROPPED"] - c["TX_DROPPED"]

\* A difference of counters that wrap, read as a signed number.
Signed(d) == IF d % CountSpan < HalfSpan THEN d % CountSpan ELSE (d % CountSpan) - CountSpan

\* A host that holds a STATUS can tell how much it misses: beyond what the STATUS
\* itself counts as dropped, no more Remote ID frames than OBS_CH holds, and the
\* one in the driver's hands.  The counters are loaded one at a time while the
\* driver goes on counting, so this depends on RID_FRAMES being loaded before the
\* drop counters.  And they wrap, RID_FRAMES first: the host still gets the number
\* from the wrapped ones unless the drop counters have run ahead by more than half
\* of their values, with STATUS and HELLO frames dropped and with observations
\* dropped during the loads.
LossesReported ==
    LET missing == Missing(report.counted, report.accepted) IN
    /\ missing <= ObsCap + 1
    /\ missing >= -HalfSpan =>
           Signed(Missing(report.counters, report.accepted)) = missing

\* An observation that was queued is handed over in the end.
ObsHandedOver ==
    \A t \in 1..MaxFrames :
        (\E i \in 1..Len(OBS_CH) : OBS_CH[i].t = t) ~> handled >= t
=============================================================================
