------------------------------ MODULE ReceiverProofs ------------------------------
(***************************************************************************)
(* Capture by itself, for every capacity of OBS_CH, every width of the     *)
(* counters and any number of frames and reports: its type invariant, the  *)
(* conservation of observations and what a STATUS lets the host conclude.  *)
(* Both are shown of the histories of the counters first, which do not     *)
(* wrap, and then of what the counters and the report keep of them.        *)
(*                                                                         *)
(* Then the receiver, which implements Tracks: through the driver, OBS_CH  *)
(* and obs_task the table gets every observation in the order of the       *)
(* stamps and none from the future, so what is proved of the table holds   *)
(* in the receiver.  And clearing the table holds but for the observations *)
(* under way.                                                              *)
(***************************************************************************)
EXTENDS Receiver, TracksProofs

-----------------------------------------------------------------------------
(* Capture: counts *)

\* Each counter, as loaded and as reported too, is what its history leaves of it.
Wraps(c, history) == \A k \in Counters : c[k] = history[k] % CountSpan

CountsWrap ==
    /\ Wraps(count, counted)
    /\ Wraps(exec.loaded, exec.counted)
    /\ Wraps(report.counters, report.counted)

\* ObsConserved and LossesReported, of the histories of the counters.
Balanced ==
    /\ counted["RID_FRAMES"] =
           handed + InObsTask(1) + Len(OBS_CH) + InDriver + counted["OBS_DROPPED"]
    /\ handed = updates + counted["PACK_ERRORS"] + InObsTask(2)

Reported ==
    report.counted["RID_FRAMES"] <=
        report.accepted + report.counted["OBS_DROPPED"] + report.counted["TX_DROPPED"]
        + ObsCap + 1

\* What obs_task offered was accepted by the link or counted as dropped.
OfferedCounted == handed <= accepted + counted["TX_DROPPED"]

\* While status_task loads, the counters it has loaded and the present value of
\* those it has not keep the promise of LossesReported.
DropsSeen ==
    (IF exec.at > 6 THEN exec.counted["OBS_DROPPED"] ELSE counted["OBS_DROPPED"])
    + (IF exec.at > 7 THEN exec.counted["TX_DROPPED"] ELSE counted["TX_DROPPED"])

Loading ==
    exec.task = "status" =>
        /\ exec.at >= 1
        /\ exec.at > 3 =>
              exec.counted["RID_FRAMES"] <= accepted + DropsSeen + ObsCap + 1

CaptureInv ==
    CaptureTypeOK /\ Balanced /\ OfferedCounted /\ Loading /\ Reported

\* A difference of counters can mean a positive number for all that OBS_CH and the
\* driver hold.
LEMMA SpanFits ==
  /\ CountSpan \in Nat /\ CountSpan > 0
  /\ HalfSpan \in Nat /\ 2 * HalfSpan <= CountSpan /\ ObsCap + 1 < HalfSpan
  /\ Zeros \in [Counters -> Values] /\ Zeros \in [Counters -> Nat]
<1>1. CountSpan \in Nat /\ ObsCap \in Nat /\ ObsCap + 1 < HalfSpan
  BY CaptureAssumption
<1>2. \A n \in Nat : n \div 2 \in Nat /\ 2 * (n \div 2) <= n
  OBVIOUS
<1>3. HalfSpan \in Nat /\ 2 * HalfSpan <= CountSpan
  BY <1>1, <1>2 DEF HalfSpan
<1>4. CountSpan > 0
  BY <1>1, <1>3
<1> QED
  BY <1>1, <1>3, <1>4 DEF Zeros, Values

LEMMA CaptureInvInit == Init => CaptureInv
<1> SUFFICES ASSUME Init PROVE CaptureInv
  OBVIOUS
<1>1. CaptureTypeOK
  BY SpanFits, CaptureAssumption
  DEF Init, CaptureTypeOK, Idle, Awaiting, Observations, DrvPoints
<1>2. Balanced /\ OfferedCounted /\ Loading /\ Reported
  BY CaptureAssumption
  DEF Init, Balanced, OfferedCounted, Loading, DropsSeen, Reported, Idle, Awaiting,
      Zeros, Counters, InDriver, InObsTask
<1> QED
  BY <1>1, <1>2 DEF CaptureInv

Same(k) == counted'[k] = counted[k]

\* A counter goes up by one and the others stay.
LEMMA IncOne ==
  ASSUME CaptureTypeOK, NEW k \in Counters, Inc(k)
  PROVE  /\ count' \in [Counters -> Values] /\ counted' \in [Counters -> Nat]
         /\ counted'[k] = counted[k] + 1
         /\ \A j \in Counters : j # k => Same(j)
<1>1. count \in [Counters -> Values] /\ counted \in [Counters -> Nat]
  BY DEF CaptureTypeOK
<1>2. CountSpan \in Nat /\ CountSpan > 0
  BY SpanFits
<1>3. (count[k] + 1) % CountSpan \in Values
  <2>1. \A m \in Nat : m % CountSpan \in 0..(CountSpan - 1)
    BY <1>2
  <2>2. count[k] + 1 \in Nat
    BY <1>1, <1>2 DEF Values
  <2> QED
    BY <2>1, <2>2 DEF Values
<1>4. count' \in [Counters -> Values]
  BY <1>1, <1>3 DEF Inc
<1> QED
  BY <1>1, <1>4 DEF Inc, Same

\* The numbers the invariants relate.
LEMMA Numbers ==
  CaptureTypeOK =>
      /\ counted["RID_FRAMES"] \in Nat /\ counted["PACK_ERRORS"] \in Nat
      /\ counted["OBS_DROPPED"] \in Nat /\ counted["TX_DROPPED"] \in Nat
      /\ handed \in Nat /\ accepted \in Nat /\ updates \in Nat
<1>1. CaptureTypeOK => \A k \in Counters : counted[k] \in Nat
  BY DEF CaptureTypeOK
<1>2. CaptureTypeOK => handed \in Nat /\ accepted \in Nat /\ updates \in Nat
  BY DEF CaptureTypeOK
<1> QED
  BY <1>1, <1>2 DEF Counters

\* Where an observation can be.
LEMMA Places ==
  CaptureTypeOK =>
      /\ Len(OBS_CH) \in Nat /\ Len(OBS_CH) <= ObsCap /\ ObsCap \in Nat
      /\ InDriver \in {0, 1} /\ InObsTask(1) \in {0, 1} /\ InObsTask(2) \in {0, 1}
<1>1. CaptureTypeOK => Len(OBS_CH) \in Nat /\ Len(OBS_CH) <= ObsCap /\ ObsCap \in Nat
  BY CaptureAssumption DEF CaptureTypeOK
<1>2. InDriver \in {0, 1} /\ InObsTask(1) \in {0, 1} /\ InObsTask(2) \in {0, 1}
  BY DEF InDriver, InObsTask
<1> QED
  BY <1>1, <1>2

\* What status_task has loaded.
LEMMA LoadedNumbers ==
  CaptureTypeOK =>
      /\ exec.counted["RID_FRAMES"] \in Nat /\ exec.counted["OBS_DROPPED"] \in Nat
      /\ exec.counted["TX_DROPPED"] \in Nat
BY DEF CaptureTypeOK, Counters

\* The driver moves on with the observation it has.
LEMMA GoesTo ==
  ASSUME CaptureTypeOK, NEW p \in DrvPoints, Goes(p)
  PROVE  drv' \in [at : DrvPoints, obs : Observations] /\ drv'.at = p
BY DEF CaptureTypeOK, Goes

LEMMA StepFrame ==
  CaptureInv /\ (FrameReceived \/ CountBeacon \/ CountMalformed) => CaptureInv'
<1> SUFFICES ASSUME CaptureInv, FrameReceived \/ CountBeacon \/ CountMalformed
             PROVE  CaptureInv'
  OBVIOUS
<1>1. CaptureTypeOK
  BY DEF CaptureInv
<1>2. \E k \in {"MGMT_FRAMES", "BEACONS", "BEACON_ERRORS"} : Inc(k)
  BY DEF FrameReceived, CountBeacon, CountMalformed
<1>3. /\ count' \in [Counters -> Values] /\ counted' \in [Counters -> Nat]
      /\ Same("RID_FRAMES") /\ Same("PACK_ERRORS") /\ Same("OBS_DROPPED") /\ Same("TX_DROPPED")
  BY <1>1, <1>2, IncOne DEF Counters
<1>4. /\ drv' \in [at : DrvPoints, obs : Observations]
      /\ drv'.at \in {"idle", "beacon", "malformed", "rid"}
      /\ drv.at \in {"idle", "beacon", "malformed"}
  BY <1>1, GoesTo DEF FrameReceived, CountBeacon, CountMalformed, DrvPoints
<1>5. UNCHANGED <<OBS_CH, stamps, exec, handed, accepted, handled, updates, report, reports>>
  BY DEF FrameReceived, CountBeacon, CountMalformed, executorVars
<1>6. CaptureTypeOK'
  BY <1>1, <1>3, <1>4, <1>5 DEF CaptureTypeOK
<1>7. InDriver' = InDriver
  BY <1>4 DEF InDriver
<1>8. Balanced' /\ OfferedCounted' /\ Loading' /\ Reported'
  BY <1>3, <1>5, <1>7
  DEF Same, CaptureInv, Balanced, OfferedCounted, Loading, DropsSeen, Reported, InObsTask
<1> QED
  BY <1>6, <1>8 DEF CaptureInv

LEMMA StepRid == CaptureInv /\ CountRid => CaptureInv'
<1> SUFFICES ASSUME CaptureInv, CountRid PROVE CaptureInv'
  OBVIOUS
<1>1. CaptureTypeOK
  BY DEF CaptureInv
<1>2. /\ count' \in [Counters -> Values] /\ counted' \in [Counters -> Nat]
      /\ counted'["RID_FRAMES"] = counted["RID_FRAMES"] + 1
      /\ Same("PACK_ERRORS") /\ Same("OBS_DROPPED") /\ Same("TX_DROPPED")
  BY <1>1, IncOne DEF CountRid, Counters
<1>3. /\ drv' \in [at : DrvPoints, obs : Observations]
      /\ drv'.at = "fill" /\ drv.at = "rid"
  BY <1>1, GoesTo DEF CountRid, DrvPoints
<1>4. UNCHANGED <<OBS_CH, stamps, exec, handed, accepted, handled, updates, report, reports>>
  BY DEF CountRid, executorVars
<1>5. CaptureTypeOK'
  BY <1>1, <1>2, <1>3, <1>4 DEF CaptureTypeOK
<1>6. InDriver' = 1 /\ InDriver = 0
  BY <1>3 DEF InDriver
<1>7. /\ counted["RID_FRAMES"] \in Nat /\ counted["OBS_DROPPED"] \in Nat
      /\ Len(OBS_CH) \in Nat /\ handed \in Nat /\ InObsTask(1) \in Nat
  BY <1>1 DEF CaptureTypeOK, Counters, InObsTask
<1>8. Balanced'
  BY <1>2, <1>4, <1>6, <1>7 DEF Same, CaptureInv, Balanced, InObsTask
<1>9. OfferedCounted' /\ Loading' /\ Reported'
  BY <1>2, <1>4 DEF Same, CaptureInv, OfferedCounted, Loading, DropsSeen, Reported
<1> QED
  BY <1>5, <1>8, <1>9 DEF CaptureInv

LEMMA StepFill == CaptureInv /\ Fill => CaptureInv'
<1> SUFFICES ASSUME CaptureInv, Fill PROVE CaptureInv'
  OBVIOUS
<1>1. CaptureTypeOK
  BY DEF CaptureInv
<1>2. /\ drv' \in [at : DrvPoints, obs : Observations]
      /\ drv'.at = "put" /\ drv.at = "fill"
      /\ stamps' \in Nat
  BY <1>1 DEF Fill, CaptureTypeOK, DrvPoints, Observations
<1>3. UNCHANGED <<OBS_CH, count, counted, exec, handed, accepted, handled, updates, report,
                  reports>>
  BY DEF Fill, countVars, executorVars
<1>4. CaptureTypeOK'
  BY <1>1, <1>2, <1>3 DEF CaptureTypeOK
<1>5. InDriver' = InDriver
  BY <1>2 DEF InDriver
<1>6. Balanced' /\ OfferedCounted' /\ Loading' /\ Reported'
  BY <1>3, <1>5
  DEF CaptureInv, Balanced, OfferedCounted, Loading, DropsSeen, Reported, InObsTask
<1> QED
  BY <1>4, <1>6 DEF CaptureInv

LEMMA StepTrySend == CaptureInv /\ TrySend => CaptureInv'
<1> SUFFICES ASSUME CaptureInv, TrySend PROVE CaptureInv'
  OBVIOUS
<1>1. CaptureTypeOK
  BY DEF CaptureInv
<1>2. drv.obs \in Observations /\ drv.at = "put"
  BY <1>1 DEF CaptureTypeOK, TrySend
<1>3. UNCHANGED <<count, counted, stamps, exec, handed, accepted, handled, updates, report,
                  reports>>
  BY DEF TrySend, countVars, executorVars
<1>4. OfferedCounted' /\ Loading' /\ Reported'
  BY <1>3 DEF CaptureInv, OfferedCounted, Loading, DropsSeen, Reported
<1>5. CASE HasRoom
  <2>1. /\ OBS_CH' \in Seq(Observations) /\ Len(OBS_CH') = Len(OBS_CH) + 1
        /\ Len(OBS_CH) \in Nat /\ Len(OBS_CH') <= ObsCap
    <3>1. OBS_CH' = Append(OBS_CH, drv.obs) /\ Len(OBS_CH) < ObsCap
      BY <1>5 DEF TrySend, Put, HasRoom
    <3>2. OBS_CH \in Seq(Observations)
      BY <1>1 DEF CaptureTypeOK
    <3> QED
      BY <1>2, <3>1, <3>2, CaptureAssumption
  <2>2. drv' = Idle
    BY <1>5 DEF TrySend
  <2>3. CaptureTypeOK'
    BY <1>1, <1>3, <2>1, <2>2 DEF CaptureTypeOK, Idle, Observations, DrvPoints
  <2>4. InDriver = 1 /\ InDriver' = 0
    BY <1>2, <2>2 DEF InDriver, Idle
  <2>5. /\ counted["OBS_DROPPED"] \in Nat /\ handed \in Nat /\ InObsTask(1) \in Nat
    BY <1>1 DEF CaptureTypeOK, Counters, InObsTask
  <2>6. Balanced'
    BY <1>3, <2>1, <2>4, <2>5 DEF CaptureInv, Balanced, InObsTask
  <2> QED
    BY <1>4, <2>3, <2>6 DEF CaptureInv
<1>6. CASE ~HasRoom
  <2>1. UNCHANGED OBS_CH /\ drv' \in [at : DrvPoints, obs : Observations] /\ drv'.at = "full"
    BY <1>1, <1>6, GoesTo DEF TrySend, DrvPoints
  <2>2. CaptureTypeOK'
    BY <1>1, <1>3, <2>1 DEF CaptureTypeOK
  <2>3. InDriver' = InDriver
    BY <1>2, <2>1 DEF InDriver
  <2>4. Balanced'
    BY <1>3, <2>1, <2>3 DEF CaptureInv, Balanced, InObsTask
  <2> QED
    BY <1>4, <2>2, <2>4 DEF CaptureInv
<1> QED
  BY <1>5, <1>6

\* A drop that is counted while status_task loads only adds to what it reports.
LEMMA StepDrop == CaptureInv /\ Drop => CaptureInv'
<1> SUFFICES ASSUME CaptureInv, Drop PROVE CaptureInv'
  OBVIOUS
<1>1. CaptureTypeOK
  BY DEF CaptureInv
<1>2. /\ count' \in [Counters -> Values] /\ counted' \in [Counters -> Nat]
      /\ counted'["OBS_DROPPED"] = counted["OBS_DROPPED"] + 1
      /\ Same("RID_FRAMES") /\ Same("PACK_ERRORS") /\ Same("TX_DROPPED")
  BY <1>1, IncOne DEF Drop, CountDropped, Counters
<1>3. UNCHANGED <<OBS_CH, stamps, exec, handed, accepted, handled, updates, report, reports>>
  BY DEF Drop, executorVars
<1>4. drv' = Idle /\ drv.at = "full"
  BY DEF Drop
<1>5. CaptureTypeOK'
  BY <1>1, <1>2, <1>3, <1>4 DEF CaptureTypeOK, Idle, Observations, DrvPoints
<1>6. InDriver = 1 /\ InDriver' = 0
  BY <1>4 DEF InDriver, Idle
<1>7. /\ OBS_CH' = OBS_CH /\ exec' = exec /\ handed' = handed /\ accepted' = accepted
      /\ updates' = updates /\ report' = report
  BY <1>3
<1>8. Balanced' /\ OfferedCounted' /\ Reported'
  <2>1. InObsTask(1)' = InObsTask(1) /\ InObsTask(2)' = InObsTask(2)
    BY <1>7 DEF InObsTask
  <2>2. /\ counted["RID_FRAMES"] \in Nat /\ counted["OBS_DROPPED"] \in Nat
        /\ Len(OBS_CH) \in Nat /\ handed \in Nat /\ InObsTask(1) \in Nat
    BY <1>1, Numbers, Places
  <2>3. Balanced'
    <3>1. /\ counted["RID_FRAMES"] =
                handed + InObsTask(1) + Len(OBS_CH) + 1 + counted["OBS_DROPPED"]
          /\ handed = updates + counted["PACK_ERRORS"] + InObsTask(2)
      BY <1>6 DEF CaptureInv, Balanced
    <3>2. counted'["RID_FRAMES"] =
              handed + InObsTask(1) + Len(OBS_CH) + 0 + counted'["OBS_DROPPED"]
      <4>1. counted'["RID_FRAMES"] = counted["RID_FRAMES"]
        BY <1>2 DEF Same
      <4>2. Len(OBS_CH) \in Nat /\ InObsTask(1) \in Nat
        BY <2>2
      <4> QED
        BY <1>2, <2>2, <3>1, <4>1, <4>2, SMTT(30)
    <3> QED
      BY <1>2, <1>6, <1>7, <2>1, <3>1, <3>2 DEF Same, Balanced
  <2> QED
    BY <1>2, <1>7, <2>3 DEF Same, CaptureInv, OfferedCounted, Reported
<1>9. DropsSeen' \in Nat /\ DropsSeen \in Nat /\ DropsSeen' >= DropsSeen
  BY <1>1, <1>2, <1>7, Numbers, LoadedNumbers DEF Same, DropsSeen
<1>10. Loading'
  <2>1. accepted \in Nat /\ ObsCap \in Nat /\ exec.counted["RID_FRAMES"] \in Nat
    BY <1>1, Numbers, LoadedNumbers, Places
  <2> QED
    BY <1>7, <1>9, <2>1 DEF CaptureInv, Loading
<1> QED
  BY <1>5, <1>8, <1>10 DEF CaptureInv

LEMMA StepReceive == CaptureInv /\ ReceiveObs => CaptureInv'
<1> SUFFICES ASSUME CaptureInv, ReceiveObs PROVE CaptureInv'
  OBVIOUS
<1>1. CaptureTypeOK
  BY DEF CaptureInv
<1>2. UNCHANGED <<drv, count, counted, stamps, handed, accepted, handled, updates, report, reports>>
  BY DEF ReceiveObs, countVars
<1>3. /\ OBS_CH' \in Seq(Observations) /\ Len(OBS_CH) \in Nat
      /\ Len(OBS_CH') = Len(OBS_CH) - 1 /\ Head(OBS_CH) \in Observations
  BY <1>1 DEF ReceiveObs, CaptureTypeOK
<1>4. /\ exec.task = "none"
      /\ exec' \in [task : {"none", "obs", "status"}, at : Nat, obs : Observations,
                    loaded : [Counters -> Values], counted : [Counters -> Nat]]
      /\ exec'.task = "obs" /\ exec'.at = 1
  BY <1>1, <1>3 DEF ReceiveObs, CaptureTypeOK
<1>5. CaptureTypeOK'
  BY <1>1, <1>2, <1>3, <1>4, CaptureAssumption DEF CaptureTypeOK
<1>6. /\ InObsTask(1) = 0 /\ InObsTask(2) = 0 /\ InObsTask(1)' = 1 /\ InObsTask(2)' = 0
      /\ InDriver' = InDriver
  BY <1>2, <1>4 DEF InObsTask, InDriver
<1>7. /\ counted["OBS_DROPPED"] \in Nat /\ handed \in Nat /\ InDriver \in Nat
  BY <1>1 DEF CaptureTypeOK, Counters, InDriver
<1>8. Balanced'
  BY <1>2, <1>3, <1>6, <1>7 DEF CaptureInv, Balanced
<1>9. OfferedCounted' /\ Loading' /\ Reported'
  BY <1>2, <1>4 DEF CaptureInv, OfferedCounted, Loading, Reported
<1> QED
  BY <1>5, <1>8, <1>9 DEF CaptureInv

LEMMA StepForward == CaptureInv /\ ForwardObs => CaptureInv'
<1> SUFFICES ASSUME CaptureInv, ForwardObs PROVE CaptureInv'
  OBVIOUS
<1>1. CaptureTypeOK
  BY DEF CaptureInv
<1>2. /\ UNCHANGED <<drv, OBS_CH, stamps, updates, report, reports>>
      /\ handed' = handed + 1 /\ handled' = exec.obs.t
      /\ exec.task = "obs" /\ exec.at = 1
  BY DEF ForwardObs, Forwards
<1>3. /\ exec' \in [task : {"none", "obs", "status"}, at : Nat, obs : Observations,
                    loaded : [Counters -> Values], counted : [Counters -> Nat]]
      /\ exec'.task = "obs" /\ exec'.at = 2
  BY <1>1, <1>2 DEF ForwardObs, Continue, CaptureTypeOK
<1>4. exec.obs.t \in Nat
  BY <1>1 DEF CaptureTypeOK, Observations
<1>5. /\ accepted' \in Nat /\ accepted' >= accepted
      /\ count' \in [Counters -> Values] /\ counted' \in [Counters -> Nat]
      /\ accepted' + counted'["TX_DROPPED"] = accepted + counted["TX_DROPPED"] + 1
      /\ Same("RID_FRAMES") /\ Same("PACK_ERRORS") /\ Same("OBS_DROPPED")
  <2>1. CASE accepted' = accepted + 1 /\ UNCHANGED countVars
    <3>1. count \in [Counters -> Values] /\ counted \in [Counters -> Nat]
      BY <1>1 DEF CaptureTypeOK
    <3> QED
      BY <1>1, <2>1, <3>1, Numbers DEF Same, countVars
  <2>2. CASE Inc("TX_DROPPED") /\ UNCHANGED accepted
    <3>1. /\ count' \in [Counters -> Values] /\ counted' \in [Counters -> Nat]
          /\ counted'["TX_DROPPED"] = counted["TX_DROPPED"] + 1
          /\ Same("RID_FRAMES") /\ Same("PACK_ERRORS") /\ Same("OBS_DROPPED")
      BY <1>1, <2>2, IncOne DEF Counters
    <3> QED
      BY <1>1, <2>2, <3>1, Numbers
  <2> QED
    BY <2>1, <2>2 DEF ForwardObs, Forwards
<1>6. CaptureTypeOK'
  BY <1>1, <1>2, <1>3, <1>4, <1>5, SMTT(30) DEF CaptureTypeOK
<1>7. /\ InObsTask(1) = 1 /\ InObsTask(2) = 0 /\ InObsTask(1)' = 0 /\ InObsTask(2)' = 1
      /\ InDriver' = InDriver
  BY <1>2, <1>3 DEF InObsTask, InDriver
<1>8. Balanced'
  BY <1>1, <1>2, <1>5, <1>7, Numbers, SMTT(30) DEF Same, CaptureInv, Balanced
<1>9. counted'["TX_DROPPED"] \in Nat
  BY <1>5 DEF Counters
<1>10. OfferedCounted'
  BY <1>1, <1>2, <1>5, <1>9, Numbers DEF CaptureInv, OfferedCounted
<1>11. Loading' /\ Reported'
  BY <1>2, <1>3 DEF CaptureInv, Loading, Reported
<1> QED
  BY <1>6, <1>8, <1>10, <1>11 DEF CaptureInv

LEMMA StepParse == CaptureInv /\ ParsePack => CaptureInv'
<1> SUFFICES ASSUME CaptureInv, ParsePack PROVE CaptureInv'
  OBVIOUS
<1>1. CaptureTypeOK
  BY DEF CaptureInv
<1>2. /\ UNCHANGED <<drv, OBS_CH, stamps, handed, accepted, handled, report, reports>>
      /\ exec' = Awaiting /\ exec.task = "obs" /\ exec.at = 2
  BY DEF ParsePack
<1>4. /\ updates' \in Nat /\ count' \in [Counters -> Values] /\ counted' \in [Counters -> Nat]
      /\ updates' + counted'["PACK_ERRORS"] = updates + counted["PACK_ERRORS"] + 1
      /\ Same("RID_FRAMES") /\ Same("OBS_DROPPED") /\ Same("TX_DROPPED")
  <2>1. CASE updates' = updates + 1 /\ UNCHANGED countVars
    <3>1. count \in [Counters -> Values] /\ counted \in [Counters -> Nat]
      BY <1>1 DEF CaptureTypeOK
    <3> QED
      BY <1>1, <2>1, <3>1, Numbers DEF Same, countVars
  <2>2. CASE Inc("PACK_ERRORS") /\ UNCHANGED updates
    <3>1. /\ count' \in [Counters -> Values] /\ counted' \in [Counters -> Nat]
          /\ counted'["PACK_ERRORS"] = counted["PACK_ERRORS"] + 1
          /\ Same("RID_FRAMES") /\ Same("OBS_DROPPED") /\ Same("TX_DROPPED")
      BY <1>1, <2>2, IncOne DEF Counters
    <3> QED
      BY <1>1, <2>2, <3>1, Numbers
  <2> QED
    BY <2>1, <2>2 DEF ParsePack
<1>5. CaptureTypeOK'
  BY <1>1, <1>2, <1>4, SpanFits DEF CaptureTypeOK, Awaiting, Idle, Observations
<1>6. /\ InObsTask(1) = 0 /\ InObsTask(2) = 1 /\ InObsTask(1)' = 0 /\ InObsTask(2)' = 0
      /\ InDriver' = InDriver
  BY <1>2 DEF InObsTask, InDriver, Awaiting
<1>7. counted'["PACK_ERRORS"] \in Nat
  BY <1>4 DEF Counters
<1>8. Balanced'
  BY <1>1, <1>2, <1>4, <1>6, <1>7, Numbers, SMTT(30) DEF Same, CaptureInv, Balanced
<1>9. OfferedCounted' /\ Loading' /\ Reported'
  BY <1>2, <1>4 DEF Same, CaptureInv, OfferedCounted, Loading, Reported, Awaiting
<1> QED
  BY <1>5, <1>8, <1>9 DEF CaptureInv

LEMMA StepStart == CaptureInv /\ StartReport => CaptureInv'
<1> SUFFICES ASSUME CaptureInv, StartReport PROVE CaptureInv'
  OBVIOUS
<1>1. CaptureTypeOK
  BY DEF CaptureInv
<1>2. /\ UNCHANGED <<drv, OBS_CH, count, counted, stamps, handed, accepted, handled, updates,
                     report, reports>>
      /\ exec.task = "none"
  BY DEF StartReport, countVars
<1>3. /\ exec' \in [task : {"none", "obs", "status"}, at : Nat, obs : Observations,
                    loaded : [Counters -> Values], counted : [Counters -> Nat]]
      /\ exec'.task = "status" /\ exec'.at = 1
  BY <1>1 DEF StartReport, CaptureTypeOK
<1>4. CaptureTypeOK'
  BY <1>1, <1>2, <1>3 DEF CaptureTypeOK
<1>5. \A n \in {1, 2} : InObsTask(n)' = InObsTask(n)
  BY <1>2, <1>3 DEF InObsTask
<1>6. Balanced' /\ OfferedCounted' /\ Loading' /\ Reported'
  BY <1>2, <1>3, <1>5
  DEF CaptureInv, Balanced, OfferedCounted, Loading, Reported, InDriver
<1> QED
  BY <1>4, <1>6 DEF CaptureInv

\* While status_task runs obs_task holds nothing, so what RID_FRAMES counts beyond
\* the accepted and the dropped is in OBS_CH or in the driver's hands.
LEMMA StepLoad == CaptureInv /\ LoadCounter => CaptureInv'
<1> SUFFICES ASSUME CaptureInv, LoadCounter PROVE CaptureInv'
  OBVIOUS
<1>1. CaptureTypeOK
  BY DEF CaptureInv
<1>2. /\ UNCHANGED <<drv, OBS_CH, count, counted, stamps, handed, accepted, handled, updates,
                     report, reports>>
      /\ exec.task = "status" /\ exec.at >= 1 /\ exec.at \in Nat /\ exec.at <= 7
  BY <1>1 DEF LoadCounter, ReportOrder, CaptureInv, Loading, CaptureTypeOK, countVars
<1>3. exec.at \in {1, 2, 3, 4, 5, 6, 7}
  BY <1>2
<1>4. ReportOrder[exec.at] \in Counters
  BY <1>3 DEF ReportOrder, Counters
<1>5. /\ exec' \in [task : {"none", "obs", "status"}, at : Nat, obs : Observations,
                    loaded : [Counters -> Values], counted : [Counters -> Nat]]
      /\ exec'.task = "status" /\ exec'.at = exec.at + 1
      /\ exec'.counted =
            [exec.counted EXCEPT ![ReportOrder[exec.at]] = counted[ReportOrder[exec.at]]]
  <2> DEFINE k == ReportOrder[exec.at]
             l == [exec.loaded EXCEPT ![k] = count[k]]
             h == [exec.counted EXCEPT ![k] = counted[k]]
  <2>1. exec' = [exec EXCEPT !.loaded = l, !.counted = h, !.at = @ + 1]
    BY DEF LoadCounter
  <2>2. /\ count \in [Counters -> Values] /\ counted \in [Counters -> Nat]
        /\ exec \in [task : {"none", "obs", "status"}, at : Nat, obs : Observations,
                     loaded : [Counters -> Values], counted : [Counters -> Nat]]
    BY <1>1 DEF CaptureTypeOK
  <2>3. l \in [Counters -> Values] /\ h \in [Counters -> Nat]
    BY <1>4, <2>2
  <2> HIDE DEF l, h
  <2>4. exec' = [task |-> exec.task, at |-> exec.at + 1, obs |-> exec.obs, loaded |-> l,
                 counted |-> h]
    BY <2>1, <2>2
  <2>5. /\ exec' \in [task : {"none", "obs", "status"}, at : Nat, obs : Observations,
                      loaded : [Counters -> Values], counted : [Counters -> Nat]]
        /\ exec'.task = "status" /\ exec'.at = exec.at + 1 /\ exec'.counted = h
    BY <1>2, <2>2, <2>3, <2>4
  <2> QED
    BY <2>5 DEF h
<1>6. CaptureTypeOK'
  BY <1>1, <1>2, <1>5 DEF CaptureTypeOK
<1>7. \A n \in {1, 2} : InObsTask(n)' = InObsTask(n) /\ InObsTask(n) = 0
  BY <1>2, <1>5 DEF InObsTask
<1>8. Balanced' /\ OfferedCounted' /\ Reported'
  BY <1>2, <1>7 DEF CaptureInv, Balanced, OfferedCounted, Reported, InDriver
<1>9. exec'.at > 3 => exec'.counted["RID_FRAMES"] <= accepted' + DropsSeen' + ObsCap + 1
  <2>1. /\ \A k \in Counters : exec'.counted[k] =
              IF k = ReportOrder[exec.at] THEN counted[k] ELSE exec.counted[k]
        /\ counted' = counted /\ accepted' = accepted
    BY <1>1, <1>2, <1>5, Numbers
  <2>2. CASE exec.at < 3
    BY <1>2, <1>5, <2>2
  <2>3. CASE exec.at = 3
    <3>1. /\ exec'.counted["RID_FRAMES"] = counted["RID_FRAMES"]
          /\ DropsSeen' = counted["OBS_DROPPED"] + counted["TX_DROPPED"]
      BY <1>5, <2>1, <2>3 DEF ReportOrder, Counters, DropsSeen
    <3>2. counted["RID_FRAMES"] <= handed + ObsCap + 1 + counted["OBS_DROPPED"]
      <4>1. counted["RID_FRAMES"] = handed + Len(OBS_CH) + InDriver + counted["OBS_DROPPED"]
        <5>1. InObsTask(1) = 0 /\ handed \in Nat
          BY <1>1, <1>7, Numbers
        <5> QED
          BY <5>1 DEF CaptureInv, Balanced
      <4>2. /\ counted["OBS_DROPPED"] \in Nat /\ handed \in Nat /\ ObsCap \in Nat
            /\ Len(OBS_CH) \in Nat /\ Len(OBS_CH) <= ObsCap
            /\ InDriver \in Nat /\ InDriver <= 1
        BY <1>1, Numbers, Places
      <4> QED
        BY <4>1, <4>2
    <3>3. handed <= accepted + counted["TX_DROPPED"]
      BY DEF CaptureInv, OfferedCounted
    <3>4. /\ counted["RID_FRAMES"] \in Nat /\ counted["OBS_DROPPED"] \in Nat
          /\ counted["TX_DROPPED"] \in Nat /\ handed \in Nat /\ accepted \in Nat
          /\ ObsCap \in Nat
      BY <1>1, Numbers, Places
    <3> QED
      BY <2>1, <3>1, <3>2, <3>3, <3>4
  <2>4. CASE exec.at \in {4, 5}
    <3>1. /\ exec'.counted["RID_FRAMES"] = exec.counted["RID_FRAMES"]
          /\ DropsSeen' = DropsSeen
      BY <1>5, <2>1, <2>4 DEF ReportOrder, Counters, DropsSeen
    <3> QED
      BY <1>2, <2>4, <2>1, <3>1 DEF CaptureInv, Loading
  <2>5. CASE exec.at = 6
    <3>1. /\ exec'.counted["RID_FRAMES"] = exec.counted["RID_FRAMES"]
          /\ DropsSeen' = DropsSeen
      BY <1>5, <2>1, <2>5 DEF ReportOrder, Counters, DropsSeen
    <3> QED
      BY <1>2, <2>5, <2>1, <3>1 DEF CaptureInv, Loading
  <2>6. CASE exec.at = 7
    <3>1. /\ exec'.counted["RID_FRAMES"] = exec.counted["RID_FRAMES"]
          /\ DropsSeen' = DropsSeen
      BY <1>5, <2>1, <2>6 DEF ReportOrder, Counters, DropsSeen
    <3> QED
      BY <1>2, <2>6, <2>1, <3>1 DEF CaptureInv, Loading
  <2> QED
    BY <1>3, <2>2, <2>3, <2>4, <2>5, <2>6
<1>10. Loading'
  BY <1>2, <1>5, <1>9 DEF Loading
<1> QED
  BY <1>6, <1>8, <1>10 DEF CaptureInv

LEMMA StepSend == CaptureInv /\ SendStatus => CaptureInv'
<1> SUFFICES ASSUME CaptureInv, SendStatus PROVE CaptureInv'
  OBVIOUS
<1>1. CaptureTypeOK
  BY DEF CaptureInv
<1>2. /\ UNCHANGED <<drv, OBS_CH, stamps, handed, accepted, handled, updates>>
      /\ exec.task = "status" /\ exec.at = 8 /\ reports' \in Nat
  BY <1>1 DEF SendStatus, ReportOrder, CaptureTypeOK
<1>3. /\ exec' \in [task : {"none", "obs", "status"}, at : Nat, obs : Observations,
                    loaded : [Counters -> Values], counted : [Counters -> Nat]]
      /\ exec'.task \in {"none", "status"}
      /\ exec'.task = "status" => exec'.at = 9 /\ exec'.counted = exec.counted
  <2>1. CASE exec' = Awaiting
    BY <2>1, SpanFits DEF Awaiting, Idle, Observations
  <2>2. CASE Continue(exec.at + 1)
    <3>1. exec \in [task : {"none", "obs", "status"}, at : Nat, obs : Observations,
                    loaded : [Counters -> Values], counted : [Counters -> Nat]]
      BY <1>1 DEF CaptureTypeOK
    <3>2. exec' = [exec EXCEPT !.at = 9]
      BY <1>2, <2>2 DEF Continue
    <3> QED
      BY <1>2, <3>1, <3>2
  <2> QED
    BY <2>1, <2>2 DEF SendStatus
<1>4. /\ count' \in [Counters -> Values] /\ counted' \in [Counters -> Nat]
      /\ counted'["TX_DROPPED"] >= counted["TX_DROPPED"]
      /\ Same("RID_FRAMES") /\ Same("PACK_ERRORS") /\ Same("OBS_DROPPED")
      /\ \/ UNCHANGED report
         \/ report' = [counters |-> exec.loaded, counted |-> exec.counted,
                       accepted |-> accepted]
  <2>1. CASE report' = [counters |-> exec.loaded, counted |-> exec.counted,
                       accepted |-> accepted] /\ UNCHANGED countVars
    <3>1. count \in [Counters -> Values] /\ counted \in [Counters -> Nat]
      BY <1>1 DEF CaptureTypeOK
    <3> QED
      BY <1>1, <2>1, <3>1, Numbers DEF Same, countVars
  <2>2. CASE Inc("TX_DROPPED") /\ UNCHANGED report
    <3>1. /\ count' \in [Counters -> Values] /\ counted' \in [Counters -> Nat]
          /\ counted'["TX_DROPPED"] = counted["TX_DROPPED"] + 1
          /\ Same("RID_FRAMES") /\ Same("PACK_ERRORS") /\ Same("OBS_DROPPED")
      BY <1>1, <2>2, IncOne DEF Counters
    <3> QED
      BY <1>1, <2>2, <3>1, Numbers
  <2> QED
    BY <2>1, <2>2 DEF SendStatus
<1>5. CaptureTypeOK'
  <2>1. report' \in [counters : [Counters -> Values], counted : [Counters -> Nat],
                   accepted : Nat]
    BY <1>1, <1>4 DEF CaptureTypeOK
  <2> QED
    BY <1>1, <1>2, <1>3, <1>4, <2>1 DEF CaptureTypeOK
<1>6. \A n \in {1, 2} : InObsTask(n)' = InObsTask(n)
  BY <1>2, <1>3 DEF InObsTask
<1>7. Balanced'
  BY <1>2, <1>4, <1>6 DEF Same, CaptureInv, Balanced, InDriver
<1>8. counted'["TX_DROPPED"] \in Nat
  BY <1>4 DEF Counters
<1>9. OfferedCounted'
  BY <1>1, <1>2, <1>4, <1>8, Numbers DEF CaptureInv, OfferedCounted
<1>10. exec.counted["RID_FRAMES"] <=
           accepted + exec.counted["OBS_DROPPED"] + exec.counted["TX_DROPPED"] + ObsCap + 1
  <2>1. exec.counted["RID_FRAMES"] <= accepted + DropsSeen + ObsCap + 1
    BY <1>2 DEF CaptureInv, Loading
  <2>2. DropsSeen = exec.counted["OBS_DROPPED"] + exec.counted["TX_DROPPED"]
    BY <1>2 DEF DropsSeen
  <2>3. /\ exec.counted["OBS_DROPPED"] \in Nat /\ exec.counted["TX_DROPPED"] \in Nat
        /\ accepted \in Nat /\ ObsCap \in Nat
    BY <1>1, Numbers, LoadedNumbers, Places
  <2> QED
    BY <2>1, <2>2, <2>3
<1>11. Reported'
  BY <1>2, <1>4, <1>10 DEF CaptureInv, Reported
<1>12. Loading'
  <2>1. CASE exec'.task = "status"
    <3>1. /\ exec'.at = 9 /\ exec'.counted = exec.counted /\ accepted' = accepted
          /\ DropsSeen' = exec.counted["OBS_DROPPED"] + exec.counted["TX_DROPPED"]
      BY <1>2, <1>3, <2>1 DEF DropsSeen
    <3>2. /\ exec.counted["OBS_DROPPED"] \in Nat /\ exec.counted["TX_DROPPED"] \in Nat
          /\ accepted \in Nat /\ ObsCap \in Nat
      BY <1>1, Numbers, LoadedNumbers, Places
    <3> QED
      BY <1>10, <3>1, <3>2 DEF Loading
  <2> QED
    BY <2>1 DEF Loading
<1> QED
  BY <1>5, <1>7, <1>9, <1>11, <1>12 DEF CaptureInv

LEMMA StepHello == CaptureInv /\ SendHello => CaptureInv'
<1> SUFFICES ASSUME CaptureInv, SendHello PROVE CaptureInv'
  OBVIOUS
<1>1. CaptureTypeOK
  BY DEF CaptureInv
<1>2. /\ UNCHANGED <<drv, OBS_CH, stamps, handed, accepted, handled, updates, report, reports>>
      /\ exec.task = "status" /\ exec' = Awaiting
  BY DEF SendHello
<1>3. /\ count' \in [Counters -> Values] /\ counted' \in [Counters -> Nat]
      /\ counted'["TX_DROPPED"] >= counted["TX_DROPPED"]
      /\ Same("RID_FRAMES") /\ Same("PACK_ERRORS") /\ Same("OBS_DROPPED")
  <2>1. CASE UNCHANGED countVars
    <3>1. count \in [Counters -> Values] /\ counted \in [Counters -> Nat]
      BY <1>1 DEF CaptureTypeOK
    <3> QED
      BY <1>1, <2>1, <3>1, Numbers DEF Same, countVars
  <2>2. CASE Inc("TX_DROPPED")
    <3>1. /\ count' \in [Counters -> Values] /\ counted' \in [Counters -> Nat]
          /\ counted'["TX_DROPPED"] = counted["TX_DROPPED"] + 1
          /\ Same("RID_FRAMES") /\ Same("PACK_ERRORS") /\ Same("OBS_DROPPED")
      BY <1>1, <2>2, IncOne DEF Counters
    <3> QED
      BY <1>1, <3>1, Numbers
  <2> QED
    BY <2>1, <2>2 DEF SendHello
<1>4. CaptureTypeOK'
  BY <1>1, <1>2, <1>3, SpanFits DEF CaptureTypeOK, Awaiting, Idle, Observations
<1>5. \A n \in {1, 2} : InObsTask(n)' = InObsTask(n)
  BY <1>2 DEF InObsTask, Awaiting
<1>6. Balanced'
  BY <1>2, <1>3, <1>5 DEF Same, CaptureInv, Balanced, InDriver
<1>7. counted'["TX_DROPPED"] \in Nat
  BY <1>3 DEF Counters
<1>8. OfferedCounted'
  BY <1>1, <1>2, <1>3, <1>7, Numbers DEF CaptureInv, OfferedCounted
<1>9. Loading' /\ Reported'
  BY <1>2 DEF CaptureInv, Loading, Reported, Awaiting
<1> QED
  BY <1>4, <1>6, <1>8, <1>9 DEF CaptureInv

LEMMA CaptureInvStep == CaptureInv /\ [Next]_vars => CaptureInv'
<1>1. CaptureInv /\ UNCHANGED vars => CaptureInv'
  BY DEF vars, CaptureInv, CaptureTypeOK, Balanced, OfferedCounted, Loading, DropsSeen,
         Reported, InDriver, InObsTask
<1> QED
  BY <1>1, StepFrame, StepRid, StepFill, StepTrySend, StepDrop, StepReceive, StepForward,
     StepParse, StepStart, StepLoad, StepSend, StepHello
  DEF Next, Sniffer, ObsTask, StatusTask

-----------------------------------------------------------------------------
(* Capture: counters that wrap *)

\* Division by the width of a counter.
LEMMA Division ==
  \A n \in Int : /\ n \div CountSpan \in Int /\ n % CountSpan \in Values
                /\ n = CountSpan * (n \div CountSpan) + (n % CountSpan)
<1>1. CountSpan \in Nat /\ CountSpan > 0
  BY SpanFits
<1> QED
  BY <1>1 DEF Values

\* The remainder is the only number in its range from which a multiple of CountSpan
\* leads to n.
LEMMA OneRemainder ==
  ASSUME NEW n \in Int, NEW q \in Int, NEW r \in Values, n = CountSpan * q + r
  PROVE  n % CountSpan = r
<1> DEFINE p == n \div CountSpan
           s == n % CountSpan
<1>1. CountSpan \in Nat /\ CountSpan > 0
  BY SpanFits
<1>2. p \in Int /\ s \in Values /\ n = CountSpan * p + s
  BY Division
<1>3. s \in 0..(CountSpan - 1)
  BY <1>2 DEF Values
<1> HIDE DEF p, s
<1> DEFINE d == p - q
<1>4. d \in Int /\ p = q + d
  BY <1>2
<1> HIDE DEF d
<1>5. CountSpan * p = CountSpan * q + CountSpan * d
  BY <1>1, <1>4
<1>6. d = 0
  <2>1. CASE d >= 1
    <3>1. CountSpan * d >= CountSpan
      BY <1>1, <1>4, <2>1
    <3> DEFINE x == CountSpan * q
               y == CountSpan * d
    <3>2. x \in Int /\ y \in Int /\ x + r = x + y + s /\ y >= CountSpan
      BY <1>1, <1>2, <1>4, <1>5, <3>1
    <3> HIDE DEF x, y
    <3> QED
      BY <1>1, <1>3, <3>2 DEF Values
  <2>2. CASE d <= -1
    <3>1. CountSpan * d <= -CountSpan
      BY <1>1, <1>4, <2>2
    <3> DEFINE x == CountSpan * q
               y == CountSpan * d
    <3>2. x \in Int /\ y \in Int /\ x + r = x + y + s /\ y <= -CountSpan
      BY <1>1, <1>2, <1>4, <1>5, <3>1
    <3> HIDE DEF x, y
    <3> QED
      BY <1>1, <1>3, <3>2 DEF Values
  <2> QED
    BY <1>4, <2>1, <2>2
<1>7. n = CountSpan * q + s
  BY <1>2, <1>4, <1>6
<1> DEFINE x == CountSpan * q
<1>8. x \in Int /\ n = x + r /\ n = x + s
  BY <1>1, <1>7
<1> HIDE DEF x
<1>9. r = s
  BY <1>2, <1>8 DEF Values
<1> QED
  BY <1>9 DEF s

\* Every number is a value of a counter and so many turns of it.
LEMMA Turns ==
  ASSUME NEW n \in Int
  PROVE  n % CountSpan \in Values /\ \E q \in Int : n = CountSpan * q + (n % CountSpan)
<1> DEFINE q == n \div CountSpan
<1>1. q \in Int /\ n % CountSpan \in Values /\ n = CountSpan * q + (n % CountSpan)
  BY Division
<1> HIDE DEF q
<1> QED
  BY <1>1

\* Turns of a counter make no difference.
LEMMA TurnsDropped ==
  ASSUME NEW n \in Int, NEW q \in Int
  PROVE  Congruent(n + CountSpan * q, n)
<1>1. PICK p \in Int : n = CountSpan * p + (n % CountSpan)
  BY Turns
<1> DEFINE r == n % CountSpan
<1>2. r \in Values /\ r \in Int /\ CountSpan \in Int
  BY Turns, SpanFits DEF Values
<1>3. n = CountSpan * p + r
  BY <1>1
<1> HIDE DEF r
<1>4. CountSpan * (p + q) = CountSpan * p + CountSpan * q
  BY <1>2
<1>5. n + CountSpan * q = CountSpan * (p + q) + r
  <2> DEFINE x == CountSpan * p
             y == CountSpan * q
  <2>1. x \in Int /\ y \in Int /\ n = x + r /\ CountSpan * (p + q) = x + y
    BY <1>2, <1>3, <1>4
  <2> HIDE DEF x, y
  <2>2. n + y = CountSpan * (p + q) + r
    BY <1>2, <2>1
  <2> QED
    BY <2>2 DEF y
<1>6. (n + CountSpan * q) % CountSpan = r
  <2>1. n + CountSpan * q \in Int /\ p + q \in Int
    BY <1>2
  <2> QED
    BY <1>2, <1>5, <2>1, OneRemainder
<1> QED
  BY <1>6 DEF r, Congruent

LEMMA WrapInit == Init => CountsWrap
<1>1. 0 % CountSpan = 0
  BY SpanFits
<1> QED
  BY <1>1 DEF Init, CountsWrap, Wraps, Zeros, Awaiting

\* A step counts one counter up or leaves all alone.
LEMMA CountsOneOrNone ==
  [Next]_vars => UNCHANGED countVars \/ \E k \in Counters : Inc(k)
<1> SUFFICES ASSUME [Next]_vars PROVE UNCHANGED countVars \/ \E k \in Counters : Inc(k)
  OBVIOUS
<1>1. CASE UNCHANGED vars
  BY <1>1 DEF vars, countVars
<1>2. CASE Sniffer
  BY <1>2
  DEF Sniffer, FrameReceived, CountBeacon, CountMalformed, CountRid, Fill, TrySend, Drop,
      CountDropped, Counters
<1>3. CASE ObsTask
  BY <1>3 DEF ObsTask, ReceiveObs, ForwardObs, Forwards, ParsePack, Counters
<1>4. CASE StatusTask
  BY <1>4 DEF StatusTask, StartReport, LoadCounter, SendStatus, SendHello, Counters
<1> QED
  BY <1>1, <1>2, <1>3, <1>4 DEF Next

LEMMA WrapCount ==
  ASSUME CaptureTypeOK, CountsWrap, [Next]_vars
  PROVE  Wraps(count, counted)'
<1>1. CASE UNCHANGED countVars
  BY <1>1 DEF countVars, CountsWrap, Wraps
<1>2. ASSUME NEW k \in Counters, Inc(k)
      PROVE  Wraps(count, counted)'
  <2>1. /\ counted \in [Counters -> Nat] /\ count \in [Counters -> Values]
        /\ count[k] = counted[k] % CountSpan
    BY DEF CaptureTypeOK, CountsWrap, Wraps
  <2>2. (count[k] + 1) % CountSpan = (counted[k] + 1) % CountSpan
    <3> DEFINE n == counted[k]
               r == count[k]
    <3>1. n \in Int /\ r \in Int /\ CountSpan \in Int
      BY <2>1, SpanFits DEF Values
    <3>2. PICK q \in Int : n = CountSpan * q + r
      BY <2>1, <3>1, Turns
    <3> HIDE DEF n, r
    <3>3. n + 1 = (r + 1) + CountSpan * q
      <4> DEFINE x == CountSpan * q
      <4>1. x \in Int /\ n = x + r
        BY <3>1, <3>2
      <4> HIDE DEF x
      <4>2. n + 1 = (r + 1) + x
        BY <3>1, <4>1
      <4> QED
        BY <4>2 DEF x
    <3>4. r + 1 \in Int
      BY <3>1
    <3>5. Congruent(n + 1, r + 1)
      BY <3>3, <3>4, TurnsDropped
    <3> QED
      BY <3>5 DEF n, r, Congruent
  <2> QED
    BY <1>2, <2>1, <2>2 DEF Inc, CountsWrap, Wraps
<1> QED
  BY <1>1, <1>2, CountsOneOrNone

\* A counter is loaded with its history, reported with it, or both are cleared.
LEMMA WrapLoaded ==
  ASSUME CaptureTypeOK, CountsWrap, [Next]_vars
  PROVE  /\ Wraps(exec.loaded, exec.counted)'
         /\ Wraps(report.counters, report.counted)'
<1>1. exec \in [task : {"none", "obs", "status"}, at : Nat, obs : Observations,
                loaded : [Counters -> Values], counted : [Counters -> Nat]]
  BY DEF CaptureTypeOK
<1>2. Wraps(Zeros, Zeros)
  <2>1. 0 % CountSpan = 0
    BY SpanFits
  <2> QED
    BY <2>1 DEF Wraps, Zeros
<1>3. CASE exec' = Awaiting /\ UNCHANGED report
  BY <1>2, <1>3 DEF CountsWrap, Wraps, Awaiting
<1>4. CASE /\ exec'.loaded = exec.loaded /\ exec'.counted = exec.counted
           /\ UNCHANGED report
  BY <1>4 DEF CountsWrap, Wraps
<1>5. CASE LoadCounter
  <2> DEFINE k == ReportOrder[exec.at]
             l == [exec.loaded EXCEPT ![k] = count[k]]
             h == [exec.counted EXCEPT ![k] = counted[k]]
  <2>1. exec' = [exec EXCEPT !.loaded = l, !.counted = h, !.at = @ + 1] /\ UNCHANGED report
    BY <1>5 DEF LoadCounter
  <2>2. Wraps(l, h)
    BY <1>1 DEF CountsWrap, Wraps
  <2> HIDE DEF l, h
  <2>3. exec'.loaded = l /\ exec'.counted = h
    BY <1>1, <2>1
  <2> QED
    BY <2>1, <2>2, <2>3 DEF CountsWrap, Wraps
<1>6. CASE SendStatus
  <2>1. \/ exec'.loaded = exec.loaded /\ exec'.counted = exec.counted
        \/ exec' = Awaiting
    BY <1>1, <1>6 DEF SendStatus, Continue
  <2>2. \/ UNCHANGED report
        \/ report'.counters = exec.loaded /\ report'.counted = exec.counted
    BY <1>6 DEF SendStatus
  <2> QED
    BY <1>2, <2>1, <2>2 DEF CountsWrap, Wraps, Awaiting
<1>7. CASE UNCHANGED vars \/ Sniffer
  BY <1>4, <1>7
  DEF vars, Sniffer, FrameReceived, CountBeacon, CountMalformed, CountRid, Fill, TrySend,
      Drop, executorVars
<1>8. CASE ParsePack \/ SendHello
  BY <1>3, <1>8 DEF ParsePack, SendHello
<1>9. CASE ReceiveObs \/ ForwardObs \/ StartReport
  BY <1>1, <1>4, <1>9 DEF ReceiveObs, ForwardObs, Continue, StartReport
<1> QED
  BY <1>5, <1>6, <1>7, <1>8, <1>9 DEF Next, ObsTask, StatusTask

LEMMA CaptureAlways == Spec => [](CaptureInv /\ CountsWrap)
<1>1. CaptureInv => CaptureTypeOK
  BY DEF CaptureInv
<1>2. CaptureInv /\ CountsWrap /\ [Next]_vars => CountsWrap'
  BY <1>1, WrapCount, WrapLoaded DEF CountsWrap
<1> QED
  BY <1>2, CaptureInvInit, CaptureInvStep, WrapInit, PTL DEF Spec

-----------------------------------------------------------------------------

\* OBS_CH never holds more than its capacity, and every variable keeps its type.
THEOREM CaptureTyped == Spec => []CaptureTypeOK
<1>1. CaptureInv => CaptureTypeOK
  BY DEF CaptureInv
<1> QED
  BY CaptureAlways, <1>1, PTL

\* A counter and its history are the same in a sum.
LEMMA SumWraps ==
  ASSUME NEW n \in Int, NEW c \in Nat, NEW w, w = c % CountSpan
  PROVE  Congruent(n + w, n + c)
<1>1. PICK q \in Int : c = CountSpan * q + w
  BY Turns
<1>2. w \in Int /\ CountSpan \in Int
  BY Turns, SpanFits DEF Values
<1>3. n + c = (n + w) + CountSpan * q
  <2> DEFINE x == CountSpan * q
  <2>1. x \in Int /\ c = x + w
    BY <1>1, <1>2
  <2> HIDE DEF x
  <2>2. n + c = (n + w) + x
    BY <1>2, <2>1
  <2> QED
    BY <2>2 DEF x
<1>4. n + w \in Int
  BY <1>2
<1>5. Congruent(n + c, n + w)
  BY <1>3, <1>4, TurnsDropped
<1> QED
  BY <1>5 DEF Congruent

\* No observation is lost without being counted, and none is counted twice, however
\* often the counters have wrapped.
THEOREM CaptureConserves == Spec => []ObsConserved
<1>1. CaptureInv /\ CountsWrap => ObsConserved
  <2> SUFFICES ASSUME CaptureInv, CountsWrap PROVE ObsConserved
    OBVIOUS
  <2>1. /\ count["RID_FRAMES"] = counted["RID_FRAMES"] % CountSpan
        /\ count["OBS_DROPPED"] = counted["OBS_DROPPED"] % CountSpan
        /\ count["PACK_ERRORS"] = counted["PACK_ERRORS"] % CountSpan
    BY DEF CountsWrap, Wraps, Counters
  <2>2. /\ counted["RID_FRAMES"] \in Nat /\ counted["OBS_DROPPED"] \in Nat
        /\ counted["PACK_ERRORS"] \in Nat /\ handed \in Nat /\ updates \in Nat
        /\ Len(OBS_CH) \in Nat
        /\ InDriver \in {0, 1} /\ InObsTask(1) \in {0, 1} /\ InObsTask(2) \in {0, 1}
    BY Numbers, Places DEF CaptureInv
  <2> DEFINE n == handed + InObsTask(1) + Len(OBS_CH) + InDriver
             m == updates + InObsTask(2)
  <2>3. n \in Int /\ m \in Int
    BY <2>2
  <2>4. Congruent(n + count["OBS_DROPPED"], n + counted["OBS_DROPPED"])
    BY <2>1, <2>2, <2>3, SumWraps
  <2>5. Congruent(m + count["PACK_ERRORS"], m + counted["PACK_ERRORS"])
    BY <2>1, <2>2, <2>3, SumWraps
  <2>6. Congruent(0 + count["RID_FRAMES"], 0 + counted["RID_FRAMES"])
    <3>1. 0 \in Int
      OBVIOUS
    <3> HIDE DEF n, m
    <3> QED
      BY <2>1, <2>2, <3>1, SumWraps
  <2>7. /\ count["RID_FRAMES"] \in Int /\ 0 + count["RID_FRAMES"] = count["RID_FRAMES"]
        /\ count["PACK_ERRORS"] \in Int
    <3>1. count["RID_FRAMES"] \in Values /\ count["PACK_ERRORS"] \in Values
      BY DEF CaptureInv, CaptureTypeOK, Counters
    <3>2. \A v \in Values : v \in Int /\ 0 + v = v
      BY SpanFits DEF Values
    <3> QED
      BY <3>1, <3>2
  <2>8. counted["RID_FRAMES"] = n + counted["OBS_DROPPED"]
    BY DEF CaptureInv, Balanced
  <2>9. handed = m + counted["PACK_ERRORS"]
    <3>1. handed = updates + counted["PACK_ERRORS"] + InObsTask(2)
      BY DEF CaptureInv, Balanced
    <3>2. InObsTask(2) \in Int
      BY <2>2
    <3> QED
      BY <2>2, <3>1, <3>2
  <2>10. m + count["PACK_ERRORS"] = updates + count["PACK_ERRORS"] + InObsTask(2)
    BY <2>2, <2>7
  <2>11. 0 + counted["RID_FRAMES"] = counted["RID_FRAMES"]
    BY <2>2
  <2>12. Congruent(count["RID_FRAMES"], n + count["OBS_DROPPED"])
    BY <2>4, <2>6, <2>7, <2>8, <2>11 DEF Congruent
  <2>13. Congruent(handed, updates + count["PACK_ERRORS"] + InObsTask(2))
    BY <2>5, <2>9, <2>10 DEF Congruent
  <2> QED
    BY <2>12, <2>13 DEF ObsConserved
<1> QED
  BY CaptureAlways, <1>1, PTL

\* A number in the signed range is read off any difference that is equal to it but
\* for turns of a counter.
LEMMA SignedReads ==
  ASSUME NEW d \in Int, NEW n \in Int, Congruent(d, n), -HalfSpan <= n, n < HalfSpan
  PROVE  Signed(d) = n
<1>1. /\ CountSpan \in Nat /\ HalfSpan \in Nat /\ 2 * HalfSpan <= CountSpan
      /\ CountSpan > 0
  BY SpanFits
<1>2. CASE n >= 0
  <2>1. n \in Values /\ n = CountSpan * 0 + n
    BY <1>1, <1>2 DEF Values
  <2>2. n % CountSpan = n
    BY <2>1, OneRemainder
  <2> QED
    BY <2>2 DEF Signed, Congruent
<1>3. CASE n < 0
  <2>1. n + CountSpan \in Values /\ n = CountSpan * (-1) + (n + CountSpan) /\ -1 \in Int
    BY <1>1, <1>3 DEF Values
  <2>2. n % CountSpan = n + CountSpan
    BY <2>1, OneRemainder
  <2>3. ~(n + CountSpan < HalfSpan) /\ (n + CountSpan) - CountSpan = n
    BY <1>1
  <2> QED
    BY <2>2, <2>3 DEF Signed, Congruent
<1> QED
  BY <1>2, <1>3

\* A STATUS accounts for all Remote ID frames but those in OBS_CH and one more, and
\* the host can read that from counters that have wrapped.
THEOREM CaptureReports == Spec => []LossesReported
<1>1. CaptureInv /\ CountsWrap => LossesReported
  <2> SUFFICES ASSUME CaptureInv, CountsWrap PROVE LossesReported
    OBVIOUS
  <2> DEFINE rid == report.counted["RID_FRAMES"]
             obs == report.counted["OBS_DROPPED"]
             tx == report.counted["TX_DROPPED"]
             got == report.accepted
             missing == rid - got - obs - tx
             read == Missing(report.counters, got)
  <2>1. rid \in Nat /\ obs \in Nat /\ tx \in Nat /\ got \in Nat
    BY DEF CaptureInv, CaptureTypeOK, Counters
  <2>2. /\ report.counters["RID_FRAMES"] = rid % CountSpan
        /\ report.counters["OBS_DROPPED"] = obs % CountSpan
        /\ report.counters["TX_DROPPED"] = tx % CountSpan
    BY DEF CountsWrap, Wraps, Counters
  <2>3. rid <= got + obs + tx + ObsCap + 1
    BY DEF CaptureInv, Reported
  <2>4. read = (rid % CountSpan) - got - (obs % CountSpan) - (tx % CountSpan)
    BY <2>2 DEF Missing
  <2>5. Missing(report.counted, got) = missing
    BY DEF Missing
  <2> HIDE DEF rid, obs, tx, got, read
  <2>6. ObsCap \in Nat /\ ObsCap + 1 < HalfSpan /\ HalfSpan \in Nat /\ CountSpan \in Nat
    BY SpanFits, CaptureAssumption
  <2>7. missing \in Int /\ missing <= ObsCap + 1
    BY <2>1, <2>3, <2>6
  <2>8. Congruent(read, missing) /\ read \in Int
    <3>1. PICK p \in Int : rid = CountSpan * p + (rid % CountSpan)
      BY <2>1, Turns
    <3>2. PICK q \in Int : obs = CountSpan * q + (obs % CountSpan)
      BY <2>1, Turns
    <3>3. PICK s \in Int : tx = CountSpan * s + (tx % CountSpan)
      BY <2>1, Turns
    <3> DEFINE w1 == rid % CountSpan
               w2 == obs % CountSpan
               w3 == tx % CountSpan
    <3>4. w1 \in Int /\ w2 \in Int /\ w3 \in Int
      BY <2>1, Turns DEF Values
    <3>5. read = w1 - got - w2 - w3 /\ rid = CountSpan * p + w1
          /\ obs = CountSpan * q + w2 /\ tx = CountSpan * s + w3
      BY <2>4, <3>1, <3>2, <3>3
    <3> HIDE DEF w1, w2, w3
    <3>6. CountSpan * (p - q - s) = CountSpan * p - CountSpan * q - CountSpan * s
      BY <2>6
    <3> DEFINE x == CountSpan * p
               y == CountSpan * q
               z == CountSpan * s
               t == p - q - s
    <3>7. x \in Int /\ y \in Int /\ z \in Int /\ t \in Int /\ CountSpan * t = x - y - z
      BY <2>6, <3>6
    <3>8. rid = x + w1 /\ obs = y + w2 /\ tx = z + w3
      BY <3>5
    <3> HIDE DEF x, y, z, t
    <3>9. read \in Int /\ missing = read + CountSpan * t
      BY <2>1, <3>4, <3>5, <3>7, <3>8
    <3>10. Congruent(missing, read)
      BY <3>7, <3>9, TurnsDropped
    <3> QED
      BY <3>9, <3>10 DEF Congruent
  <2> HIDE DEF missing
  <2>9. missing >= -HalfSpan => Signed(read) = missing
    <3> SUFFICES ASSUME missing >= -HalfSpan PROVE Signed(read) = missing
      OBVIOUS
    <3>1. -HalfSpan <= missing /\ missing < HalfSpan
      BY <2>6, <2>7
    <3> QED
      BY <2>7, <2>8, <3>1, SignedReads
  <2> QED
    BY <2>5, <2>7, <2>9 DEF LossesReported, got, read
<1> QED
  BY CaptureAlways, <1>1, PTL
-----------------------------------------------------------------------------
(* Capture: the order of the stamps *)

\* The driver holds the newest stamp; obs_task holds one it has not yet handed over.
DriverHolds == drv.at \in {"put", "full"}
TaskHolds == exec.task = "obs" /\ exec.at = 1

Ahead(t) == handled < t /\ t <= stamps

\* From what was handed over last, through obs_task's hands and OBS_CH to the
\* driver's, the stamps ascend.
InOrder ==
    /\ handled <= stamps
    /\ \A i \in 1..Len(OBS_CH) : Ahead(OBS_CH[i].t)
    /\ \A i, j \in 1..Len(OBS_CH) : i < j => OBS_CH[i].t < OBS_CH[j].t
    /\ DriverHolds =>
          /\ drv.obs.t = stamps /\ handled < stamps
          /\ \A i \in 1..Len(OBS_CH) : OBS_CH[i].t < stamps
    /\ TaskHolds =>
          /\ Ahead(exec.obs.t)
          /\ \A i \in 1..Len(OBS_CH) : exec.obs.t < OBS_CH[i].t
          /\ DriverHolds => exec.obs.t < stamps
    /\ exec.task = "obs" /\ exec.at = 2 => handled = exec.obs.t /\ handled > 0

LEMMA InOrderInit == Init => InOrder
BY DEF Init, InOrder, DriverHolds, TaskHolds, Idle, Awaiting

\* The steps that neither take, move nor hand over an observation.
LEMMA OrderUntouched ==
  ASSUME InOrder, UNCHANGED <<OBS_CH, stamps, handled>>,
         DriverHolds' => DriverHolds /\ drv'.obs = drv.obs,
         exec'.task = "obs" => exec' = exec
  PROVE  InOrder'
BY DEF InOrder, Ahead, DriverHolds, TaskHolds

LEMMA OrderDriver ==
  ASSUME CaptureTypeOK, InOrder,
         FrameReceived \/ CountBeacon \/ CountMalformed \/ CountRid \/ Drop
  PROVE  InOrder'
<1>1. UNCHANGED <<OBS_CH, stamps, handled, exec>>
  BY DEF FrameReceived, CountBeacon, CountMalformed, CountRid, Drop, executorVars
<1>2. ~DriverHolds'
  <2>1. CASE Drop
    BY <2>1 DEF Drop, Idle, DriverHolds
  <2>2. CASE FrameReceived \/ CountBeacon \/ CountMalformed \/ CountRid
    <3>1. \E p \in {"idle", "beacon", "malformed", "rid", "fill"} : Goes(p)
      BY <2>2 DEF FrameReceived, CountBeacon, CountMalformed, CountRid
    <3> QED
      BY <3>1, GoesTo DEF DriverHolds, DrvPoints
  <2> QED
    BY <2>1, <2>2
<1> QED
  BY <1>1, <1>2, OrderUntouched

LEMMA OrderFill == ASSUME CaptureTypeOK, InOrder, Fill PROVE InOrder'
<1>1. UNCHANGED <<OBS_CH, exec, handled>> /\ stamps' = stamps + 1
  BY DEF Fill, executorVars
<1>2. drv'.at = "put" /\ drv'.obs.t = stamps + 1
  BY DEF Fill
<1>3. stamps \in Nat /\ handled \in Nat /\ exec.obs.t \in Nat
  BY DEF CaptureTypeOK, Observations
<1>4. \A i \in 1..Len(OBS_CH) : OBS_CH[i].t \in Nat
  <2>1. OBS_CH \in Seq(Observations)
    BY DEF CaptureTypeOK
  <2>2. \A i \in 1..Len(OBS_CH) : OBS_CH[i] \in Observations
    BY <2>1
  <2> QED
    BY <2>2 DEF Observations
<1> QED
  BY <1>1, <1>2, <1>3, <1>4, SMTT(30) DEF InOrder, Ahead, DriverHolds, TaskHolds

LEMMA OrderTrySend == ASSUME CaptureTypeOK, InOrder, TrySend PROVE InOrder'
<1>1. UNCHANGED <<stamps, exec, handled>> /\ DriverHolds
  BY DEF TrySend, executorVars, DriverHolds
<1>2. CASE HasRoom
  <2>1. OBS_CH' = Append(OBS_CH, drv.obs) /\ drv' = Idle
    BY <1>2 DEF TrySend, Put
  <2>2. /\ Len(OBS_CH) \in Nat /\ Len(OBS_CH') = Len(OBS_CH) + 1
        /\ \A i \in 1..Len(OBS_CH') :
              OBS_CH'[i] = IF i <= Len(OBS_CH) THEN OBS_CH[i] ELSE drv.obs
    BY <2>1 DEF CaptureTypeOK
  <2>3. \A i \in 1..Len(OBS_CH') : i \in 1..Len(OBS_CH) \/ i = Len(OBS_CH) + 1
    BY <2>2
  <2>4. ~DriverHolds'
    BY <2>1 DEF DriverHolds, Idle
  <2>5. drv.obs.t = stamps /\ handled < stamps
    BY <1>1 DEF InOrder
  <2>6. /\ (\A i \in 1..Len(OBS_CH) : Ahead(OBS_CH[i].t))'
        /\ \A i, j \in 1..Len(OBS_CH') : i < j => OBS_CH'[i].t < OBS_CH'[j].t
    <3>1. stamps <= stamps
      BY DEF CaptureTypeOK
    <3>2. (\A i \in 1..Len(OBS_CH) : Ahead(OBS_CH[i].t))'
      BY <1>1, <2>2, <2>3, <2>5, <3>1 DEF InOrder, Ahead
    <3>3. ASSUME NEW i \in 1..Len(OBS_CH'), NEW j \in 1..Len(OBS_CH'), i < j
          PROVE  OBS_CH'[i].t < OBS_CH'[j].t
      <4>1. i \in 1..Len(OBS_CH)
        BY <2>2, <3>3
      <4>2. CASE j \in 1..Len(OBS_CH)
        BY <2>2, <3>3, <4>1, <4>2 DEF InOrder
      <4>3. CASE j = Len(OBS_CH) + 1
        BY <1>1, <2>2, <2>5, <4>1, <4>3 DEF InOrder
      <4> QED
        BY <2>3, <4>2, <4>3
    <3> QED
      BY <3>2, <3>3
  <2>7. TaskHolds' => \A i \in 1..Len(OBS_CH') : exec'.obs.t < OBS_CH'[i].t
    BY <1>1, <2>2, <2>3, <2>5 DEF InOrder, TaskHolds
  <2> QED
    BY <1>1, <2>4, <2>6, <2>7 DEF InOrder, Ahead, TaskHolds
<1>3. CASE ~HasRoom
  <2>1. UNCHANGED OBS_CH /\ drv' = [drv EXCEPT !.at = "full"]
    BY <1>3 DEF TrySend, Goes
  <2>2. DriverHolds' => DriverHolds /\ drv'.obs = drv.obs
    BY <1>1, <2>1 DEF CaptureTypeOK
  <2> QED
    BY <1>1, <2>1, <2>2, OrderUntouched
<1> QED
  BY <1>2, <1>3

LEMMA OrderReceive == ASSUME CaptureTypeOK, InOrder, ReceiveObs PROVE InOrder'
<1>1. UNCHANGED <<drv, stamps, handled>> /\ OBS_CH # <<>> /\ OBS_CH' = Tail(OBS_CH)
  BY DEF ReceiveObs
<1>2. /\ Len(OBS_CH) \in Nat /\ Len(OBS_CH) > 0 /\ Len(OBS_CH') = Len(OBS_CH) - 1
      /\ \A i \in 1..Len(OBS_CH') : OBS_CH'[i] = OBS_CH[i + 1]
      /\ Head(OBS_CH) = OBS_CH[1]
  BY <1>1 DEF CaptureTypeOK
<1>3. exec'.task = "obs" /\ exec'.at = 1 /\ exec'.obs = OBS_CH[1]
  BY <1>2 DEF ReceiveObs, CaptureTypeOK
<1>4. \A i \in 1..Len(OBS_CH') : i + 1 \in 1..Len(OBS_CH) /\ 1 < i + 1
  BY <1>2
<1>5. 1 \in 1..Len(OBS_CH)
  BY <1>2
<1>6. \A i, j \in 1..Len(OBS_CH') : i < j => OBS_CH'[i].t < OBS_CH'[j].t
  BY <1>2, <1>4 DEF InOrder
<1> QED
  BY <1>1, <1>2, <1>3, <1>4, <1>5, <1>6 DEF InOrder, Ahead, DriverHolds, TaskHolds

LEMMA OrderForward ==
  ASSUME CaptureTypeOK, InOrder, ForwardObs
  PROVE  InOrder' /\ handled' > handled
<1>1. /\ UNCHANGED <<drv, OBS_CH, stamps>> /\ handled' = exec.obs.t
      /\ TaskHolds
  BY DEF ForwardObs, Forwards, TaskHolds
<1>2. exec'.at = 2 /\ exec'.obs = exec.obs
  BY DEF ForwardObs, Continue, CaptureTypeOK
<1>3. handled \in Nat /\ handled' \in Nat
  BY <1>1 DEF CaptureTypeOK, Observations
<1>4. Ahead(exec.obs.t)
  BY <1>1 DEF InOrder
<1>5. handled' > handled /\ handled' > 0 /\ handled' <= stamps
  BY <1>1, <1>3, <1>4 DEF Ahead
<1> QED
  BY <1>1, <1>2, <1>5 DEF InOrder, Ahead, DriverHolds, TaskHolds

LEMMA OrderTasks ==
  ASSUME CaptureTypeOK, InOrder, ParsePack \/ StatusTask
  PROVE  InOrder'
<1>1. UNCHANGED <<drv, OBS_CH, stamps, handled>>
  BY DEF ParsePack, StatusTask, StartReport, LoadCounter, SendStatus, SendHello
<1>2. exec'.task # "obs"
  <2>1. CASE ParsePack \/ SendHello \/ exec' = Awaiting
    BY <2>1 DEF ParsePack, SendHello, Awaiting
  <2>2. CASE StartReport \/ LoadCounter \/ (SendStatus /\ Continue(exec.at + 1))
    BY <2>2 DEF StartReport, LoadCounter, SendStatus, Continue, CaptureTypeOK
  <2> QED
    BY <2>1, <2>2 DEF StatusTask, SendStatus
<1> QED
  BY <1>1, <1>2, OrderUntouched DEF DriverHolds

LEMMA InOrderStep ==
  CaptureInv /\ InOrder /\ [Next]_vars =>
      InOrder' /\ [handled' # handled => handled' > handled]_handled
<1> SUFFICES ASSUME CaptureInv, InOrder, [Next]_vars
             PROVE  InOrder' /\ (handled' # handled => handled' > handled)
  OBVIOUS
<1>1. CaptureTypeOK
  BY DEF CaptureInv
<1>2. CASE UNCHANGED vars
  BY <1>2 DEF vars, InOrder, Ahead, DriverHolds, TaskHolds
<1>3. CASE FrameReceived \/ CountBeacon \/ CountMalformed \/ CountRid \/ Drop
  BY <1>1, <1>3, OrderDriver
  DEF FrameReceived, CountBeacon, CountMalformed, CountRid, Drop, executorVars
<1>4. CASE Fill
  BY <1>1, <1>4, OrderFill DEF Fill, executorVars
<1>5. CASE TrySend
  BY <1>1, <1>5, OrderTrySend DEF TrySend, executorVars
<1>6. CASE ReceiveObs
  BY <1>1, <1>6, OrderReceive DEF ReceiveObs
<1>7. CASE ForwardObs
  BY <1>1, <1>7, OrderForward
<1>8. CASE ParsePack \/ StatusTask
  BY <1>1, <1>8, OrderTasks
  DEF ParsePack, StatusTask, StartReport, LoadCounter, SendStatus, SendHello
<1> QED
  BY <1>2, <1>3, <1>4, <1>5, <1>6, <1>7, <1>8 DEF Next, Sniffer, ObsTask

LEMMA OrderAlways == Spec => []InOrder
BY CaptureAlways, InOrderInit, InOrderStep, PTL DEF Spec

\* Observations reach the link and the table in the order of their stamps.
THEOREM CaptureInStampOrder == Spec => StampsAscend
BY CaptureAlways, OrderAlways, InOrderStep, PTL DEF Spec, StampsAscend
-----------------------------------------------------------------------------
(* The receiver is a Capture *)

\* Every step of the receiver is one of Capture or leaves its variables alone.
LEMMA ReceiverIsCapture == [ReceiverNext]_receiverVars => [Next]_vars
<1> SUFFICES ASSUME [ReceiverNext]_receiverVars PROVE [Next]_vars
  OBVIOUS
<1>1. CASE SnifferStep \/ TaskStep \/ ParseAndUpdate \/ \E mac \in Macs : FillFrom(mac)
  BY <1>1
  DEF SnifferStep, TaskStep, ParseAndUpdate, FillFrom, Next, Sniffer, ObsTask
<1>2. CASE UiPurge \/ UiClear \/ ClockTick \/ UNCHANGED receiverVars
  BY <1>2 DEF UiPurge, UiClear, ClockTick, captureVars, receiverVars
<1> QED
  BY <1>1, <1>2 DEF ReceiverNext

LEMMA ReceiverCaptures == ReceiverSpec => [](CaptureInv /\ InOrder)
<1>1. ReceiverInit => CaptureInv /\ InOrder
  BY CaptureInvInit, InOrderInit DEF ReceiverInit
<1>2. CaptureInv /\ InOrder /\ [ReceiverNext]_receiverVars => (CaptureInv /\ InOrder)'
  BY ReceiverIsCapture, CaptureInvStep, InOrderStep
<1> QED
  BY <1>1, <1>2, PTL DEF ReceiverSpec

\* In the receiver too observations are handed over in the order of their stamps.
THEOREM ReceiverInStampOrder == ReceiverSpec => StampsAscend
<1>1. CaptureInv /\ InOrder /\ [ReceiverNext]_receiverVars =>
          [handled' # handled => handled' > handled]_handled
  BY ReceiverIsCapture, InOrderStep
<1> QED
  BY <1>1, ReceiverCaptures, PTL DEF ReceiverSpec, StampsAscend
-----------------------------------------------------------------------------
(* The stamps *)

\* What was filled in: as many observations as stamps were taken, later ones with
\* later times, none in the future.
Sent ==
    /\ sent \in Seq([mac : Macs, at : Nat]) /\ Len(sent) = stamps
    /\ now \in Nat
    /\ \A t \in 1..stamps : 0 < sent[t].at /\ sent[t].at <= now
    /\ \A t, u \in 1..stamps : t < u => sent[t].at < sent[u].at

StampAt(t) == IF t = 0 THEN 0 ELSE sent[t].at

ToApply == exec.task = "obs" /\ exec.at = 2

\* The table has got what was handed over, or all but the one about to be applied.
Applied ==
    /\ latest \in Nat /\ latest <= StampAt(handled)
    /\ ToApply => latest < StampAt(handled)

LEMMA SentTyped ==
  Sent => \A t \in 1..stamps : sent[t].mac \in Macs /\ sent[t].at \in Nat
<1> DEFINE R == [mac : Macs, at : Nat]
<1> SUFFICES ASSUME Sent, NEW t \in 1..stamps
             PROVE  sent[t].mac \in Macs /\ sent[t].at \in Nat
  OBVIOUS
<1>1. sent \in Seq(R) /\ t \in 1..Len(sent)
  BY DEF Sent
<1> HIDE DEF R
<1>2. sent[t] \in R
  BY <1>1
<1> QED
  BY <1>2 DEF R

LEMMA SentInit == ReceiverInit => Sent /\ Applied
<1> SUFFICES ASSUME ReceiverInit PROVE Sent /\ Applied
  OBVIOUS
<1>1. sent = <<>> /\ stamps = 0 /\ now = 0 /\ latest = 0 /\ handled = 0 /\ exec = Awaiting
  BY DEF ReceiverInit, Init, TracksInit
<1>2. sent \in Seq([mac : Macs, at : Nat]) /\ Len(sent) = 0
  BY <1>1
<1>3. \A t \in 1..stamps : FALSE
  BY <1>1
<1>4. Sent
  BY <1>1, <1>2, <1>3 DEF Sent
<1>5. Applied
  BY <1>1 DEF Applied, StampAt, ToApply, Awaiting
<1> QED
  BY <1>4, <1>5

\* Filling in adds one observation, later than all before.
LEMMA SentFill ==
  ASSUME CaptureTypeOK, Sent, NEW mac \in Macs, FillFrom(mac)
  PROVE  /\ Sent'
         /\ stamps' = stamps + 1 /\ stamps \in Nat
         /\ sent'[stamps + 1].at = now
         /\ \A t \in 1..stamps : sent'[t] = sent[t]
<1>1. /\ sent' = Append(sent, [mac |-> mac, at |-> now]) /\ LastStamp < now
      /\ now' = now /\ stamps' = stamps + 1
  BY DEF FillFrom, Fill, tracksVars
<1>2. stamps \in Nat /\ now \in Nat /\ Len(sent) = stamps
  BY DEF CaptureTypeOK, Sent
<1> DEFINE o == [mac |-> mac, at |-> now]
<1>3. o \in [mac : Macs, at : Nat] /\ o.at = now
  BY <1>2
<1>4. sent' = Append(sent, o)
  BY <1>1
<1> HIDE DEF o
<1>5. /\ sent' \in Seq([mac : Macs, at : Nat]) /\ Len(sent') = stamps'
      /\ \A t \in 1..stamps : sent'[t] = sent[t]
      /\ sent'[stamps + 1].at = now
  BY <1>1, <1>2, <1>3, <1>4 DEF Sent
<1>6. \A t \in 1..stamps : sent[t].at \in Nat
  BY SentTyped
<1>7. 0 <= LastStamp /\ LastStamp \in Nat /\ \A t \in 1..stamps : sent[t].at <= LastStamp
  <2>1. CASE stamps = 0
    <3>1. sent = <<>>
      BY <1>2, <2>1 DEF Sent
    <3> QED
      BY <2>1, <3>1 DEF LastStamp
  <2>2. CASE stamps > 0
    <3>1. sent # <<>> /\ stamps \in 1..stamps
      BY <1>2, <2>2
    <3>2. LastStamp = sent[stamps].at
      BY <1>2, <3>1 DEF LastStamp
    <3> QED
      BY <1>2, <1>6, <3>1, <3>2 DEF Sent
  <2> QED
    BY <1>2, <2>1, <2>2
<1>8. \A t \in 1..stamps' : t \in 1..stamps \/ t = stamps + 1
  BY <1>1, <1>2
<1>9. \A t \in 1..stamps' : 0 < sent'[t].at /\ sent'[t].at <= now'
  BY <1>1, <1>2, <1>5, <1>7, <1>8 DEF Sent
<1>10. \A t, u \in 1..stamps' : t < u => sent'[t].at < sent'[u].at
  <2> SUFFICES ASSUME NEW t \in 1..stamps', NEW u \in 1..stamps', t < u
               PROVE  sent'[t].at < sent'[u].at
    OBVIOUS
  <2>1. t \in 1..stamps
    BY <1>1, <1>2
  <2>2. CASE u \in 1..stamps
    BY <1>5, <2>1, <2>2 DEF Sent
  <2>3. CASE u = stamps + 1
    BY <1>1, <1>2, <1>5, <1>6, <1>7, <2>1, <2>3
  <2> QED
    BY <1>8, <2>2, <2>3
<1> QED
  BY <1>1, <1>2, <1>5, <1>9, <1>10 DEF Sent

LEMMA AppliedKept ==
  ASSUME Applied, UNCHANGED <<sent, handled, latest>>, ToApply' => ToApply
  PROVE  Applied'
BY DEF Applied, StampAt

\* The observation obs_task is about to apply is the last it handed over.
LEMMA AboutToApply ==
  ASSUME CaptureTypeOK, InOrder, Sent, Applied, ToApply
  PROVE  /\ exec.obs.t \in 1..stamps /\ exec.obs.t = handled
         /\ sent[exec.obs.t].mac \in Macs
         /\ sent[exec.obs.t].at \in Nat
         /\ latest < sent[exec.obs.t].at /\ sent[exec.obs.t].at <= now
<1>1. exec.obs.t \in Nat /\ stamps \in Nat
  BY DEF CaptureTypeOK, Observations
<1>2. exec.obs.t = handled /\ handled > 0 /\ handled <= stamps
  BY DEF InOrder, ToApply
<1>3. exec.obs.t \in 1..stamps
  BY <1>1, <1>2
<1> QED
  BY <1>2, <1>3, SentTyped DEF Sent, Applied, StampAt

LEMMA StampsStep ==
  CaptureInv /\ InOrder /\ Sent /\ Applied /\ [ReceiverNext]_receiverVars =>
      Sent' /\ Applied'
<1> SUFFICES ASSUME CaptureInv, InOrder, Sent, Applied, [ReceiverNext]_receiverVars
             PROVE  Sent' /\ Applied'
  OBVIOUS
<1>1. CaptureTypeOK
  BY DEF CaptureInv
<1>2. handled \in Nat /\ stamps \in Nat /\ handled <= stamps
  BY <1>1 DEF CaptureTypeOK, InOrder
<1>3. UNCHANGED <<sent, stamps, now>> => Sent'
  BY DEF Sent
<1>4. ASSUME NEW mac \in Macs, FillFrom(mac)
      PROVE  Sent' /\ Applied'
  <2>1. Sent' /\ \A t \in 1..stamps : sent'[t] = sent[t]
    BY <1>1, <1>4, SentFill
  <2>2. UNCHANGED <<exec, handled, latest>>
    BY <1>4 DEF FillFrom, Fill, executorVars, tracksVars
  <2>3. StampAt(handled)' = StampAt(handled)
    BY <1>2, <2>1, <2>2 DEF StampAt
  <2> QED
    BY <2>1, <2>2, <2>3 DEF Applied, ToApply
<1>5. CASE SnifferStep
  <2>1. UNCHANGED <<sent, stamps, now, exec, handled, latest>>
    BY <1>5
    DEF SnifferStep, FrameReceived, CountBeacon, CountMalformed, CountRid, TrySend, Drop,
        executorVars, tracksVars
  <2> QED
    BY <1>3, <2>1, AppliedKept DEF ToApply
<1>6. CASE TaskStep
  <2>1. UNCHANGED <<sent, stamps, now, latest>>
    BY <1>6
    DEF TaskStep, ReceiveObs, ForwardObs, StatusTask, StartReport, LoadCounter, SendStatus,
        SendHello, tracksVars
  <2>2. CASE ReceiveObs \/ StatusTask
    <3>1. UNCHANGED handled
      BY <2>2
      DEF ReceiveObs, StatusTask, StartReport, LoadCounter, SendStatus, SendHello
    <3>2. ~ToApply'
      <4>1. CASE ReceiveObs
        BY <1>1, <4>1 DEF ReceiveObs, ToApply, CaptureTypeOK
      <4>2. CASE StartReport \/ LoadCounter \/ (SendStatus /\ Continue(exec.at + 1))
        BY <1>1, <4>2 DEF StartReport, LoadCounter, SendStatus, Continue, ToApply, CaptureTypeOK
      <4>3. CASE SendHello \/ exec' = Awaiting
        BY <4>3 DEF SendHello, Awaiting, ToApply
      <4> QED
        BY <2>2, <4>1, <4>2, <4>3 DEF StatusTask, SendStatus
    <3> QED
      BY <1>3, <2>1, <3>1, <3>2, AppliedKept
  <2>3. CASE ForwardObs
    <3>1. TaskHolds /\ handled' = exec.obs.t
      BY <2>3 DEF ForwardObs, Forwards, TaskHolds
    <3>2. handled < handled' /\ handled' <= stamps /\ handled' \in Nat
      BY <1>1, <3>1 DEF InOrder, Ahead, CaptureTypeOK, Observations
    <3>3. handled' \in 1..stamps /\ (handled # 0 => handled \in 1..stamps)
      BY <1>2, <3>2
    <3>4. \A t \in 1..stamps : sent[t].at \in Nat
      BY SentTyped
    <3>5. StampAt(handled) < StampAt(handled')
      BY <1>2, <3>2, <3>3 DEF StampAt, Sent
    <3>6. StampAt(handled)' = StampAt(handled') /\ StampAt(handled) \in Nat
          /\ StampAt(handled') \in Nat
      BY <2>1, <3>2, <3>3, <3>4 DEF StampAt
    <3>7. latest' \in Nat /\ latest' < StampAt(handled)'
      BY <2>1, <3>5, <3>6 DEF Applied
    <3> QED
      BY <1>3, <2>1, <3>6, <3>7 DEF Applied
  <2> QED
    BY <1>6, <2>2, <2>3 DEF TaskStep
<1>7. CASE ParseAndUpdate
  <2>1. /\ UNCHANGED <<sent, stamps, handled, now>> /\ ToApply /\ exec' = Awaiting
        /\ latest' \in {latest, sent[exec.obs.t].at}
    BY <1>7 DEF ParseAndUpdate, ParsePack, Apply, ToApply, tracksVars
  <2>2. /\ exec.obs.t = handled /\ handled \in 1..stamps /\ sent[handled].at \in Nat
        /\ latest < sent[handled].at
    BY <1>1, <2>1, AboutToApply
  <2>3. StampAt(handled)' = sent[handled].at
    BY <1>2, <2>1, <2>2 DEF StampAt
  <2>4. ~ToApply'
    BY <2>1 DEF ToApply, Awaiting
  <2>5. latest' \in Nat /\ latest' <= StampAt(handled)'
    BY <2>1, <2>2, <2>3 DEF Applied
  <2> QED
    BY <1>3, <2>1, <2>4, <2>5 DEF Applied
<1>8. CASE UiPurge \/ UiClear \/ UNCHANGED receiverVars
  <2>1. UNCHANGED <<sent, stamps, now, exec, handled, latest>>
    BY <1>8 DEF UiPurge, UiClear, Purge, Clear, captureVars, receiverVars, vars, tracksVars
  <2> QED
    BY <1>3, <2>1, AppliedKept DEF ToApply
<1>9. CASE ClockTick
  <2>1. UNCHANGED <<sent, stamps, exec, handled, latest>> /\ now' = now + 1
    BY <1>9 DEF ClockTick, Tick, captureVars, vars
  <2>2. \A t \in 1..stamps : sent[t].at \in Nat
    BY SentTyped
  <2>3. Sent'
    BY <2>1, <2>2 DEF Sent
  <2> QED
    BY <2>1, <2>3, AppliedKept DEF ToApply
<1> QED
  BY <1>4, <1>5, <1>6, <1>7, <1>8, <1>9 DEF ReceiverNext

LEMMA StampsAlways == ReceiverSpec => [](Sent /\ Applied)
<1>1. CaptureInv /\ InOrder /\ Sent /\ Applied /\ [ReceiverNext]_receiverVars =>
          (Sent /\ Applied)'
  BY StampsStep
<1> QED
  BY <1>1, ReceiverCaptures, SentInit, PTL DEF ReceiverSpec
-----------------------------------------------------------------------------
(* The refinement *)

\* Each step of the receiver does to the table what a step of Tracks does, or nothing.
LEMMA ReceiverIsTable ==
  CaptureInv /\ InOrder /\ Sent /\ Applied /\ [ReceiverNext]_receiverVars =>
      [TracksNext]_tracksVars
<1> SUFFICES ASSUME CaptureInv, InOrder, Sent, Applied, [ReceiverNext]_receiverVars
             PROVE  [TracksNext]_tracksVars
  OBVIOUS
<1>1. CASE SnifferStep \/ TaskStep \/ (\E mac \in Macs : FillFrom(mac)) \/ UNCHANGED receiverVars
  BY <1>1 DEF SnifferStep, TaskStep, FillFrom, receiverVars
<1>2. CASE UiPurge \/ UiClear \/ ClockTick
  BY <1>2 DEF UiPurge, UiClear, ClockTick, TracksNext
<1>3. CASE ParseAndUpdate
  <2>1. CASE exec.obs.ok
    <3> DEFINE o == sent[exec.obs.t]
    <3>1. PICK rssi \in Signals, items \in Packs : Apply(o.mac, rssi, items, o.at)
      BY <1>3, <2>1 DEF ParseAndUpdate
    <3>2. /\ o.mac \in Macs /\ o.at \in Nat /\ latest < o.at /\ o.at <= now
          /\ latest \in Nat /\ now \in Nat
      BY <1>3, AboutToApply
      DEF CaptureInv, ParseAndUpdate, ParsePack, ToApply, Applied, Sent
    <3> HIDE DEF o
    <3>3. o.at \in (latest + 1)..now
      BY <3>2
    <3>4. Update(o.mac, rssi, items, o.at)
      BY <3>1, <3>2 DEF Update
    <3> QED
      BY <3>2, <3>3, <3>4 DEF TracksNext
  <2>2. CASE ~exec.obs.ok
    BY <1>3, <2>2 DEF ParseAndUpdate
  <2> QED
    BY <2>1, <2>2
<1> QED
  BY <1>1, <1>2, <1>3 DEF ReceiverNext

\* The receiver implements Tracks: the table is updated in the order of the stamps
\* and never from the future.
THEOREM ReceiverUpdatesInOrder == ReceiverSpec => UpdatesInOrder
<1>1. ReceiverInit => TracksInit
  BY DEF ReceiverInit
<1> QED
  BY <1>1, ReceiverIsTable, ReceiverCaptures, StampsAlways, PTL
  DEF ReceiverSpec, UpdatesInOrder, TracksSpec

\* So the table of the receiver, filled through the driver, OBS_CH and obs_task, has
\* one track per transmitter, with that transmitter's data, for those heard last, and
\* the rows taken of it are the strongest of the visible ones.
THEOREM ReceiverTable ==
    ReceiverSpec => [](OneTrackPerMac /\ OwnData /\ NewestKept /\ RowsAreStrongest)
<1>1. ReceiverSpec => TracksSpec
  BY ReceiverUpdatesInOrder DEF UpdatesInOrder
<1> QED
  BY <1>1, TracksUnique, TracksOwn, TracksNewest, TracksRows, PTL
-----------------------------------------------------------------------------
(* Clearing the table *)

\* Stamped since the last clear, or on its way at the time.
Excused(us) == us >= clearedAt \/ us \in inFlight

\* What is in the table and on its way to it.
Cleared ==
    /\ clearedAt \in Nat /\ clearedAt <= now
    /\ \A i \in Slots : Used(i) => Excused(slots[i].first_seen_us)
    /\ \A i \in 1..Len(OBS_CH) : Excused(sent[OBS_CH[i].t].at)
    /\ DriverHolds => Excused(sent[drv.obs.t].at)
    /\ TaskHolds \/ ToApply => Excused(sent[exec.obs.t].at)

LEMMA ClearedInit == ReceiverInit => Cleared
<1> SUFFICES ASSUME ReceiverInit PROVE Cleared
  OBVIOUS
<1>1. /\ clearedAt = 0 /\ now = 0 /\ OBS_CH = <<>> /\ drv = Idle /\ exec = Awaiting
      /\ \A i \in Slots : slots[i] = NoTrack
  BY DEF ReceiverInit, Init, TracksInit
<1>2. \A i \in 1..Len(OBS_CH) : FALSE
  BY <1>1
<1>3. ~DriverHolds /\ ~TaskHolds /\ ~ToApply
  BY <1>1 DEF DriverHolds, TaskHolds, ToApply, Idle, Awaiting
<1> QED
  BY <1>1, <1>2, <1>3 DEF Cleared, Used

\* OBS_CH and the driver together hold no more than its capacity and one.
LEMMA FewUnderWay ==
  CaptureTypeOK => Cardinality(UnderWay) <= ObsCap + 1
<1> SUFFICES ASSUME CaptureTypeOK PROVE Cardinality(UnderWay) <= ObsCap + 1
  OBVIOUS
<1> DEFINE n == Len(OBS_CH)
           f == [i \in 1..n |-> sent[OBS_CH[i].t].at]
           Q == {f[i] : i \in 1..n}
<1>1. n \in Nat /\ n <= ObsCap /\ ObsCap \in Nat /\ DOMAIN OBS_CH = 1..n
  BY CaptureAssumption DEF CaptureTypeOK
<1>2. IsFiniteSet(1..n) /\ Cardinality(1..n) = n
  <2>1. n \in Int /\ 1 \in Int /\ (1 > n => n = 0)
    BY <1>1
  <2> HIDE DEF n
  <2>2. IsFiniteSet(1..n) /\ Cardinality(1..n) = IF 1 > n THEN 0 ELSE n - 1 + 1
    BY <2>1, FS_Interval
  <2> QED
    BY <2>1, <2>2
<1>3. f \in Surjection(1..n, Q)
  BY DEF Surjection
<1>4. IsFiniteSet(Q) /\ Cardinality(Q) <= n
  <2> HIDE DEF f, Q
  <2> QED
    BY <1>2, <1>3, FS_Surjection
<1>5. Cardinality(Q) \in Nat
  BY <1>4, FS_CardinalityType
<1>6. UnderWay = Q \/ \E x : UnderWay = Q \cup {x}
  <2>1. {sent[OBS_CH[i].t].at : i \in DOMAIN OBS_CH} = Q
    BY <1>1
  <2> QED
    BY <2>1 DEF UnderWay
<1> HIDE DEF n, f, Q
<1>7. ASSUME NEW x
      PROVE  Cardinality(Q \cup {x}) <= Cardinality(Q) + 1
  <2>1. Cardinality(Q \cup {x}) = IF x \in Q THEN Cardinality(Q) ELSE Cardinality(Q) + 1
    BY <1>4, FS_AddElement
  <2> QED
    BY <1>5, <2>1
<1>8. Cardinality(UnderWay) <= Cardinality(Q) + 1
  <2>1. CASE UnderWay = Q
    BY <1>5, <2>1
  <2>2. CASE \E x : UnderWay = Q \cup {x}
    <3>1. PICK x : UnderWay = Q \cup {x}
      BY <2>2
    <3> QED
      BY <1>7, <3>1
  <2> QED
    BY <1>6, <2>1, <2>2
<1>9. Cardinality(UnderWay) \in Int
  <2>1. IsFiniteSet(UnderWay)
    BY <1>4, <1>6, FS_AddElement
  <2> QED
    BY <2>1, FS_CardinalityType
<1> QED
  BY <1>1, <1>4, <1>5, <1>8, <1>9

\* An update puts the observation's own stamp or an older track's into the table.
LEMMA ClearedUpdate ==
  ASSUME TracksInv, Cleared, NEW m \in Macs, NEW r \in Signals, NEW items \in Packs,
         NEW t \in Nat, Update(m, r, items, t), Excused(t),
         UNCHANGED <<clearedAt, inFlight>>
  PROVE  (\A i \in Slots : Used(i) => Excused(slots[i].first_seen_us))'
<1>1. PICK i \in Slots, u \in Tracks :
        /\ slots' = [slots EXCEPT ![i] = u]
        /\ \/ u.first_seen_us = t
           \/ Used(i) /\ u.first_seen_us = slots[i].first_seen_us
  BY UpdateEffect
<1>2. DOMAIN slots = Slots
  BY DEF TracksInv, TracksTypeOK
<1>3. Excused(u.first_seen_us)
  BY <1>1 DEF Cleared
<1>4. ASSUME NEW j \in Slots, slots'[j] # NoTrack
      PROVE  Excused(slots'[j].first_seen_us)
  <2>1. CASE j = i
    BY <1>1, <1>2, <1>3, <2>1
  <2>2. CASE j # i
    BY <1>1, <1>2, <1>4, <2>2 DEF Cleared, Used
  <2> QED
    BY <2>1, <2>2
<1> QED
  BY <1>4 DEF Used, Excused

\* The observations the invariant speaks of are among those filled in.
LEMMA Known ==
  ASSUME CaptureTypeOK, InOrder
  PROVE  /\ \A i \in 1..Len(OBS_CH) : OBS_CH[i].t \in 1..stamps
         /\ DriverHolds => drv.obs.t \in 1..stamps
         /\ TaskHolds \/ ToApply => exec.obs.t \in 1..stamps
<1>1. handled \in Nat /\ stamps \in Nat /\ drv.obs.t \in Nat /\ exec.obs.t \in Nat
  BY DEF CaptureTypeOK, Observations
<1>2. \A i \in 1..Len(OBS_CH) : OBS_CH[i].t \in Nat
  <2>1. OBS_CH \in Seq(Observations)
    BY DEF CaptureTypeOK
  <2>2. \A i \in 1..Len(OBS_CH) : OBS_CH[i] \in Observations
    BY <2>1
  <2> QED
    BY <2>2 DEF Observations
<1>3. \A i \in 1..Len(OBS_CH) : handled < OBS_CH[i].t /\ OBS_CH[i].t <= stamps
  BY DEF InOrder, Ahead
<1>4. DriverHolds => drv.obs.t = stamps /\ handled < stamps
  BY DEF InOrder
<1>5. TaskHolds => handled < exec.obs.t /\ exec.obs.t <= stamps
  BY DEF InOrder, Ahead
<1>6. ToApply => exec.obs.t = handled /\ handled > 0 /\ handled <= stamps
  BY DEF InOrder, ToApply
<1> QED
  BY <1>1, <1>2, <1>3, <1>4, <1>5, <1>6

\* The driver's steps other than filling in move its observation or give it up.
LEMMA ClearedSniffer ==
  ASSUME CaptureTypeOK, Cleared, SnifferStep
  PROVE  Cleared'
<1>1. UNCHANGED <<slots, now, sent, clearedAt, inFlight, exec>>
  BY DEF SnifferStep, FrameReceived, CountBeacon, CountMalformed, CountRid, TrySend, Drop,
         executorVars, tracksVars
<1>2. CASE TrySend
  <2>1. CASE HasRoom
    <3>1. OBS_CH' = Append(OBS_CH, drv.obs) /\ drv' = Idle /\ DriverHolds
      BY <1>2, <2>1 DEF TrySend, Put, DriverHolds
    <3>2. /\ Len(OBS_CH) \in Nat /\ Len(OBS_CH') = Len(OBS_CH) + 1
          /\ \A i \in 1..Len(OBS_CH') :
                OBS_CH'[i] = IF i <= Len(OBS_CH) THEN OBS_CH[i] ELSE drv.obs
      BY <3>1 DEF CaptureTypeOK
    <3>3. \A i \in 1..Len(OBS_CH') :
             \/ i \in 1..Len(OBS_CH) /\ OBS_CH'[i] = OBS_CH[i]
             \/ OBS_CH'[i] = drv.obs
      BY <3>2
    <3>4. ~DriverHolds'
      BY <3>1 DEF DriverHolds, Idle
    <3> QED
      BY <1>1, <3>1, <3>3, <3>4 DEF Cleared, Excused, Used, TaskHolds, ToApply
  <2>2. CASE ~HasRoom
    <3>1. UNCHANGED OBS_CH /\ drv' = [drv EXCEPT !.at = "full"] /\ DriverHolds
      BY <1>2, <2>2 DEF TrySend, Goes, DriverHolds
    <3>2. drv'.obs = drv.obs
      BY <3>1 DEF CaptureTypeOK
    <3> QED
      BY <1>1, <3>1, <3>2 DEF Cleared, Excused, Used, TaskHolds, ToApply
  <2> QED
    BY <2>1, <2>2
<1>3. CASE FrameReceived \/ CountBeacon \/ CountMalformed \/ CountRid \/ Drop
  <2>1. UNCHANGED OBS_CH
    BY <1>3 DEF FrameReceived, CountBeacon, CountMalformed, CountRid, Drop
  <2>2. ~DriverHolds'
    <3>1. CASE Drop
      BY <3>1 DEF Drop, Idle, DriverHolds
    <3>2. CASE \E p \in {"idle", "beacon", "malformed", "rid", "fill"} : Goes(p)
      BY <3>2, GoesTo DEF DriverHolds, DrvPoints
    <3> QED
      BY <1>3, <3>1, <3>2 DEF FrameReceived, CountBeacon, CountMalformed, CountRid
  <2> QED
    BY <1>1, <2>1, <2>2 DEF Cleared, Excused, Used, TaskHolds, ToApply
<1> QED
  BY <1>2, <1>3 DEF SnifferStep

\* What is filled in now is stamped now.
LEMMA ClearedFill ==
  ASSUME CaptureTypeOK, InOrder, Sent, Cleared, NEW mac \in Macs, FillFrom(mac)
  PROVE  Cleared'
<1>1. /\ UNCHANGED <<slots, now, clearedAt, inFlight, exec, OBS_CH>>
      /\ drv'.at = "put" /\ drv'.obs.t = stamps + 1
  BY DEF FillFrom, Fill, executorVars, tracksVars
<1>2. /\ sent'[stamps + 1].at = now
      /\ \A t \in 1..stamps : sent'[t] = sent[t]
  BY SentFill
<1>3. now \in Nat /\ now >= clearedAt
  BY DEF Sent, Cleared
<1> QED
  BY <1>1, <1>2, <1>3, Known DEF Cleared, Excused, Used, TaskHolds, ToApply

LEMMA ClearedTask ==
  ASSUME CaptureTypeOK, Cleared, TaskStep
  PROVE  Cleared'
<1>1. UNCHANGED <<slots, now, sent, clearedAt, inFlight, drv>>
  BY DEF TaskStep, ReceiveObs, ForwardObs, StatusTask, StartReport, LoadCounter, SendStatus,
         SendHello, tracksVars
<1>2. CASE ReceiveObs
  <2>1. /\ OBS_CH # <<>> /\ OBS_CH' = Tail(OBS_CH)
        /\ exec' = [exec EXCEPT !.task = "obs", !.at = 1, !.obs = Head(OBS_CH)]
    BY <1>2 DEF ReceiveObs
  <2>2. /\ Len(OBS_CH) \in Nat /\ Len(OBS_CH) > 0 /\ Len(OBS_CH') = Len(OBS_CH) - 1
        /\ \A i \in 1..Len(OBS_CH') : OBS_CH'[i] = OBS_CH[i + 1]
        /\ Head(OBS_CH) = OBS_CH[1]
    BY <2>1 DEF CaptureTypeOK
  <2>3. exec'.obs = OBS_CH[1]
    BY <2>1, <2>2 DEF CaptureTypeOK
  <2>4. 1 \in 1..Len(OBS_CH) /\ \A i \in 1..Len(OBS_CH') : i + 1 \in 1..Len(OBS_CH)
    BY <2>2
  <2> QED
    BY <1>1, <2>2, <2>3, <2>4 DEF Cleared, Excused, Used, DriverHolds, TaskHolds, ToApply
<1>3. CASE ForwardObs
  <2>1. UNCHANGED OBS_CH /\ exec' = [exec EXCEPT !.at = 2] /\ TaskHolds
    BY <1>3 DEF ForwardObs, Continue, TaskHolds
  <2>2. exec'.obs = exec.obs
    BY <2>1 DEF CaptureTypeOK
  <2> QED
    BY <1>1, <2>1, <2>2 DEF Cleared, Excused, Used, DriverHolds
<1>4. CASE StatusTask
  <2>1. UNCHANGED OBS_CH
    BY <1>4 DEF StatusTask, StartReport, LoadCounter, SendStatus, SendHello
  <2>2. exec'.task # "obs"
    <3>1. CASE StartReport \/ LoadCounter \/ (SendStatus /\ Continue(exec.at + 1))
      BY <3>1 DEF StartReport, LoadCounter, SendStatus, Continue, CaptureTypeOK
    <3>2. CASE SendHello \/ exec' = Awaiting
      BY <3>2 DEF SendHello, Awaiting
    <3> QED
      BY <1>4, <3>1, <3>2 DEF StatusTask, SendStatus
  <2> QED
    BY <1>1, <2>1, <2>2 DEF Cleared, Excused, Used, DriverHolds, TaskHolds, ToApply
<1> QED
  BY <1>2, <1>3, <1>4 DEF TaskStep

LEMMA ClearedParse ==
  ASSUME CaptureTypeOK, InOrder, Sent, Applied, TracksInv, Cleared, ParseAndUpdate
  PROVE  Cleared'
<1>1. /\ UNCHANGED <<now, sent, clearedAt, inFlight, drv, OBS_CH>>
      /\ exec.task = "obs" /\ exec.at = 2 /\ exec' = Awaiting
  BY DEF ParseAndUpdate, ParsePack, Apply, tracksVars
<1>2. (\A i \in Slots : Used(i) => Excused(slots[i].first_seen_us))'
  <2>1. CASE exec.obs.ok
    <3> DEFINE o == sent[exec.obs.t]
    <3>1. PICK rssi \in Signals, items \in Packs : Apply(o.mac, rssi, items, o.at)
      BY <2>1 DEF ParseAndUpdate
    <3>2. o.mac \in Macs /\ o.at \in Nat /\ latest < o.at /\ o.at <= now
      BY <1>1, AboutToApply DEF ToApply
    <3>3. Excused(o.at)
      BY <1>1 DEF Cleared, ToApply
    <3> HIDE DEF o
    <3>4. Update(o.mac, rssi, items, o.at)
      BY <3>1, <3>2 DEF Update
    <3> QED
      BY <1>1, <3>2, <3>3, <3>4, ClearedUpdate
  <2>2. CASE ~exec.obs.ok
    <3>1. UNCHANGED slots
      BY <2>2 DEF ParseAndUpdate, tracksVars
    <3> QED
      BY <1>1, <3>1 DEF Cleared, Excused, Used, TaskHolds, ToApply
  <2> QED
    BY <2>1, <2>2
<1>3. exec'.task # "obs"
  BY <1>1 DEF Awaiting
<1> QED
  BY <1>1, <1>2, <1>3 DEF Cleared, Excused, DriverHolds, TaskHolds, ToApply

\* The clear empties the table and notes what is under way: nothing is in obs_task's
\* hands then.
LEMMA ClearedClear ==
  ASSUME CaptureTypeOK, Sent, UiClear
  PROVE  Cleared'
<1>1. /\ UNCHANGED <<now, sent, drv, OBS_CH, exec>> /\ exec.task = "none"
      /\ slots' = [i \in Slots |-> NoTrack]
      /\ clearedAt' = now /\ inFlight' = UnderWay
  BY DEF UiClear, Clear, captureVars, vars
<1>2. now \in Nat
  BY DEF Sent
<1>3. \A i \in 1..Len(OBS_CH) : sent[OBS_CH[i].t].at \in UnderWay
  <2>1. DOMAIN OBS_CH = 1..Len(OBS_CH)
    BY DEF CaptureTypeOK
  <2> QED
    BY <2>1 DEF UnderWay
<1>4. DriverHolds => sent[drv.obs.t].at \in UnderWay
  BY DEF DriverHolds, UnderWay
<1>5. \A i \in Slots : ~Used(i)'
  BY <1>1 DEF Used
<1> QED
  BY <1>1, <1>2, <1>3, <1>4, <1>5 DEF Cleared, Excused, DriverHolds, TaskHolds, ToApply

LEMMA ClearedOther ==
  ASSUME Sent, Cleared, UiPurge \/ ClockTick \/ UNCHANGED receiverVars
  PROVE  Cleared'
<1>1. UNCHANGED <<sent, clearedAt, inFlight, drv, OBS_CH, exec>>
  BY DEF UiPurge, ClockTick, captureVars, vars, receiverVars
<1>2. now \in Nat /\ clearedAt \in Nat /\ clearedAt <= now
  BY DEF Sent, Cleared
<1>3. now' = now \/ now' = now + 1
  BY DEF UiPurge, Purge, ClockTick, Tick, receiverVars, tracksVars
<1>4. \A i \in Slots : slots'[i] = NoTrack \/ slots'[i] = slots[i]
  BY DEF UiPurge, Purge, ClockTick, Tick, receiverVars, tracksVars
<1>5. clearedAt' <= now'
  BY <1>1, <1>2, <1>3
<1> QED
  BY <1>1, <1>4, <1>5 DEF Cleared, Excused, Used, DriverHolds, TaskHolds, ToApply

FewInFlight == Cardinality(inFlight) <= ObsCap + 1

LEMMA ClearedStep ==
  CaptureInv /\ InOrder /\ Sent /\ Applied /\ TracksInv /\ Cleared /\ FewInFlight
      /\ [ReceiverNext]_receiverVars
  => Cleared' /\ FewInFlight'
<1> SUFFICES ASSUME CaptureInv, InOrder, Sent, Applied, TracksInv, Cleared, FewInFlight,
                    [ReceiverNext]_receiverVars
             PROVE  Cleared' /\ FewInFlight'
  OBVIOUS
<1>1. CaptureTypeOK
  BY DEF CaptureInv
<1>2. FewInFlight'
  <2>1. CASE UiClear
    <3>1. inFlight' = UnderWay
      BY <2>1 DEF UiClear
    <3> QED
      BY <1>1, <3>1, FewUnderWay DEF FewInFlight
  <2>2. CASE UNCHANGED inFlight
    BY <2>2 DEF FewInFlight
  <2> QED
    BY <2>1, <2>2
    DEF ReceiverNext, SnifferStep, TaskStep, ParseAndUpdate, FillFrom, UiPurge, ClockTick,
        receiverVars
<1>3. CASE ParseAndUpdate
  BY <1>1, <1>2, <1>3, ClearedParse
<1>4. CASE \E mac \in Macs : FillFrom(mac)
  BY <1>1, <1>2, <1>4, ClearedFill
<1>5. CASE SnifferStep \/ TaskStep
  BY <1>1, <1>2, <1>5, ClearedSniffer, ClearedTask
<1>6. CASE UiClear
  BY <1>1, <1>2, <1>6, ClearedClear
<1>7. CASE UiPurge \/ ClockTick \/ UNCHANGED receiverVars
  BY <1>2, <1>7, ClearedOther
<1> QED
  BY <1>3, <1>4, <1>5, <1>6, <1>7 DEF ReceiverNext

LEMMA FewInit == ReceiverInit => FewInFlight
<1>1. ObsCap \in Nat
  BY CaptureAssumption
<1>2. ReceiverInit => Cardinality(inFlight) = 0
  BY FS_EmptySet DEF ReceiverInit
<1> QED
  BY <1>1, <1>2 DEF FewInFlight

\* After a clear nothing comes back but what was under way, which is no more than
\* OBS_CH holds and the one in the driver's hands.
THEOREM ReceiverClearHolds == ReceiverSpec => []ClearHolds
<1>1. ReceiverSpec => []TracksInv
  BY ReceiverUpdatesInOrder, TracksAlways DEF UpdatesInOrder
<1>2. ReceiverSpec => [](Cleared /\ FewInFlight)
  BY <1>1, ReceiverCaptures, StampsAlways, ClearedInit, FewInit, ClearedStep, PTL
  DEF ReceiverSpec
<1>3. TracksInv /\ Cleared /\ FewInFlight => ClearHolds
  <2> SUFFICES ASSUME TracksInv, Cleared, FewInFlight PROVE ClearHolds
    OBVIOUS
  <2>1. ASSUME NEW i \in Slots, Used(i), slots[i].first_seen_us < clearedAt
        PROVE  slots[i].first_seen_us \in inFlight
    <3>1. slots[i].first_seen_us \in Nat /\ clearedAt \in Nat
      BY <2>1, UsedTrack DEF TracksInv, Tracks, Cleared
    <3> QED
      BY <2>1, <3>1 DEF Cleared, Excused
  <2> QED
    BY <2>1 DEF FewInFlight, ClearHolds
<1> QED
  BY <1>1, <1>2, <1>3, PTL
=============================================================================
