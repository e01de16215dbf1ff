------------------------------ MODULE TracksProofs ------------------------------
(***************************************************************************)
(* The track table, for any transmitters, any number of slots and any hide *)
(* and eviction ages.  NewestKept needs more than itself: that a track's   *)
(* last_seen is when its transmitter was last heard, and that stamps only  *)
(* grow, so that the slot update takes over is the one heard longest ago.  *)
(* The rows rest on the table having one track per transmitter: then no    *)
(* two visible keys are equal, and any sort of the keys gives these rows.  *)
(***************************************************************************)
EXTENDS Snapshot, AverageFacts, FiniteSetTheorems

\* A track's stamps: its transmitter was last heard when the track says so.
Stamps ==
    /\ \A m \in Macs : heard[m] <= latest
    /\ \A m, n \in Macs : heard[m] = heard[n] /\ heard[m] # 0 => m = n
    /\ \A i \in Slots : Used(i) =>
           /\ slots[i].last_seen_us = heard[slots[i].mac]
           /\ slots[i].first_seen_us <= slots[i].last_seen_us
           /\ slots[i].first_seen_us > 0

Clock == latest <= now /\ purgedAt <= now

TracksInv == TracksTypeOK /\ Stamps /\ Clock /\ OneTrackPerMac /\ OwnData /\ NewestKept
-----------------------------------------------------------------------------
(* Slots and tracks *)

LEMMA UsedTrack ==
    ASSUME TracksTypeOK, NEW i \in Slots, Used(i)
    PROVE  slots[i] \in Tracks
BY DEF TracksTypeOK, Used

LEMMA FreshType ==
    ASSUME NEW m \in Macs, NEW r \in Signals, NEW t \in Nat
    PROVE  Fresh(m, r, t) \in Tracks
<1>1. StartAverage(r) \in Averages
  BY TracksAssumption, StartInRange
<1>2. [k \in Kinds |-> 0] \in [Kinds -> Macs \cup {0}]
  OBVIOUS
<1> QED
  BY <1>1, <1>2, TracksAssumption DEF Fresh, Tracks

LEMMA UpdatedType ==
    ASSUME NEW u \in Tracks, NEW r \in Signals, NEW items, NEW t \in Nat
    PROVE  Updated(u, r, items, t) \in Tracks
<1>1. u.rssi_avg_x16 \in Averages /\ u.mac \in Macs /\ u.first_seen_us \in Nat
      /\ u.frames \in 0..CountMax /\ u.auth_msgs \in 0..CountMax
      /\ u.location_t_us \in Nat /\ u.info \in [Kinds -> Macs \cup {0}]
  BY DEF Tracks
<1>2. NextAverage(u.rssi_avg_x16, r) \in Averages
  BY <1>1, TracksAssumption, AverageStep
<1>3. \A n \in 0..CountMax : SaturatingAdd(n, 1) \in 0..CountMax
  BY TracksAssumption DEF SaturatingAdd
<1>4. [k \in Kinds |-> IF k \in items THEN u.mac ELSE u.info[k]] \in [Kinds -> Macs \cup {0}]
  BY <1>1
<1> QED
  BY <1>1, <1>2, <1>3, <1>4 DEF Updated, Tracks

\* The track update writes keeps its transmitter and gets the stamp.
LEMMA UpdatedFields ==
    ASSUME NEW u \in Tracks, NEW r, NEW items, NEW t
    PROVE  /\ Updated(u, r, items, t).mac = u.mac
           /\ Updated(u, r, items, t).first_seen_us = u.first_seen_us
           /\ Updated(u, r, items, t).last_seen_us = t
           /\ Updated(u, r, items, t).location_t_us =
                 IF "location" \in items THEN t ELSE u.location_t_us
           /\ Updated(u, r, items, t).info =
                 [k \in Kinds |-> IF k \in items THEN u.mac ELSE u.info[k]]
BY DEF Updated, Tracks

\* What an update does to the slots, in one place: slot i, chosen as the code
\* chooses it, becomes a track u of the transmitter, seen at t.
LEMMA UpdateEffect ==
    ASSUME TracksInv,
           NEW m \in Macs, NEW r \in Signals, NEW items \in Packs, NEW t \in Nat,
           Update(m, r, items, t)
    PROVE  \E i \in Slots, u \in Tracks :
              /\ IsSlotFor(i, m)
              /\ slots' = [slots EXCEPT ![i] = u]
              /\ u.mac = m /\ u.last_seen_us = t
              /\ u.first_seen_us <= t /\ u.first_seen_us > 0
              /\ \/ u.first_seen_us = t
                 \/ Used(i) /\ u.first_seen_us = slots[i].first_seen_us
              /\ \A k \in Kinds : u.info[k] \in {0, m}
              /\ u.info["location"] = 0 <=> u.location_t_us = 0
              /\ u.location_t_us # 0 => u.location_t_us \in u.first_seen_us..t
<1>1. PICK i \in Slots :
        /\ IsSlotFor(i, m)
        /\ slots' = [slots EXCEPT ![i] =
                        Updated(StartingTrack(i, m, r, t), r, items, t)]
  BY DEF Update, Apply
<1> DEFINE s == StartingTrack(i, m, r, t)
           u == Updated(s, r, items, t)
<1>2. m \in Nat \ {0} /\ "location" \in Kinds /\ latest < t /\ latest \in Nat /\ t > 0
  BY TracksAssumption DEF Update, Apply, TracksInv, TracksTypeOK
<1>3. /\ s \in Tracks /\ s.mac = m
      /\ s.first_seen_us <= t /\ s.first_seen_us > 0
      /\ s.first_seen_us = t \/ (Used(i) /\ s.first_seen_us = slots[i].first_seen_us)
      /\ \A k \in Kinds : s.info[k] \in {0, m}
      /\ s.info["location"] = 0 <=> s.location_t_us = 0
      /\ s.location_t_us # 0 => s.location_t_us \in s.first_seen_us..t
  <2>1. CASE Holds(i, m)
    <3>1. s = slots[i] /\ Used(i) /\ slots[i].mac = m /\ slots[i] \in Tracks
      BY <2>1, UsedTrack DEF StartingTrack, Holds, TracksInv
    <3>2. /\ slots[i].last_seen_us = heard[m] /\ heard[m] <= latest /\ heard[m] \in Nat
          /\ slots[i].first_seen_us <= slots[i].last_seen_us /\ slots[i].first_seen_us > 0
      BY <3>1 DEF TracksInv, Stamps, TracksTypeOK
    <3>3. slots[i].first_seen_us \in Nat /\ slots[i].location_t_us \in Nat
      BY <3>1 DEF Tracks
    <3>4. /\ \A k \in Kinds : slots[i].info[k] \in {0, m}
          /\ slots[i].info["location"] = 0 <=> slots[i].location_t_us = 0
          /\ slots[i].location_t_us # 0 =>
                slots[i].location_t_us \in slots[i].first_seen_us..slots[i].last_seen_us
      BY <3>1 DEF TracksInv, OwnData
    <3> HIDE DEF s
    <3> QED
      BY <1>2, <3>1, <3>2, <3>3, <3>4
  <2>2. CASE ~Holds(i, m)
    <3>1. s = Fresh(m, r, t) /\ s \in Tracks
      BY <2>2, FreshType DEF StartingTrack
    <3>2. s.mac = m /\ s.first_seen_us = t /\ s.location_t_us = 0
          /\ s.info = [k \in Kinds |-> 0]
      BY <3>1 DEF Fresh
    <3> HIDE DEF s
    <3> QED
      BY <1>2, <3>1, <3>2
  <2> QED
    BY <2>1, <2>2
<1> HIDE DEF s
<1>4. u \in Tracks
  BY <1>3, UpdatedType
<1>5. /\ u.mac = m /\ u.first_seen_us = s.first_seen_us /\ u.last_seen_us = t
      /\ u.location_t_us = IF "location" \in items THEN t ELSE s.location_t_us
      /\ u.info = [k \in Kinds |-> IF k \in items THEN m ELSE s.info[k]]
  BY <1>3, UpdatedFields
<1> HIDE DEF u
<1>6. \A k \in Kinds : u.info[k] \in {0, m}
  BY <1>3, <1>5
<1>7. s.first_seen_us \in Nat
  BY <1>3 DEF Tracks
<1>8. u.location_t_us # 0 => u.location_t_us \in u.first_seen_us..t
  BY <1>2, <1>3, <1>5, <1>7
<1>9. u.info["location"] = 0 <=> u.location_t_us = 0
  BY <1>2, <1>3, <1>5
<1> QED
  BY <1>1, <1>3, <1>4, <1>5, <1>6, <1>8, <1>9 DEF u, s

\* No slot but the one chosen holds the transmitter.
LEMMA ChosenAlone ==
    ASSUME OneTrackPerMac, NEW m \in Macs, NEW i \in Slots, IsSlotFor(i, m)
    PROVE  \A j \in Slots : j # i => ~Holds(j, m)
BY DEF IsSlotFor, OneTrackPerMac, Holds

\* A slot taken over was the least recently seen of a full table.
LEMMA TakenOver ==
    ASSUME TracksTypeOK, NEW m \in Macs, NEW i \in Slots, IsSlotFor(i, m), ~Holds(i, m), Used(i)
    PROVE  \A j \in Slots : Used(j) /\ slots[i].last_seen_us <= slots[j].last_seen_us
<1> SUFFICES ASSUME NEW j \in Slots
             PROVE  Used(j) /\ slots[i].last_seen_us <= slots[j].last_seen_us
  OBVIOUS
<1>1. \A k \in Slots : Used(k)
  BY DEF IsSlotFor
<1>2. slots[i] \in Tracks /\ slots[j] \in Tracks
  BY <1>1, UsedTrack
<1>3. slots[i].last_seen_us \in Nat /\ slots[j].last_seen_us \in Nat
  BY <1>2 DEF Tracks
<1> QED
  BY <1>1, <1>3 DEF IsSlotFor
-----------------------------------------------------------------------------
(* Steps *)

LEMMA TracksInvInit == TracksInit => TracksInv
BY TracksAssumption
DEF TracksInit, TracksInv, TracksTypeOK, Stamps, Clock, OneTrackPerMac, OwnData, NewestKept,
    Used, Forgotten

LEMMA TracksInvTick == TracksInv /\ Tick => TracksInv'
<1> SUFFICES ASSUME TracksInv, Tick PROVE TracksInv'
  OBVIOUS
<1>1. UNCHANGED <<slots, heard, latest, purgedAt>> /\ now' = now + 1
  BY DEF Tick
<1>2. TracksTypeOK' /\ Clock'
  BY <1>1 DEF TracksInv, TracksTypeOK, Clock
<1>3. Stamps' /\ OneTrackPerMac' /\ OwnData'
  BY <1>1 DEF TracksInv, Stamps, OneTrackPerMac, OwnData, Used
<1>4. NewestKept'
  BY <1>1 DEF TracksInv, NewestKept, Forgotten, Tracked, Used
<1> QED
  BY <1>2, <1>3, <1>4 DEF TracksInv

LEMMA TracksInvUpdate ==
    ASSUME TracksInv,
           NEW m \in Macs, NEW r \in Signals, NEW items \in Packs,
           NEW t \in (latest + 1)..now, Update(m, r, items, t)
    PROVE  TracksInv'
<1>1. /\ latest \in Nat /\ now \in Nat /\ t \in Nat /\ latest < t /\ t <= now
      /\ latest' = t /\ heard' = [heard EXCEPT ![m] = t] /\ UNCHANGED <<now, purgedAt>>
      /\ heard \in [Macs -> Nat] /\ \A n \in Macs : heard[n] \in Nat /\ heard[n] <= latest
  BY DEF TracksInv, TracksTypeOK, Stamps, Update, Apply
<1>2. PICK i \in Slots, u \in Tracks :
        /\ IsSlotFor(i, m)
        /\ slots' = [slots EXCEPT ![i] = u]
        /\ u.mac = m /\ u.last_seen_us = t
        /\ u.first_seen_us <= t /\ u.first_seen_us > 0
        /\ \A k \in Kinds : u.info[k] \in {0, m}
        /\ u.info["location"] = 0 <=> u.location_t_us = 0
        /\ u.location_t_us # 0 => u.location_t_us \in u.first_seen_us..t
  BY <1>1, UpdateEffect
<1>3. slots \in [Slots -> Tracks \cup {NoTrack}]
  BY DEF TracksInv, TracksTypeOK
<1>4. /\ slots'[i] = u /\ slots'[i] # NoTrack
      /\ \A j \in Slots : j # i => slots'[j] = slots[j]
  BY <1>2, <1>3, TracksAssumption
<1>5. \A j \in Slots : j # i /\ Used(j) => slots[j].mac # m
  BY <1>2, ChosenAlone DEF TracksInv, Holds
<1>6. \A j \in Slots : Used(j) => slots[j].mac \in Macs /\ slots[j].last_seen_us \in Nat
  BY UsedTrack DEF TracksInv, Tracks
<1>7. TracksTypeOK'
  BY <1>1, <1>2, <1>3 DEF TracksInv, TracksTypeOK
<1>8. Clock'
  BY <1>1 DEF TracksInv, Clock
<1>9. Stamps'
  <2>1. \A n \in Macs : heard'[n] <= latest'
    BY <1>1
  <2>2. ASSUME NEW j \in Slots, slots'[j] # NoTrack
        PROVE  /\ slots'[j].last_seen_us = heard'[slots'[j].mac]
               /\ slots'[j].first_seen_us <= slots'[j].last_seen_us
               /\ slots'[j].first_seen_us > 0
    <3>1. CASE j = i
      BY <1>1, <1>2, <1>4, <3>1
    <3>2. CASE j # i
      BY <1>1, <1>4, <1>5, <1>6, <2>2, <3>2 DEF TracksInv, Stamps, Used
    <3> QED
      BY <3>1, <3>2
  <2>3. \A k, n \in Macs : heard'[k] = heard'[n] /\ heard'[k] # 0 => k = n
    <3>1. \A n \in Macs : n # m => heard'[n] = heard[n] /\ heard[n] < t
      BY <1>1
    <3>2. heard'[m] = t
      BY <1>1
    <3> QED
      BY <1>1, <3>1, <3>2 DEF TracksInv, Stamps
  <2> QED
    BY <2>1, <2>2, <2>3 DEF Stamps, Used
<1>10. OneTrackPerMac'
  BY <1>2, <1>4, <1>5 DEF TracksInv, OneTrackPerMac, Used
<1>11. OwnData'
  <2> SUFFICES ASSUME NEW j \in Slots, slots'[j] # NoTrack
               PROVE  /\ \A k \in Kinds : slots'[j].info[k] \in {0, slots'[j].mac}
                      /\ slots'[j].info["location"] = 0 <=> slots'[j].location_t_us = 0
                      /\ slots'[j].location_t_us # 0 =>
                            slots'[j].location_t_us \in
                                slots'[j].first_seen_us..slots'[j].last_seen_us
    BY DEF OwnData, Used
  <2>1. CASE j = i
    BY <1>2, <1>4, <2>1
  <2>2. CASE j # i
    BY <1>4, <2>2 DEF TracksInv, OwnData, Used
  <2> QED
    BY <2>1, <2>2
<1>12. NewestKept'
  <2> SUFFICES ASSUME NEW n \in Macs, Forgotten(n)', purgedAt <= heard'[n] + EvictAfter,
                      NEW j \in Slots
               PROVE  slots'[j] # NoTrack /\ slots'[j].last_seen_us > heard'[n]
    BY <1>1 DEF NewestKept, Used
  <2>1. n # m /\ heard'[n] = heard[n] /\ heard[n] # 0
    BY <1>1, <1>2, <1>4 DEF Forgotten, Tracked, Used
  <2>2. CASE n \notin Tracked
    <3>1. \A k \in Slots : Used(k) /\ slots[k].last_seen_us > heard[n]
      BY <2>1, <2>2 DEF TracksInv, NewestKept, Forgotten
    <3>2. CASE j = i
      BY <1>1, <1>2, <1>4, <2>1, <3>2
    <3>3. CASE j # i
      BY <1>4, <2>1, <3>1, <3>3 DEF Used
    <3> QED
      BY <3>2, <3>3
  <2>3. CASE n \in Tracked
    <3>1. PICK k \in Slots : Used(k) /\ slots[k].mac = n
      BY <2>3 DEF Tracked
    <3>2. k = i
      <4> SUFFICES ASSUME k # i PROVE FALSE
        OBVIOUS
      <4>1. slots'[k] # NoTrack /\ slots'[k].mac = n
        BY <1>4, <3>1 DEF Used
      <4> QED
        BY <4>1 DEF Forgotten, Tracked, Used
    <3>3. ~Holds(i, m) /\ Used(i) /\ slots[i].last_seen_us = heard[n]
      BY <2>1, <3>1, <3>2 DEF TracksInv, Stamps, Holds
    <3>4. Used(j) /\ heard[n] <= slots[j].last_seen_us
      BY <1>2, <3>3, TakenOver DEF TracksInv
    <3>5. CASE j = i
      BY <1>1, <1>2, <1>4, <2>1, <3>5
    <3>6. CASE j # i
      <4>1. slots[j].last_seen_us # heard[n]
        BY <1>6, <2>1, <3>1, <3>2, <3>4, <3>6 DEF TracksInv, Stamps, OneTrackPerMac
      <4> QED
        BY <1>1, <1>4, <1>6, <2>1, <3>4, <3>6, <4>1 DEF Used
    <3> QED
      BY <3>5, <3>6
  <2> QED
    BY <2>2, <2>3
<1> QED
  BY <1>7, <1>8, <1>9, <1>10, <1>11, <1>12 DEF TracksInv

\* Purging takes away only what was not heard within the eviction age.
LEMMA TracksInvPurge == TracksInv /\ Purge => TracksInv'
<1> SUFFICES ASSUME TracksInv, Purge PROVE TracksInv'
  OBVIOUS
<1>1. /\ slots \in [Slots -> Tracks \cup {NoTrack}] /\ heard \in [Macs -> Nat]
      /\ latest \in Nat /\ now \in Nat /\ latest <= now
      /\ UNCHANGED <<now, heard, latest>> /\ purgedAt' = now
  BY DEF TracksInv, TracksTypeOK, Clock, Purge
<1>2. \A i \in Slots : slots'[i] # NoTrack => slots'[i] = slots[i] /\ Used(i)
  BY DEF Purge, Used
<1>3. \A i \in Slots : Used(i) /\ ~Stale(slots[i]) => slots'[i] = slots[i]
  BY DEF Purge
<1>4. TracksTypeOK'
  BY <1>1, TracksAssumption DEF TracksInv, TracksTypeOK, Purge
<1>5. Clock' /\ Stamps' /\ OneTrackPerMac' /\ OwnData'
  BY <1>1, <1>2 DEF TracksInv, Clock, Stamps, OneTrackPerMac, OwnData, Used
<1>6. NewestKept'
  <2> SUFFICES ASSUME NEW n \in Macs, Forgotten(n)', now <= heard[n] + EvictAfter,
                      NEW j \in Slots
               PROVE  slots'[j] # NoTrack /\ slots'[j].last_seen_us > heard[n]
    BY <1>1 DEF NewestKept, Used
  <2>1. heard[n] # 0 /\ heard[n] \in Nat /\ purgedAt \in Nat /\ purgedAt <= now
        /\ EvictAfter \in Nat
    BY <1>1, TracksAssumption DEF Forgotten, TracksInv, Clock, TracksTypeOK
  <2>2. \A i \in Slots : Used(i) /\ slots[i].last_seen_us >= heard[n] => slots'[i] = slots[i]
    <3> SUFFICES ASSUME NEW i \in Slots, Used(i), slots[i].last_seen_us >= heard[n]
                 PROVE  ~Stale(slots[i])
      BY <1>3
    <3>1. slots[i].last_seen_us \in Nat
      BY UsedTrack DEF TracksInv, Tracks
    <3> QED
      BY <1>1, <2>1, <3>1 DEF Stale, SaturatingSub
  <2>3. n \notin Tracked
    <3> SUFFICES ASSUME NEW k \in Slots, Used(k), slots[k].mac = n PROVE FALSE
      BY DEF Tracked
    <3>1. slots[k].last_seen_us = heard[n]
      BY DEF TracksInv, Stamps
    <3>2. slots'[k] = slots[k]
      BY <2>1, <2>2, <3>1
    <3> QED
      BY <3>2 DEF Forgotten, Tracked, Used
  <2>4. Used(j) /\ slots[j].last_seen_us > heard[n]
    <3>1. purgedAt <= heard[n] + EvictAfter
      BY <1>1, <2>1
    <3> QED
      BY <2>1, <2>3, <3>1 DEF TracksInv, NewestKept, Forgotten
  <2>5. slots[j].last_seen_us \in Nat
    BY <2>4, UsedTrack DEF TracksInv, Tracks
  <2> QED
    BY <2>1, <2>2, <2>4, <2>5 DEF Used
<1> QED
  BY <1>4, <1>5, <1>6 DEF TracksInv

LEMMA TracksInvClear == TracksInv /\ Clear => TracksInv'
<1> SUFFICES ASSUME TracksInv, Clear PROVE TracksInv'
  OBVIOUS
<1>1. /\ \A i \in Slots : slots'[i] = NoTrack
      /\ \A m \in Macs : heard'[m] = 0
      /\ UNCHANGED <<now, latest, purgedAt>>
  BY DEF Clear
<1>2. TracksTypeOK'
  BY DEF Clear, TracksInv, TracksTypeOK
<1>3. latest \in Nat
  BY DEF TracksInv, TracksTypeOK
<1>4. Clock' /\ Stamps' /\ OneTrackPerMac' /\ OwnData' /\ NewestKept'
  BY <1>1, <1>3
  DEF TracksInv, Clock, Stamps, OneTrackPerMac, OwnData, NewestKept, Forgotten, Used
<1> QED
  BY <1>2, <1>4 DEF TracksInv

LEMMA TracksInvStep == TracksInv /\ [TracksNext]_tracksVars => TracksInv'
<1>1. TracksInv /\ UNCHANGED tracksVars => TracksInv'
  BY DEF tracksVars, TracksInv, TracksTypeOK, Stamps, Clock, OneTrackPerMac, OwnData,
         NewestKept, Forgotten, Tracked, Used
<1> QED
  BY <1>1, TracksInvTick, TracksInvUpdate, TracksInvPurge, TracksInvClear DEF TracksNext

LEMMA TracksAlways == TracksSpec => []TracksInv
BY TracksInvInit, TracksInvStep, PTL DEF TracksSpec
-----------------------------------------------------------------------------

\* Every field of every track stays in its type, the counters saturate and the
\* average stays within the range of the signals.
THEOREM TracksTyped == TracksSpec => []TracksTypeOK
<1>1. TracksInv => TracksTypeOK
  BY DEF TracksInv
<1> QED
  BY TracksAlways, <1>1, PTL

\* A transmitter has at most one track.
THEOREM TracksUnique == TracksSpec => []OneTrackPerMac
<1>1. TracksInv => OneTrackPerMac
  BY DEF TracksInv
<1> QED
  BY TracksAlways, <1>1, PTL

\* A track shows only what its own transmitter sent while the track lived.
THEOREM TracksOwn == TracksSpec => []OwnData
<1>1. TracksInv => OwnData
  BY DEF TracksInv
<1> QED
  BY TracksAlways, <1>1, PTL

\* The table holds the transmitters heard most recently.
THEOREM TracksNewest == TracksSpec => []NewestKept
<1>1. TracksInv => NewestKept
  BY DEF TracksInv
<1> QED
  BY TracksAlways, <1>1, PTL

-----------------------------------------------------------------------------
(* The rows *)

Positions == 1..Cardinality(Slots)

LEMMA SlotsCounted == IsFiniteSet(Slots) /\ Cardinality(Slots) \in Nat /\ Slots \subseteq Nat
BY TracksAssumption, SnapshotAssumption, FS_CardinalityType

\* What is compared of a slot, and that a visible one comes before a filler.
LEMMA KeysTyped ==
    ASSUME TracksTypeOK, NEW i \in Slots
    PROVE  /\ KeyOf(i).avg \in Int /\ KeyOf(i).mac \in Int
           /\ IsVisible(i) => /\ slots[i] \in Tracks
                              /\ KeyOf(i).slot = i
                              /\ KeyOf(i).avg = slots[i].rssi_avg_x16
                              /\ KeyOf(i).mac = slots[i].mac
                              /\ KeyOf(i).avg > -32768
           /\ ~IsVisible(i) => KeyOf(i).avg = -32768 /\ KeyOf(i).slot = NoSlot
<1>1. CASE IsVisible(i)
  <2>1. slots[i] \in Tracks
    BY <1>1 DEF IsVisible, Used, TracksTypeOK
  <2>2. slots[i].rssi_avg_x16 \in Averages /\ slots[i].mac \in Nat
    BY <2>1, TracksAssumption DEF Tracks
  <2>3. \A a \in Averages : a \in Int /\ a > -32768
    BY DEF Averages
  <2>4. /\ KeyOf(i).slot = i
        /\ KeyOf(i).avg = slots[i].rssi_avg_x16
        /\ KeyOf(i).mac = slots[i].mac
    BY <1>1 DEF KeyOf
  <2> QED
    BY <1>1, <2>1, <2>2, <2>3, <2>4
<1>2. CASE ~IsVisible(i)
  BY <1>2, SnapshotAssumption DEF KeyOf, Filler
<1> QED
  BY <1>1, <1>2

\* A total order on the slots which sorts their keys: equal keys go by slot.
Precedes(i, j) ==
    \/ KeyOf(i).avg > KeyOf(j).avg
    \/ KeyOf(i).avg = KeyOf(j).avg /\ KeyOf(i).mac < KeyOf(j).mac
    \/ KeyOf(i).avg = KeyOf(j).avg /\ KeyOf(i).mac = KeyOf(j).mac /\ i < j

LEMMA PrecedesOrders ==
    ASSUME TracksTypeOK
    PROVE  /\ \A i \in Slots : ~Precedes(i, i)
           /\ \A i, j \in Slots : i = j \/ Precedes(i, j) \/ Precedes(j, i)
           /\ \A i, j, k \in Slots : Precedes(i, j) /\ Precedes(j, k) => Precedes(i, k)
           /\ \A i, j \in Slots : Precedes(i, j) => Before(KeyOf(i), KeyOf(j))
<1>1. \A i \in Slots : KeyOf(i).avg \in Int /\ KeyOf(i).mac \in Int /\ i \in Int
  BY KeysTyped, SlotsCounted
<1> QED
  BY <1>1 DEF Precedes, Before

\* The place of a slot in that order.
AheadOf(i) == {j \in Slots : Precedes(j, i)}
PlaceOf(i) == Cardinality(AheadOf(i)) + 1

LEMMA PlacesGrow ==
    ASSUME TracksTypeOK
    PROVE  /\ \A i \in Slots : PlaceOf(i) \in Positions
           /\ \A i, j \in Slots : Precedes(i, j) => PlaceOf(i) < PlaceOf(j)
<1>1. ASSUME NEW i \in Slots
      PROVE  /\ IsFiniteSet(AheadOf(i)) /\ Cardinality(AheadOf(i)) \in Nat
             /\ Cardinality(AheadOf(i)) < Cardinality(Slots)
  <2>1. AheadOf(i) \subseteq Slots /\ i \notin AheadOf(i)
    BY PrecedesOrders DEF AheadOf
  <2>2. AheadOf(i) # Slots
    BY <2>1
  <2> QED
    BY <2>1, <2>2, SlotsCounted, FS_Subset, FS_CardinalityType
<1>2. ASSUME NEW i \in Slots, NEW j \in Slots, Precedes(i, j)
      PROVE  Cardinality(AheadOf(i)) < Cardinality(AheadOf(j))
  <2>1. AheadOf(i) \subseteq AheadOf(j)
    BY <1>2, PrecedesOrders DEF AheadOf
  <2>2. i \in AheadOf(j) /\ i \notin AheadOf(i)
    BY <1>2, PrecedesOrders DEF AheadOf
  <2>3. Cardinality(AheadOf(i)) \in Nat /\ Cardinality(AheadOf(j)) \in Nat /\ IsFiniteSet(AheadOf(j))
    BY <1>1
  <2> QED
    BY <2>1, <2>2, <2>3, FS_Subset
<1> QED
  BY <1>1, <1>2, SlotsCounted DEF PlaceOf, Positions

\* The keys can be sorted, and Order sorts them.
LEMMA OrderSorts ==
    ASSUME TracksTypeOK
    PROVE  /\ Order \in [Positions -> Slots]
           /\ \A i \in Slots : \E n \in Positions : Order[n] = i
           /\ \A n, p \in Positions : n < p =>
                  Order[n] # Order[p] /\ Before(KeyOf(Order[n]), KeyOf(Order[p]))
<1> DEFINE place == [i \in Slots |-> PlaceOf(i)]
           sorted == [n \in Positions |-> CHOOSE i \in Slots : PlaceOf(i) = n]
<1>1. place \in Injection(Slots, Positions)
  <2>1. place \in [Slots -> Positions]
    BY PlacesGrow
  <2>2. \A i, j \in Slots : PlaceOf(i) = PlaceOf(j) => i = j
    BY PlacesGrow, PrecedesOrders DEF Positions
  <2> QED
    BY <2>1, <2>2 DEF Injection, IsInjective
<1>2. IsFiniteSet(Positions) /\ Cardinality(Positions) = Cardinality(Slots)
  BY SlotsCounted, FS_Interval DEF Positions
<1>3. place \in Surjection(Slots, Positions)
  BY <1>1, <1>2, FS_Injection
<1>4. \A n \in Positions : \E i \in Slots : PlaceOf(i) = n
  BY <1>3 DEF Surjection
<1>5. \A n \in Positions : sorted[n] \in Slots /\ PlaceOf(sorted[n]) = n
  BY <1>4
<1>6. sorted \in [Positions -> Slots]
  BY <1>5
<1>7. sorted \in Orders
  BY <1>5, <1>6 DEF Orders, Injection, IsInjective, Positions
<1>8. \A n, p \in Positions : n < p => Before(KeyOf(sorted[n]), KeyOf(sorted[p]))
  <2> SUFFICES ASSUME NEW n \in Positions, NEW p \in Positions, n < p
               PROVE  Before(KeyOf(sorted[n]), KeyOf(sorted[p]))
    OBVIOUS
  <2> HIDE DEF sorted
  <2>1. Precedes(sorted[n], sorted[p])
    BY <1>5, PlacesGrow, PrecedesOrders DEF Positions
  <2> QED
    BY <2>1, <1>5, PrecedesOrders
<1>9. \A f \in Orders : DOMAIN f = Positions
  BY DEF Orders, Injection, Positions
<1>10. \E f \in Orders : \A n, p \in DOMAIN f : n < p => Before(KeyOf(f[n]), KeyOf(f[p]))
  <2> HIDE DEF sorted
  <2> QED
    BY <1>7, <1>8, <1>9
<1>11. /\ Order \in Orders
       /\ \A n, p \in DOMAIN Order : n < p => Before(KeyOf(Order[n]), KeyOf(Order[p]))
  BY <1>10 DEF Order
<1>12. Order \in [Positions -> Slots]
       /\ \A n, p \in Positions : n # p => Order[n] # Order[p]
  BY <1>11 DEF Orders, Injection, IsInjective, Positions
<1>13. Order \in Surjection(Positions, Slots)
  BY <1>11, <1>2, SlotsCounted, FS_Injection DEF Orders, Positions
<1>14. \A i \in Slots : \E n \in Positions : Order[n] = i
  BY <1>13 DEF Surjection
<1> QED
  BY <1>9, <1>11, <1>12, <1>14, SlotsCounted DEF Positions

\* The visible tracks come first.
LEMMA VisibleFirst ==
    ASSUME TracksTypeOK
    PROVE  /\ visible_count \in Nat /\ visible_count <= Cardinality(Slots)
           /\ \A n \in Positions : IsVisible(Order[n]) <=> n <= visible_count
<1> DEFINE first == {n \in Positions : IsVisible(Order[n])}
           at == [n \in first |-> Order[n]]
<1>1. IsFiniteSet(Visible) /\ Visible \subseteq Slots /\ Cardinality(Visible) \in Nat
      /\ Cardinality(Visible) <= Cardinality(Slots)
  BY SlotsCounted, FS_Subset, FS_CardinalityType DEF Visible
<1>2. at \in Bijection(first, Visible)
  <2>1. at \in [first -> Visible]
    BY OrderSorts DEF Visible
  <2>2. IsInjective(at)
    BY OrderSorts, SlotsCounted DEF IsInjective, Positions
  <2>3. \A i \in Visible : \E n \in first : at[n] = i
    BY OrderSorts DEF Visible
  <2> QED
    BY <2>1, <2>2, <2>3 DEF Bijection, Injection, Surjection
<1>3. IsFiniteSet(first)
  <2>1. IsFiniteSet(Positions) /\ first \subseteq Positions
    BY SlotsCounted, FS_Interval DEF Positions
  <2> HIDE DEF first
  <2> QED
    BY <2>1, FS_Subset
<1>4. Cardinality(first) = visible_count
  BY <1>2, <1>3, FS_Bijection DEF visible_count, ExistsBijection
<1>5. ASSUME NEW n \in first, NEW p \in Positions, p < n PROVE p \in first
  BY <1>5, OrderSorts, KeysTyped DEF Before
<1>6. first \subseteq 1..visible_count
  <2> SUFFICES ASSUME NEW n \in first PROVE n \in 1..visible_count
    OBVIOUS
  <2>1. n \in Nat /\ 1..n \subseteq first
    BY <1>5, SlotsCounted DEF Positions
  <2>2. Cardinality(1..n) = n
    BY <2>1, FS_Interval
  <2> HIDE DEF first
  <2>3. n <= visible_count
    BY <2>1, <2>2, <1>3, <1>4, FS_Subset
  <2>4. n \in Positions
    BY DEF first
  <2> QED
    BY <2>1, <2>3, <2>4, <1>1 DEF Positions, visible_count
<1>7. IsFiniteSet(1..visible_count) /\ Cardinality(1..visible_count) = visible_count
  BY <1>1, FS_Interval DEF visible_count
<1>8. first = 1..visible_count
  <2> HIDE DEF first
  <2> QED
    BY <1>4, <1>6, <1>7, FS_Subset
<1> QED
  BY <1>1, <1>8, SlotsCounted DEF visible_count, Positions

\* What a row shows.
LEMMA RowsShown ==
    ASSUME TracksTypeOK, NEW r \in 1..SnapshotRows
    PROVE  snapshot[r] = IF r <= visible_count THEN slots[Order[r]] ELSE NoTrack
<1>1. snapshot[r] = IF r \in Positions /\ KeyOf(Order[r]).slot \in Slots
                    THEN slots[KeyOf(Order[r]).slot] ELSE NoTrack
  BY DEF snapshot, Keys, Positions
<1>2. r \in Nat /\ r >= 1
  BY SnapshotAssumption
<1>3. CASE r \in Positions
  BY <1>1, <1>3, OrderSorts, VisibleFirst, KeysTyped, SnapshotAssumption
<1>4. CASE r \notin Positions
  BY <1>1, <1>2, <1>4, VisibleFirst, SlotsCounted DEF Positions
<1> QED
  BY <1>3, <1>4

LEMMA RowsRanked == TracksTypeOK /\ OneTrackPerMac => RowsAreStrongest
<1> SUFFICES ASSUME TracksTypeOK, OneTrackPerMac PROVE RowsAreStrongest
  OBVIOUS
<1> DEFINE rows == snapshot
           shown == {r \in 1..SnapshotRows : rows[r] # NoTrack}
<1>0. SnapshotRows \in Nat /\ visible_count \in Nat /\ visible_count <= Cardinality(Slots)
  BY SnapshotAssumption, VisibleFirst
<1>1. \A n \in 1..visible_count : /\ n \in Positions /\ Order[n] \in Visible
                                  /\ slots[Order[n]] # NoTrack
  BY <1>0, SlotsCounted, VisibleFirst, OrderSorts DEF Positions, Visible, IsVisible, Used
<1>2. \A r \in 1..SnapshotRows : r \in shown <=> r <= visible_count
  BY <1>0, <1>1, RowsShown
<1>3. \A r \in shown : /\ r \in 1..visible_count /\ r \in 1..SnapshotRows
                       /\ rows[r] = slots[Order[r]]
  BY <1>0, <1>2, RowsShown
<1>4. ASSUME NEW n \in 1..visible_count, NEW p \in 1..visible_count, n < p
      PROVE  Outranks(slots[Order[n]], slots[Order[p]])
  <2>1. Order[n] \in Slots /\ Order[p] \in Slots /\ Order[n] # Order[p]
        /\ IsVisible(Order[n]) /\ IsVisible(Order[p])
    BY <1>1, <1>4, OrderSorts DEF Visible
  <2>2. slots[Order[n]].mac # slots[Order[p]].mac
    BY <2>1 DEF OneTrackPerMac, Holds, IsVisible
  <2>3. Before(KeyOf(Order[n]), KeyOf(Order[p]))
    BY <1>1, <1>4, OrderSorts
  <2> QED
    BY <2>1, <2>2, <2>3, KeysTyped DEF Before, Outranks
<1>5. shown = 1..(IF visible_count < SnapshotRows THEN visible_count ELSE SnapshotRows)
  BY <1>0, <1>2
<1>6. \A r, s \in shown : r < s => Outranks(rows[r], rows[s])
  BY <1>3, <1>4
<1>7. \A r \in shown : \E i \in Visible : rows[r] = slots[i]
  BY <1>1, <1>3
<1>8. ASSUME NEW i \in Visible, \A r \in shown : rows[r] # slots[i], NEW r \in shown
      PROVE  Outranks(rows[r], slots[i])
  <2>1. PICK n \in Positions : Order[n] = i
    BY OrderSorts DEF Visible
  <2>2. n \in 1..visible_count /\ n \notin shown
    BY <1>8, <1>3, <2>1, VisibleFirst, SlotsCounted DEF Positions, Visible
  <2>3. r < n
    BY <1>0, <1>2, <1>3, <2>2
  <2> QED
    BY <1>3, <1>4, <2>1, <2>2, <2>3
<1> HIDE DEF rows, shown
<1> QED
  BY <1>5, <1>6, <1>7, <1>8 DEF RowsAreStrongest, rows, shown

\* At every moment the rows of the display are the strongest visible tracks in order,
\* without a gap or a repeat, for any number of slots and rows.
THEOREM TracksRows == TracksSpec => []RowsAreStrongest
<1>1. TracksInv => RowsAreStrongest
  BY RowsRanked DEF TracksInv
<1> QED
  BY <1>1, TracksAlways, PTL
=============================================================================
