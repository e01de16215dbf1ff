--------------------------------- MODULE Tracks ---------------------------------
(***************************************************************************)
(* The track table (firmware/src/tracks.rs), shared under one lock by      *)
(* obs_task (update), ui_task (purge, snapshot, clear) and status_task     *)
(* (visible_count).  Each of those holds the lock throughout and all run   *)
(* in the cooperative executor, so each is one action.                     *)
(*                                                                         *)
(* A MAC address is a number, as the table orders them; times are in ticks *)
(* of any length.  Fields that are only overwritten and shown (counter,    *)
(* channel, last RSSI) are left out.  A decoded item is known by the MAC   *)
(* it came from, with 0 for None.                                          *)
(*                                                                         *)
(* AnySlot, NewestFirst, KeepOldTrack, WrongAdd, StaleFromHide and         *)
(* ClearHidden are wrong variants of a definition that follows each.       *)
(***************************************************************************)
EXTENDS Average, FiniteSets

CONSTANTS
    Macs,          \* transmitters
    Slots,         \* indices of the table, 0..MAX_TRACKS-1 in the code
    NoTrack,       \* an empty slot
    Kinds,         \* items a track remembers the last of
    Packs,         \* sets of items a pack can hold, with "auth" for Auth pages
    Signals,       \* signal strengths received
    HideAfter,     \* HIDE_AFTER_US (10 s)
    EvictAfter,    \* EVICT_AFTER_US (60 s)
    CountMax,      \* where frames and auth_msgs saturate
    MaxNow         \* bound: the last moment

VARIABLES
    slots,      \* TrackTable.slots
    now,        \* the clock
    heard,      \* history: when each MAC was last received since the last clear, 0 never
    latest,     \* history: the newest stamp the table was updated with
    purgedAt    \* history: when the table was last purged

tracksVars == <<slots, now, heard, latest, purgedAt>>

Tracks ==
    [mac : Macs, first_seen_us : Nat, last_seen_us : Nat, frames : 0..CountMax,
     rssi_avg_x16 : Averages, info : [Kinds -> Macs \cup {0}], location_t_us : Nat,
     auth_msgs : 0..CountMax]

ASSUME TracksAssumption ==
    /\ Macs \subseteq Nat \ {0}
    /\ Slots \subseteq Nat
    /\ NoTrack \notin Tracks
    /\ "location" \in Kinds
    /\ Packs \subseteq SUBSET (Kinds \cup {"auth"})
    /\ Signals \subseteq I8
    /\ HideAfter \in Nat /\ EvictAfter \in Nat /\ HideAfter <= EvictAfter
    /\ CountMax \in Nat /\ MaxNow \in Nat

Used(i) == slots[i] # NoTrack
Holds(i, mac) == Used(i) /\ slots[i].mac = mac
Tracked == {slots[i].mac : i \in {j \in Slots : Used(j)}}

TracksInit ==
    /\ slots = [i \in Slots |-> NoTrack]
    /\ now = 0
    /\ heard = [m \in Macs |-> 0]
    /\ latest = 0
    /\ purgedAt = 0

Tick ==
    /\ now < MaxNow
    /\ now' = now + 1
    /\ UNCHANGED <<slots, heard, latest, purgedAt>>

-----------------------------------------------------------------------------
(* update *)

AnySlot(i, mac) == TRUE
NewestFirst(i, mac) ==
    \/ Holds(i, mac)
    \/ /\ \A j \in Slots : ~Holds(j, mac)
       /\ ~Used(i)
    \/ /\ \A j \in Slots : Used(j) /\ ~Holds(j, mac)
       /\ \A j \in Slots : slots[j].last_seen_us <= slots[i].last_seen_us

\* The slot update works on: the first that holds the MAC, else the first empty
\* one, else the first of the least recently seen.
IsSlotFor(i, mac) ==
    \/ /\ Holds(i, mac)
       /\ \A j \in Slots : Holds(j, mac) => i <= j
    \/ /\ \A j \in Slots : ~Holds(j, mac)
       /\ ~Used(i)
       /\ \A j \in Slots : ~Used(j) => i <= j
    \/ /\ \A j \in Slots : Used(j) /\ ~Holds(j, mac)
       /\ \A j \in Slots : \/ slots[i].last_seen_us < slots[j].last_seen_us
                           \/ slots[i].last_seen_us = slots[j].last_seen_us /\ i <= j

Fresh(mac, rssi, t) ==
    [mac |-> mac, first_seen_us |-> t, last_seen_us |-> 0, frames |-> 0,
     rssi_avg_x16 |-> StartAverage(rssi), info |-> [k \in Kinds |-> 0],
     location_t_us |-> 0, auth_msgs |-> 0]

KeepOldTrack(i, mac, rssi, t) ==
    IF Used(i) THEN [slots[i] EXCEPT !.mac = mac] ELSE Fresh(mac, rssi, t)

\* A slot that was empty or another transmitter's starts anew.
StartingTrack(i, mac, rssi, t) ==
    IF Holds(i, mac) THEN slots[i] ELSE Fresh(mac, rssi, t)

WrongAdd(n, d) == n + d
SaturatingAdd(n, d) == IF n + d > CountMax THEN CountMax ELSE n + d

\* One frame of the track: its stamp, its signal and the items of its pack.
Updated(t0, rssi, items, t) ==
    [t0 EXCEPT
        !.last_seen_us = t,
        !.frames = SaturatingAdd(@, 1),
        !.rssi_avg_x16 = NextAverage(@, rssi),
        !.info = [k \in Kinds |-> IF k \in items THEN t0.mac ELSE t0.info[k]],
        !.location_t_us = IF "location" \in items THEN t ELSE @,
        !.auth_msgs = IF "auth" \in items THEN SaturatingAdd(@, 1) ELSE @]

\* obs_task applies an observation that the driver thread stamped t.
Apply(mac, rssi, items, t) ==
    /\ \E i \in Slots :
           /\ IsSlotFor(i, mac)
           /\ slots' = [slots EXCEPT ![i] =
                            Updated(StartingTrack(i, mac, rssi, t), rssi, items, t)]
    /\ heard' = [heard EXCEPT ![mac] = t]
    /\ latest' = t
    /\ UNCHANGED <<now, purgedAt>>

\* Observations are queued in the order of their stamps, and applied some time
\* later.  Receiver shows that the code that fills and empties the queue keeps to it.
Update(mac, rssi, items, t) ==
    latest < t /\ t <= now /\ Apply(mac, rssi, items, t)

-----------------------------------------------------------------------------
(* The other users of the table *)

SaturatingSub(a, b) == IF a >= b THEN a - b ELSE 0

StaleFromHide(t) == SaturatingSub(now, t.last_seen_us) > HideAfter
Stale(t) == SaturatingSub(now, t.last_seen_us) > EvictAfter

\* ui_task, at the start of each pass.
Purge ==
    /\ slots' = [i \in Slots |-> IF Used(i) /\ Stale(slots[i]) THEN NoTrack ELSE slots[i]]
    /\ purgedAt' = now
    /\ UNCHANGED <<now, heard, latest>>

ClearHidden ==
    /\ slots' = [i \in Slots |-> IF Used(i) /\ now > slots[i].last_seen_us + HideAfter
                                 THEN NoTrack ELSE slots[i]]
    /\ heard' = [m \in Macs |-> 0]
    /\ UNCHANGED <<now, latest, purgedAt>>
\* ui_task, on ClearTracks.
Clear ==
    /\ slots' = [i \in Slots |-> NoTrack]
    /\ heard' = [m \in Macs |-> 0]
    /\ UNCHANGED <<now, latest, purgedAt>>

TracksNext ==
    \/ Tick
    \/ \E mac \in Macs, rssi \in Signals, items \in Packs,
          t \in (latest + 1)..now :
           Update(mac, rssi, items, t)
    \/ Purge
    \/ Clear

TracksSpec == TracksInit /\ [][TracksNext]_tracksVars

-----------------------------------------------------------------------------
(* Properties *)

TracksTypeOK ==
    /\ slots \in [Slots -> Tracks \cup {NoTrack}]
    /\ now \in Nat
    /\ heard \in [Macs -> Nat]
    /\ latest \in Nat
    /\ purgedAt \in Nat

\* A transmitter never has two tracks: the display would list it twice and each
\* track would get only some of its frames.
OneTrackPerMac ==
    \A i, j \in Slots : Used(i) /\ Used(j) /\ slots[i].mac = slots[j].mac => i = j

\* What a track shows was sent by its own transmitter, within the track's life:
\* nothing of a track that was evicted, purged or cleared survives in its slot.
OwnData ==
    \A i \in Slots : Used(i) =>
        LET t == slots[i] IN
        /\ \A k \in Kinds : t.info[k] \in {0, t.mac}
        /\ t.info["location"] = 0 <=> t.location_t_us = 0
        /\ t.location_t_us # 0 => t.location_t_us \in t.first_seen_us..t.last_seen_us

\* Heard since the last clear and yet not in the table.
Forgotten(m) == heard[m] # 0 /\ m \notin Tracked

\* The table keeps the transmitters heard most recently: one heard no longer ago
\* than the eviction age at the last purge is missing only while every slot is
\* taken by another that was heard later.
NewestKept ==
    \A m \in Macs : Forgotten(m) /\ purgedAt <= heard[m] + EvictAfter =>
        \A i \in Slots : Used(i) /\ slots[i].last_seen_us > heard[m]
=============================================================================
