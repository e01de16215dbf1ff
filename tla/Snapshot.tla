-------------------------------- MODULE Snapshot --------------------------------
(***************************************************************************)
(* What the table shows of itself: visible_count for the STATUS frame and  *)
(* the header, and snapshot, the rows of the display.  snapshot sorts one  *)
(* key per slot, fillers for the slots that are not visible, and copies    *)
(* the tracks of the first rows.                                           *)
(***************************************************************************)
EXTENDS Tracks, Functions

CONSTANTS
    SnapshotRows,   \* SNAPSHOT_ROWS (8)
    NoSlot,         \* usize::MAX, an index outside the table
    LastMac         \* ff:ff:ff:ff:ff:ff

ASSUME SnapshotAssumption ==
    /\ SnapshotRows \in Nat \ {0}
    /\ IsFiniteSet(Slots)
    /\ NoSlot \notin Slots
    /\ LastMac \in Nat

VisibleAge(t) == SaturatingSub(now, t.last_seen_us) <= HideAfter

IsVisible(i) == Used(i) /\ VisibleAge(slots[i])

Visible == {i \in Slots : IsVisible(i)}

visible_count == Cardinality(Visible)

Filler == [avg |-> -32768, mac |-> LastMac, slot |-> NoSlot]

KeyOf(i) ==
    IF IsVisible(i)
    THEN [avg |-> slots[i].rssi_avg_x16, mac |-> slots[i].mac, slot |-> i]
    ELSE Filler

WeakFirst(a, b) == a.avg < b.avg \/ (a.avg = b.avg /\ a.mac <= b.mac)
\* Strongest average first, then MAC ascending.
Before(a, b) == a.avg > b.avg \/ (a.avg = b.avg /\ a.mac <= b.mac)

\* The orders the slots can have, and one that sorts their keys.  Slots whose keys
\* are equal are not visible, so which of them sort_unstable_by puts first is no matter.
Orders == Injection(1..Cardinality(Slots), Slots)

Order ==
    CHOOSE f \in Orders :
        \A n, p \in DOMAIN f : n < p => Before(KeyOf(f[n]), KeyOf(f[p]))

Keys ==
    LET order == Order
    IN  [n \in 1..Cardinality(Slots) |-> KeyOf(order[n])]

\* The rows, with NoTrack where there is none to show.
snapshot ==
    LET keys == Keys
    IN  [r \in 1..SnapshotRows |->
            IF r \in DOMAIN keys /\ keys[r].slot \in Slots
            THEN slots[keys[r].slot] ELSE NoTrack]

-----------------------------------------------------------------------------
(* Properties *)

\* t is to be listed before u.
Outranks(t, u) ==
    t.rssi_avg_x16 > u.rssi_avg_x16 \/ (t.rssi_avg_x16 = u.rssi_avg_x16 /\ t.mac < u.mac)

\* The rows are the strongest visible tracks in order, without a gap and without
\* a repeat, and a visible track is left out only when the rows are full.
RowsAreStrongest ==
    LET rows == snapshot
        shown == {r \in 1..SnapshotRows : rows[r] # NoTrack}
    IN  /\ shown = 1..(IF visible_count < SnapshotRows THEN visible_count ELSE SnapshotRows)
        /\ \A r, s \in shown : r < s => Outranks(rows[r], rows[s])
        /\ \A r \in shown : \E i \in Visible : rows[r] = slots[i]
        /\ \A i \in Visible : (\A r \in shown : rows[r] # slots[i]) =>
               \A r \in shown : Outranks(rows[r], slots[i])
=============================================================================
