----------------------------------- MODULE Ui -----------------------------------
(***************************************************************************)
(* ui_task (firmware/src/ui.rs): each pass takes a snapshot, fixes the     *)
(* selection, repaints what changed and then waits for an event or 500 ms. *)
(* A pass yields between lines, but nothing another task writes is read    *)
(* again before the wait, so it is one action.                             *)
(*                                                                         *)
(* The screen is kept as bands with the geometry of the code: drawing a    *)
(* line fills its band, which damages what stood in a band it overlaps.  A *)
(* line is drawn only when it differs from the line cache.  What a line    *)
(* says is abstracted to what it depends on; Blank is an empty line, which *)
(* cannot be told from a band nothing was drawn in.                        *)
(*                                                                         *)
(* The snapshot (see Snapshot) is any sequence of distinct tracks, and     *)
(* events are queued by the buttons at any time.                           *)
(*                                                                         *)
(* CacheKept, Keep, MustClearOnDirty and EvtFitsFull are wrong variants of *)
(* the definition after each.                                              *)
(***************************************************************************)
EXTENDS Naturals, Sequences, SequencesExt, UiEvents

CONSTANTS
    Macs,           \* transmitters
    NoMac,          \* nothing selected
    Headers,        \* contents of the header line
    SnapshotRows,   \* SNAPSHOT_ROWS (8)
    ListRows,       \* LIST_ROWS (6)
    EvtCap          \* capacity of UI_EVT (8)

ASSUME UiAssumption ==
    /\ NoMac \notin Macs
    /\ SnapshotRows \in Nat \ {0}
    /\ ListRows \in 1..6
    /\ EvtCap \in Nat \ {0}

VARIABLES
    UI_EVT,     \* events from the buttons
    at,         \* "pass": a pass is to begin; "wait": it waits for an event
    rows,       \* the snapshot of the last pass
    selected, detail, was_empty, dirty,   \* as in the code
    cache,      \* the lines drawn last, by cache index
    screen,     \* what each band of the panel shows
    header      \* history: what the last pass had for the header line

uiVars == <<UI_EVT, at, rows, selected, detail, was_empty, dirty, cache, screen, header>>

Snapshots == {s \in BoundedSeq(Macs, SnapshotRows) : IsInjective(s)}

-----------------------------------------------------------------------------
(* Bands and lines *)

LINES == 16

Band(name, i, y, h) == [name |-> name, i |-> i, y |-> y, h |-> h]

HeaderBand == Band("header", 0, 0, 16)
List1(i) == Band("list1", i, 18 + 25 * i + 1, 13)
List2(i) == Band("list2", i, 18 + 25 * i + 14, 10)
DetailBand(k) == Band("detail", k, 18 + 10 * k, 10)
EmptyBand == Band("empty", 0, 80, 13)
BootBand == Band("boot", 0, 80, 13)

Bands == {HeaderBand, EmptyBand, BootBand}
         \cup {List1(i) : i \in 0..(ListRows - 1)} \cup {List2(i) : i \in 0..(ListRows - 1)}
         \cup {DetailBand(k) : k \in 0..14}

Overlapping == {p \in Bands \X Bands :
                   p[1].y < p[2].y + p[2].h /\ p[2].y < p[1].y + p[1].h}

Undrawn == <<"undrawn">>   \* BLANK, and a band of the cleared screen
Blank == <<"blank">>       \* a line without text
Damaged == <<"damaged">>
Dark == {Undrawn, Blank}

\* The lines of a pass, in the order they are drawn: cache index, band and text.
Line(index, band, text) == [index |-> index, band |-> band, text |-> text]

Listed(i, s, sel) ==
    IF i < Len(s) THEN <<"row", s[i + 1], s[i + 1] = sel>> ELSE Blank

ListLines(s, sel) ==
    [n \in 1..(2 * ListRows) |->
        LET i == (n - 1) \div 2 IN
        IF n % 2 = 1 THEN Line(1 + 2 * i, List1(i), Listed(i, s, sel))
        ELSE Line(2 + 2 * i, List2(i), IF i < Len(s) THEN <<"row", s[i + 1]>> ELSE Blank)]

DetailLines(sel) ==
    [n \in 1..15 |-> Line(n, DetailBand(n - 1), <<"detail", n, sel>>)]

HeaderLine(h) == Line(0, HeaderBand, <<"header", h>>)
EmptyLine == Line(LINES - 1, EmptyBand, <<"none">>)

\* What a pass shows: the header, and DETAIL, LIST or the empty-state line.
Lines(h, s, sel, det) ==
    <<HeaderLine(h)>> \o
    CASE det /\ sel \in ToSet(s) -> DetailLines(sel)
      [] ~det /\ s # <<>>        -> ListLines(s, sel)
      [] OTHER                   -> <<EmptyLine>>

-----------------------------------------------------------------------------
(* Drawing *)

CacheKept(c) == c
NoCache(c) == [k \in 0..(LINES - 1) |-> Undrawn]
ClearScreen == [b \in Bands |-> Undrawn]

\* draw, for the lines of a pass in their order: one that equals its cached line is
\* not drawn again, and what is drawn later lies over what was drawn before.
Drawn(c, lines) == {n \in 1..Len(lines) : c[lines[n].index] # lines[n].text}

CacheAfter(c, lines) ==
    [k \in 0..(LINES - 1) |->
        IF \E n \in 1..Len(lines) : lines[n].index = k
        THEN lines[CHOOSE n \in 1..Len(lines) : lines[n].index = k].text ELSE c[k]]

ScreenAfter(scr, c, lines) ==
    LET over == [b \in Bands |-> {n \in Drawn(c, lines) : <<b, lines[n].band>> \in Overlapping}]
        Top(b) == CHOOSE n \in over[b] : \A m \in over[b] : m <= n
    IN  [b \in Bands |->
            IF over[b] = {} THEN scr[b]
            ELSE IF lines[Top(b)].band = b THEN lines[Top(b)].text
            ELSE IF scr[b] \in Dark THEN scr[b]
            ELSE Damaged]

UiInit ==
    /\ UI_EVT = <<>>
    /\ at = "pass"
    /\ rows = <<>>
    /\ selected = NoMac
    /\ detail = FALSE
    /\ was_empty = FALSE
    /\ dirty = TRUE
    /\ cache = [k \in 0..(LINES - 1) |-> Undrawn]
    /\ screen = [b \in Bands |-> IF b = BootBand THEN <<"BOOT">> ELSE Undrawn]
    /\ header \in Headers

-----------------------------------------------------------------------------
(* ui_task *)

First(s) == IF s = <<>> THEN NoMac ELSE s[1]

Keep(s, sel) == sel
\* A selection that has left the snapshot moves to its first row.
Reselected(s, sel) == IF sel \in ToSet(s) THEN sel ELSE First(s)

MustClearOnDirty(s) == dirty
\* Switching between empty and non-empty repaints all.
MustClear(s) == dirty \/ was_empty # (s = <<>>)

RenderPass ==
    /\ at = "pass"
    /\ \E s \in Snapshots, h \in Headers :
        LET sel == Reselected(s, selected)
            lines == Lines(h, s, sel, detail)
            cached == IF MustClear(s) THEN NoCache(cache) ELSE cache
            cleared == IF MustClear(s) THEN ClearScreen ELSE screen
        IN  /\ rows' = s
            /\ selected' = sel
            /\ cache' = CacheAfter(cached, lines)
            /\ screen' = ScreenAfter(cleared, cached, lines)
            /\ was_empty' = (s = <<>>)
            /\ header' = h
    /\ dirty' = FALSE
    /\ at' = "wait"
    /\ UNCHANGED <<UI_EVT, detail>>

Position(s, m) == CHOOSE i \in 1..Len(s) : s[i] = m

\* The row after the selected one in the snapshot of the pass, or the first.
After(s, sel) ==
    IF sel \in ToSet(s) /\ Position(s, sel) < Len(s)
    THEN s[Position(s, sel) + 1] ELSE First(s)

TakeEvent(e) ==
    /\ at = "wait"
    /\ UI_EVT # <<>> /\ Head(UI_EVT) = e
    /\ UI_EVT' = Tail(UI_EVT)
    /\ at' = "pass"
    /\ UNCHANGED <<rows, was_empty, cache, screen, header>>

NextTrack ==
    /\ TakeEvent("NextTrack")
    /\ selected' = After(rows, selected)
    /\ UNCHANGED <<detail, dirty>>

ToggleView ==
    /\ TakeEvent("ToggleView")
    /\ detail' = ~detail
    /\ dirty' = TRUE
    /\ UNCHANGED selected

\* The table is cleared too: the next snapshot holds what was heard since.
ClearTracks ==
    /\ TakeEvent("ClearTracks")
    /\ dirty' = TRUE
    /\ UNCHANGED <<selected, detail>>

Redraw == TakeEvent("Redraw") /\ UNCHANGED <<selected, detail, dirty>>

Timeout ==
    /\ at = "wait"
    /\ UI_EVT = <<>>
    /\ at' = "pass"
    /\ UNCHANGED <<UI_EVT, rows, selected, detail, was_empty, dirty, cache, screen, header>>

EvtFitsFull == Len(UI_EVT) <= EvtCap
EvtFits == Len(UI_EVT) < EvtCap

\* button_task: an event that finds the queue full is dropped.
QueueEvent(e) ==
    /\ UI_EVT' = IF EvtFits THEN Append(UI_EVT, e) ELSE UI_EVT
    /\ UNCHANGED <<at, rows, selected, detail, was_empty, dirty, cache, screen, header>>

UiTask == RenderPass \/ NextTrack \/ ToggleView \/ ClearTracks \/ Redraw \/ Timeout
UiNext == UiTask \/ \E e \in UiEvts : QueueEvent(e)

UiSpec == UiInit /\ [][UiNext]_uiVars

-----------------------------------------------------------------------------
(* Properties *)

UiTypeOK ==
    /\ UI_EVT \in Seq(UiEvts) /\ Len(UI_EVT) <= EvtCap
    /\ at \in {"pass", "wait"}
    /\ rows \in Snapshots
    /\ selected \in Macs \cup {NoMac}
    /\ detail \in BOOLEAN /\ was_empty \in BOOLEAN /\ dirty \in BOOLEAN
    /\ DOMAIN cache = 0..(LINES - 1)
    /\ DOMAIN screen = Bands
    /\ header \in Headers

\* What the panel is to show of the last snapshot.
Promised ==
    <<HeaderLine(header)>> \o
    CASE rows = <<>>             -> <<EmptyLine>>
      [] rows # <<>> /\ detail   -> DetailLines(selected)
      [] rows # <<>> /\ ~detail  -> ListLines(rows, selected)

\* Whenever ui_task waits, the panel shows exactly the header and the list, the
\* details of a track of the snapshot, or that there is none: the line cache never
\* leaves out a line that is needed, nothing of another view, of the empty state
\* or of BOOT is left between, and a track that has gone is not looked at.
ScreenIsCurrent ==
    at = "wait" =>
        /\ rows # <<>> => selected \in ToSet(rows)
        /\ \A n \in 1..Len(Promised) : screen[Promised[n].band] = Promised[n].text
        /\ \A b \in Bands \ {Promised[n].band : n \in 1..Len(Promised)} : screen[b] \in Dark
=============================================================================
