---------------------------------- MODULE Link ----------------------------------
(***************************************************************************)
(* The USB link end to end: the device's senders, queue and tx_task (Wire) *)
(* and the decoder of rid-host (Host), with a host program that stops and  *)
(* starts again and a device that resets.  A reset clears every static of  *)
(* the firmware, can cut the frame being written and lose what the port    *)
(* still buffers, and the boot ROM prints text with no zero byte.          *)
(***************************************************************************)
EXTENDS Wire

CONSTANTS
    MaxResets,   \* bound: device resets
    MaxExits     \* bound: times the host program ends and is started again

ASSUME LinkAssumption == MaxResets \in Nat /\ MaxExits \in Nat

VARIABLES
    dirty, prev, stats,  \* the decoder: see Host
    hostUp,   \* rid-host runs and reads the port
    resets, exits,
    bootAt,   \* history: ordinal of the first send since the last reset
    first,    \* history: ordinal of the first frame this host process counted
    last,     \* history: ordinal of the last one
    whole     \* history: no reset, no loss as long as half the sequence space
              \* and no HELLO numbered 0 by wrapping since this process started

INSTANCE Host

hostVars == <<dirty, prev, stats>>
envVars == <<hostUp, resets, exits, bootAt, first, last, whole>>
vars == <<wireVars, hostVars, envVars>>

Token(t) == [type |-> t, seq |-> 0, n |-> 0]
Text == Token("TEXT")            \* non-zero bytes and no delimiter
FrameTail == Token("TAIL")       \* the end of a frame and its delimiter
Delimiter == Token("DELIMITER")  \* a delimiter alone
IsFrame(k) == k.type \in Types

Init ==
    /\ WireInit
    /\ HostInit
    /\ hostUp = FALSE
    /\ resets = 0 /\ exits = 0
    /\ bootAt = 0 /\ first = 0 /\ last = 0
    /\ whole = TRUE

Device == (\E c \in Contexts : Send(c)) \/ TxReceive \/ TxWrite

DeviceStep == Device /\ UNCHANGED <<hostVars, envVars>>

-----------------------------------------------------------------------------
(* The host reads *)

Feed(k) ==
    CASE k.type = "TEXT"      -> FeedText
      [] k.type = "TAIL"      -> FeedTail
      [] k.type = "DELIMITER" -> FeedDelimiter
      [] OTHER                -> FeedFrame(k)

Counted(k) == IsFrame(k) /\ ~dirty

\* What the sequence rule is able to account for.
Plain(f) == prev # <<>> => f.n - last < Half /\ ~(IsReboot(f) /\ f.n # bootAt)

HostRead ==
    /\ hostUp
    /\ usb # <<>>
    /\ usb' = Tail(usb)
    /\ Feed(Head(usb))
    /\ IF Counted(Head(usb))
       THEN /\ last' = Head(usb).n
            /\ first' = IF prev = <<>> THEN Head(usb).n ELSE first
            /\ whole' = (whole /\ Plain(Head(usb)))
       ELSE UNCHANGED <<first, last, whole>>
    /\ UNCHANGED <<cs, pc, mine, next, TX_CH, dropped, writing, boot, sends>>
    /\ UNCHANGED <<hostUp, resets, exits, bootAt>>

-----------------------------------------------------------------------------
(* The environment *)

\* What a host that stopped may have taken off the port's oldest token.
Damaged(u) ==
    {u} \cup
    (IF u = <<>> THEN {}
     ELSE {Tail(u)} \cup
          (IF Head(u) = Text THEN {}
           ELSE {<<k>> \o Tail(u) : k \in {FrameTail, Delimiter}}))

HostStart ==
    /\ ~hostUp
    /\ hostUp' = TRUE
    /\ dirty' = FALSE /\ prev' = <<>> /\ stats' = NoStats
    /\ usb' \in Damaged(usb)
    /\ whole' = \A i \in 1..Len(usb) : IsFrame(usb[i]) => usb[i].n >= bootAt
    /\ first' = 0 /\ last' = 0
    /\ UNCHANGED <<cs, pc, mine, next, TX_CH, dropped, writing, boot, sends>>
    /\ UNCHANGED <<resets, exits, bootAt>>

HostExit ==
    /\ hostUp
    /\ exits < MaxExits
    /\ hostUp' = FALSE
    /\ exits' = exits + 1
    /\ UNCHANGED <<wireVars, hostVars, resets, bootAt, first, last, whole>>

Reset ==
    /\ resets < MaxResets
    /\ resets' = resets + 1
    /\ \E k \in 0..Len(usb), text \in BOOLEAN :
           usb' = SubSeq(usb, 1, k) \o (IF text THEN <<Text>> ELSE <<>>)
    /\ cs' = Nobody
    /\ pc' = [c \in Contexts |-> "idle"]
    /\ next' = 0
    /\ TX_CH' = <<>>
    /\ dropped' = [k \in Counters |-> 0]
    /\ writing' = <<>>
    /\ boot' = "radio_up"
    /\ bootAt' = sends
    /\ whole' = FALSE
    /\ UNCHANGED <<mine, sends, hostVars, hostUp, exits, first, last>>

Next == DeviceStep \/ HostRead \/ HostStart \/ HostExit \/ Reset

Spec == Init /\ [][Next]_vars

-----------------------------------------------------------------------------
(* Properties *)

\* Between the first and the last frame a host process counted, seq_gaps is the
\* number of frames it did not get, whether TX_CH was full, text was glued to a
\* frame or a frame was cut, also when seq wraps; and nothing is a reorder.
GapsAreLosses ==
    whole /\ prev # <<>> =>
        /\ stats.seq_gaps = (last - first) - (stats.frames - 1)
        /\ stats.seq_reorder = 0

\* The decoder resynchronises at the next delimiter: joining the stream anywhere
\* and each reset cost at most one rejected chunk.
OneRejectPerBreak == stats.rejected <= 1 + resets

\* Frames are counted once and in the order they were sent, across resets too.
EndToEndOrder ==
    [][stats'.frames > stats.frames /\ prev # <<>> => last' > last]_vars

\* DESIGN.md 10.3 step 6 has the host take a HELLO with seq 0 for a reboot, so
\* that a reboot is no reorder.  Checked where no loss is long enough to count.
NoReorder == stats.seq_reorder = 0
=============================================================================
