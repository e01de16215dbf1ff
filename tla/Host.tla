---------------------------------- MODULE Host ----------------------------------
(***************************************************************************)
(* rid-host's decoder (tools/rid-host/src/main.rs): feed splits the byte   *)
(* stream at zero bytes, and frame classifies each chunk and accounts for  *)
(* the sequence numbers.  Bytes are abstracted to tokens: an intact frame  *)
(* with its delimiter, the tail of a damaged frame with its delimiter, a   *)
(* lone delimiter, or text: any run of non-zero bytes with no delimiter    *)
(* (boot ROM text, a frame cut off by a reset).                            *)
(*                                                                         *)
(* A chunk holding anything but one intact frame fails COBS, the length or *)
(* the CRC check: text_chunks, bad_frames and bad_crc are one counter.     *)
(* Bytes that pass the CRC check but carry a version or type this host     *)
(* does not know are not modelled: the firmware sends none.                *)
(*                                                                         *)
(* AheadSaturating, CountStep and FeedKeepingText are wrong variants of    *)
(* the definition after each.                                              *)
(***************************************************************************)
EXTENDS Naturals, Sequences

CONSTANT SeqMod    \* values of the u32 sequence number

VARIABLES
    dirty,   \* Decoder.chunk holds text without a delimiter yet
    prev,    \* Decoder.prev: <<>> for None, <<seq>> for Some(seq)
    stats    \* Decoder.stats

decoderVars == <<dirty, prev, stats>>

Half == SeqMod \div 2

NoStats == [frames |-> 0, seq_gaps |-> 0, seq_reorder |-> 0, rejected |-> 0]

HostInit == dirty = FALSE /\ prev = <<>> /\ stats = NoStats

-----------------------------------------------------------------------------
(* Sequence accounting, one definition per match arm *)

AheadSaturating(f) == IF f.seq >= prev[1] THEN f.seq - prev[1] ELSE 0
\* wrapping_sub
Ahead(f) == (f.seq + SeqMod - prev[1]) % SeqMod

CountStep(f) == Ahead(f)
CountGap(f) == Ahead(f) - 1

IsNewer(f) == Ahead(f) \in 1..(Half - 1)

IsReboot(f) == f.type = "HELLO" /\ f.seq = 0

Account(f) ==
    \/ /\ IsReboot(f)
       /\ prev' = <<0>>
       /\ stats' = [stats EXCEPT !.frames = @ + 1]
    \/ /\ ~IsReboot(f)
       /\ prev = <<>>
       /\ prev' = <<f.seq>>
       /\ stats' = [stats EXCEPT !.frames = @ + 1]
    \/ /\ ~IsReboot(f)
       /\ prev # <<>> /\ IsNewer(f)
       /\ prev' = <<f.seq>>
       /\ stats' = [stats EXCEPT !.frames = @ + 1, !.seq_gaps = @ + CountGap(f)]
    \/ /\ ~IsReboot(f)
       /\ prev # <<>> /\ ~IsNewer(f)
       /\ UNCHANGED prev
       /\ stats' = [stats EXCEPT !.frames = @ + 1, !.seq_reorder = @ + 1]

-----------------------------------------------------------------------------
(* feed *)

Reject ==
    /\ stats' = [stats EXCEPT !.rejected = @ + 1]
    /\ UNCHANGED prev

FeedKeepingText(f) ==
    /\ UNCHANGED dirty
    /\ IF dirty THEN Reject ELSE Account(f)

\* A delimiter ends the chunk.  An empty chunk is skipped.
FeedFrame(f) ==
    /\ dirty' = FALSE
    /\ IF dirty THEN Reject ELSE Account(f)

FeedTail ==
    /\ dirty' = FALSE
    /\ Reject

FeedDelimiter ==
    /\ dirty' = FALSE
    /\ IF dirty THEN Reject ELSE UNCHANGED <<prev, stats>>

FeedText ==
    /\ dirty' = TRUE
    /\ UNCHANGED <<prev, stats>>
=============================================================================
