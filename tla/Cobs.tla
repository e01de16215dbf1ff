------------------------------------ MODULE Cobs ------------------------------------
(***************************************************************************)
(* The byte stuffing of rid-proto (crates/rid-proto/src/lib.rs), which     *)
(* keeps 0 off the wire but as the end of a frame.  A block is a code and  *)
(* a run of code - 1 bytes; it stands for the run and a zero, but for the  *)
(* last block and one whose run is full.  full, code 0xFF in the source,   *)
(* is a parameter.                                                         *)
(*                                                                         *)
(* SkippedAfterAll and ZeroAfterAll are wrong variants of the definitions  *)
(* that follow them.                                                       *)
(***************************************************************************)
EXTENDS Integers, SequencesExt, Option

\* The length of the run from i on: up to a zero, a full run or the end.
RunFrom(full, src, i) ==
    LET n == Len(src) IN
    CHOOSE k \in 0..full - 1 :
        /\ \A j \in i..i + k - 1 : j <= n /\ src[j] # 0
        /\ k = full - 1 \/ i + k > n \/ src[i + k] = 0

SkippedAfterAll(full, k) == 1
\* What the block stands for besides its run.
Skipped(full, k) == IF k = full - 1 THEN 0 ELSE 1

\* Fails when some byte falls outside dst, which has room bytes.  A source that ends
\* in a zero or a full run leaves one more block open, which is empty.
cobs_encode(full, src, room) ==
    LET from[i \in 1..Len(src) + 2] ==
            IF i > Len(src) + 1 THEN <<>>
            ELSE LET k == RunFrom(full, src, i) IN
                 <<k + 1>> \o SubSeq(src, i, i + k - 1) \o from[i + k + Skipped(full, k)]
        dst == from[1]
    IN  IF Len(dst) <= room THEN Some(dst) ELSE None

ZeroAfterAll(full, code, more) == more
\* A zero follows the run.
ZeroAfter(full, code, more) == code < full /\ more

Run(src, i) == SubSeq(src, i + 1, i + src[i] - 1)

\* No block begins at i: its code or a byte of its run would be 0, or its run cut.
Malformed(src, i) == src[i] = 0 \/ i + src[i] - 1 > Len(src) \/ 0 \in Range(Run(src, i))

cobs_decode(full, src, room) ==
    LET from[i \in 1..Len(src) + 1] ==
            IF i > Len(src) THEN Some(<<>>)
            ELSE IF Malformed(src, i) THEN None
            ELSE LET next == i + src[i]
                     zero == IF ZeroAfter(full, src[i], next <= Len(src)) THEN <<0>> ELSE <<>>
                     rest == from[next]
                 IN  IF rest = None THEN None ELSE Some(Run(src, i) \o zero \o rest[1])
        dst == from[1]
    IN  IF dst # None /\ Len(dst[1]) <= room THEN dst ELSE None

-----------------------------------------------------------------------------
(* Properties *)

\* The source ends in full runs: r of them, after a zero or from its start on.
EndsFull(full, data) ==
    \E r \in 1..Len(data) :
        LET z == Len(data) - r * (full - 1) IN
        /\ z = 0 \/ (z > 0 /\ data[z] = 0)
        /\ \A i \in z + 1..Len(data) : data[i] # 0

\* The comment of cobs_decode: "Accepts both the form with and without a trailing
\* 0x01 after a full 254-byte run".
Forms(full, data) ==
    LET enc == cobs_encode(full, data, Len(data) + 1 + Len(data) \div (full - 1))[1] IN
    {enc} \cup (IF EndsFull(full, data) THEN {Front(enc)} ELSE {})

\* An encoding has no zero, at most one byte more and one for each full run that
\* fits, and decodes to its source in either form.
EncodingDecodes(full, data) ==
    LET enc == cobs_encode(full, data, Len(data) + 1 + Len(data) \div (full - 1)) IN
    /\ enc # None
    /\ 0 \notin Range(enc[1])
    /\ \A chunk \in Forms(full, data) : cobs_decode(full, chunk, Len(chunk)) = Some(data)

\* A chunk that is decoded, in a buffer of its own size as rid-host does, is a form
\* of the result, or empty.
OnlyEncodingsDecode(full, chunk) ==
    LET data == cobs_decode(full, chunk, Len(chunk)) IN
    data # None => chunk = <<>> \/ chunk \in Forms(full, data[1])
=============================================================================
