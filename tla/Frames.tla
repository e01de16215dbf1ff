----------------------------------- MODULE Frames -----------------------------------
(***************************************************************************)
(* The frames of rid-proto (crates/rid-proto/src/lib.rs): header, payload  *)
(* and CRC, stuffed and ended by a zero.  A number is its bytes, least     *)
(* significant first.                                                      *)
(*                                                                         *)
(* FitsLoosely and MAX_RAW_Unpadded are wrong variants of the definitions  *)
(* that follow them.                                                       *)
(***************************************************************************)
EXTENDS Cobs

FULL == 255

VERSION == 1
HEADER_LEN == 14
PACK_CAP == 228
MAX_RAW_Unpadded == HEADER_LEN + 15 + PACK_CAP + 4
MAX_RAW == HEADER_LEN + 16 + PACK_CAP + 4
LOG_TEXT_CAP == 200
FRAME_BUF == 320
Types == [HELLO |-> 1, OBS |-> 2, STATUS |-> 3, LOG |-> 4]

\* The CRC of the crc crate.  Counts of the bits stand for it: they too differ when a
\* single byte does.
crc32(b) ==
    LET ones(j) == Cardinality({k \in DOMAIN b : (b[k] \div 2^j) % 2 = 1})
    IN  [i \in 1..4 |-> (ones(2 * i - 2) + 3 * ones(2 * i - 1)) % 256]

\* None when the pack or the text exceeds its cap.
PayloadBytes(ty, p) ==
    CASE ty = "HELLO" -> Some(p.fw_version \o p.git_sha \o p.device_mac \o p.boot_channel)
      [] ty = "OBS" ->
            IF Len(p.pack) > PACK_CAP THEN None
            ELSE Some(p.channel \o p.rssi_dbm \o p.source \o p.src_mac \o p.msg_counter
                      \o p.t_mac_us \o p.ie_len \o <<Len(p.pack)>> \o p.pack)
      [] ty = "STATUS" ->
            Some(p.uptime_s \o p.channel \o p.mode \o p.tracks_active \o <<0>>
                 \o p.heap_free \o p.counters)
      [] ty = "LOG" ->
            IF Len(p.text) > LOG_TEXT_CAP THEN None
            ELSE Some(p.level \o <<Len(p.text)>> \o p.text)

WithCrc(body) == body \o crc32(body)

encode_raw(f, room) ==
    LET p == PayloadBytes(f.ty, f.payload) IN
    IF p = None THEN None
    ELSE LET raw == WithCrc(<<VERSION, Types[f.ty]>> \o f.seq \o f.t_dev_us \o p[1]) IN
         IF Len(raw) <= room THEN Some(raw) ELSE None

\* FrameBuf::encode
FrameBuf(f) ==
    LET raw == encode_raw(f, MAX_RAW) IN
    IF raw = None THEN None
    ELSE LET c == cobs_encode(FULL, raw[1], FRAME_BUF) IN
         IF c # None /\ Len(c[1]) < FRAME_BUF THEN Some(Append(c[1], 0)) ELSE None

\* The n bytes of b from offset at on.
arr(b, at, n) == SubSeq(b, at + 1, at + n)

FitsLoosely(ty, p) ==
    CASE ty = "HELLO"  -> Len(p) = 31
      [] ty = "OBS"    -> Len(p) >= 16 /\ Len(p) >= 16 + p[16] /\ p[16] <= PACK_CAP
      [] ty = "STATUS" -> Len(p) = 48
      [] ty = "LOG"    -> Len(p) >= 2 /\ Len(p) = 2 + p[2] /\ p[2] <= LOG_TEXT_CAP
\* The payload has the length its type calls for.
Fits(ty, p) ==
    CASE ty = "HELLO"  -> Len(p) = 31
      [] ty = "OBS"    -> Len(p) >= 16 /\ Len(p) = 16 + p[16] /\ p[16] <= PACK_CAP
      [] ty = "STATUS" -> Len(p) = 48
      [] ty = "LOG"    -> Len(p) >= 2 /\ Len(p) = 2 + p[2] /\ p[2] <= LOG_TEXT_CAP

PayloadOf(ty, p) ==
    CASE ty = "HELLO" ->
            [fw_version |-> arr(p, 0, 16), git_sha |-> arr(p, 16, 8),
             device_mac |-> arr(p, 24, 6), boot_channel |-> arr(p, 30, 1)]
      [] ty = "OBS" ->
            [channel |-> arr(p, 0, 1), rssi_dbm |-> arr(p, 1, 1), source |-> arr(p, 2, 1),
             src_mac |-> arr(p, 3, 6), msg_counter |-> arr(p, 9, 1),
             t_mac_us |-> arr(p, 10, 4), ie_len |-> arr(p, 14, 1),
             pack |-> SubSeq(p, 17, Len(p))]
      [] ty = "STATUS" ->
            [uptime_s |-> arr(p, 0, 4), channel |-> arr(p, 4, 1), mode |-> arr(p, 5, 1),
             tracks_active |-> arr(p, 6, 1), heap_free |-> arr(p, 8, 4),
             counters |-> arr(p, 12, 36)]
      [] ty = "LOG" -> [level |-> arr(p, 0, 1), text |-> SubSeq(p, 3, Len(p))]

Ok(f) == [ok |-> TRUE, frame |-> f]
Err(e) == [ok |-> FALSE, err |-> e]

\* The first check that fails decides.
decode_raw(raw) ==
    LET n == Len(raw) - 4
        body == SubSeq(raw, 1, n)
        p == SubSeq(body, HEADER_LEN + 1, n)
        known == {ty \in DOMAIN Types : Types[ty] = body[2]}
    IN  IF n < HEADER_LEN THEN Err("BadLength")
        ELSE IF crc32(body) # SubSeq(raw, n + 1, n + 4) THEN Err("BadCrc")
        ELSE IF body[1] # VERSION \/ known = {} THEN Err("Unknown")
        ELSE LET ty == CHOOSE ty \in known : TRUE IN
             IF Fits(ty, p)
             THEN Ok([ty |-> ty, seq |-> arr(body, 2, 4), t_dev_us |-> arr(body, 6, 8),
                      payload |-> PayloadOf(ty, p)])
             ELSE Err("BadLength")

\* rid-host's Decoder::frame on the bytes between two zeros, up to its counting.
HostFrame(chunk) ==
    LET raw == cobs_decode(FULL, chunk, Len(chunk)) IN
    IF raw = None THEN Err("text_chunks")
    ELSE IF Len(raw[1]) < HEADER_LEN + 4 THEN Err("bad_frames")
    ELSE decode_raw(raw[1])

-----------------------------------------------------------------------------
(* Properties *)

\* A frame has a wire form exactly when no field exceeds its cap (FrameBuf::encode):
\* one zero, at its end, at most 265 bytes (DESIGN.md 9.1), read back by the host.
FrameSurvives(f) ==
    LET wire == FrameBuf(f)
        capped == \/ f.ty = "OBS" /\ Len(f.payload.pack) > PACK_CAP
                  \/ f.ty = "LOG" /\ Len(f.payload.text) > LOG_TEXT_CAP
    IN  IF capped THEN wire = None
        ELSE /\ wire # None
             /\ Len(wire[1]) <= 265
             /\ Last(wire[1]) = 0 /\ 0 \notin Range(Front(wire[1]))
             /\ HostFrame(Front(wire[1])) = Ok(f)

\* STATUS's reserved byte is not read.
Reserved(raw) == IF raw[2] = Types.STATUS THEN {HEADER_LEN + 8} ELSE {}

\* Whatever bytes decode_raw accepts are those encode_raw makes of the result, but
\* for the reserved byte and the CRC over it.
OnlyFramesDecode(raw) ==
    LET got == decode_raw(raw) IN
    got.ok => LET again == encode_raw(got.frame, MAX_RAW) IN
              /\ again # None
              /\ Len(again[1]) = Len(raw)
              /\ \A i \in 1..Len(raw) - 4 : again[1][i] = raw[i] \/ i \in Reserved(raw)
=============================================================================
