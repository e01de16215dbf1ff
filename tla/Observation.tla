-------------------------------- MODULE Observation --------------------------------
(***************************************************************************)
(* One beacon on its way to the host: parse_beacon and the RawObs in       *)
(* sniffer_cb (firmware/src/radio.rs), the OBS frame in obs_task (obs.rs), *)
(* and the JSON line of rid-host.                                          *)
(*                                                                         *)
(* CapturedShort is a wrong variant of the definition after it.            *)
(***************************************************************************)
EXTENDS Frames, Odid, Messages

CapturedShort(pack) == SubSeq(pack, 1, IF Len(pack) < PACK_CAP THEN Len(pack) ELSE PACK_CAP - 1)
\* What of a pack has room in RawObs.
Captured(pack) == SubSeq(pack, 1, IF Len(pack) < PACK_CAP THEN Len(pack) ELSE PACK_CAP)

\* The observation of a Remote ID beacon, received with the given signal and stamps.
ObsOf(rid, rx) ==
    [channel |-> rx.channel, rssi_dbm |-> rx.rssi, source |-> <<1>>, src_mac |-> rid.src_mac,
     msg_counter |-> <<rid.msg_counter>>, t_mac_us |-> rx.t_mac_us,
     ie_len |-> <<(Len(rid.pack) + 5) % 256>>, pack |-> Captured(rid.pack)]

\* obs_task sends it as the next frame.
ObsFrame(rid, rx) ==
    [ty |-> "OBS", seq |-> rx.seq, t_dev_us |-> rx.t_dev_us, payload |-> ObsOf(rid, rx)]

AsOffsets(bytes) == [i \in Offsets |-> bytes[i + 1]]
Decoded(msgs) == [k \in DOMAIN msgs |-> decode_message(AsOffsets(msgs[k]))]
IsMessage(v) == v.kind \notin {"NestedPack", "UnknownType"}

\* The messages among the values decoded, in their order.
Kept(values) ==
    LET upto[k \in 0..Len(values)] ==
            IF k = 0 THEN <<>>
            ELSE IF IsMessage(values[k]) THEN Append(upto[k - 1], values[k])
            ELSE upto[k - 1]
    IN  upto[Len(values)]

\* The parts of the host's line that depend on the pack.
HostLine(o) ==
    LET parsed == parse_pack(o.pack) IN
    IF parsed.ok THEN [pack_error |-> None, messages |-> Kept(Decoded(parsed.msgs))]
    ELSE [pack_error |-> Some(parsed.err), messages |-> <<>>]

-----------------------------------------------------------------------------
(* Properties *)

\* What the host reports of a beacon is what the whole element holds: RawObs cuts off
\* only bytes no verdict depends on, no frame is too long to send, ie_len does not
\* overflow, and no message of an accepted pack fails to decode.
HostReports(mpdu, rx) ==
    LET rid == parse_beacon(mpdu)
        wire == FrameBuf(ObsFrame(rid, rx))
        got == HostFrame(Front(wire[1]))
        o == got.frame.payload
        whole == parse_pack(rid.pack)
    IN  rid.ok =>
            /\ wire # None /\ got.ok
            /\ got.frame.seq = rx.seq /\ got.frame.t_dev_us = rx.t_dev_us
            /\ o.rssi_dbm = rx.rssi
            /\ o.ie_len[1] = Len(rid.pack) + 5
            /\ IF whole.ok
               THEN HostLine(o) = [pack_error |-> None, messages |-> Decoded(whole.msgs)]
               ELSE HostLine(o) = [pack_error |-> Some(whole.err), messages |-> <<>>]

\* What an encoder puts into a beacon is what the host reports of it.
HostReportsSent(mac, counter, values, rx) ==
    LET bytes(v) == [i \in 1..MESSAGE_SIZE |-> encode(v)[i - 1]]
        pack == build_pack([k \in DOMAIN values |-> bytes(values[k])])[1]
        mpdu == build_beacon(mac, counter, pack)[1]
        o == HostFrame(Front(FrameBuf(ObsFrame(parse_beacon(mpdu), rx))[1])).frame.payload
    IN  /\ o.src_mac = mac /\ o.msg_counter = <<counter>>
        /\ HostLine(o) = [pack_error |-> None, messages |-> values]
=============================================================================
