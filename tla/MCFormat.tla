---------------------------------- MODULE MCFormat ----------------------------------
(***************************************************************************)
(* The formats on bounded inputs: each step hands one of them to the code, *)
(* and the properties say what comes of it.  An input is described by a    *)
(* small record; the byte strings are made of it here.                     *)
(***************************************************************************)
EXTENDS Observation

CONSTANTS
    Full,        \* the code of a block with a full run, for the chunks of bytes
    MaxBytes     \* bound: their length

ASSUME FormatAssumption == Full \in Nat /\ Full > 1

VARIABLE input

NoInput == [of |-> "none"]

-----------------------------------------------------------------------------
(* Frames *)

\* Contents that a wrong offset, width or escape would show in.
Styles == {"zeros", "ones", "rising"}

Fill(style, n, k) ==
    [i \in 1..n |-> CASE style = "zeros" -> 0 [] style = "ones" -> 255 [] OTHER -> (k + i) % 256]

Payload(ty, style, n) ==
    LET b(k, len) == Fill(style, len, k) IN
    CASE ty = "HELLO" -> [fw_version |-> b(20, 16), git_sha |-> b(40, 8),
                          device_mac |-> b(50, 6), boot_channel |-> b(60, 1)]
      [] ty = "OBS" -> [channel |-> b(61, 1), rssi_dbm |-> b(62, 1), source |-> b(63, 1),
                        src_mac |-> b(70, 6), msg_counter |-> b(80, 1), t_mac_us |-> b(90, 4),
                        ie_len |-> b(95, 1), pack |-> b(100, n)]
      [] ty = "STATUS" -> [uptime_s |-> b(20, 4), channel |-> b(30, 1), mode |-> b(31, 1),
                           tracks_active |-> b(32, 1), heap_free |-> b(40, 4),
                           counters |-> b(50, 36)]
      [] ty = "LOG" -> [level |-> b(20, 1), text |-> b(100, n)]

FrameFor(i) ==
    [ty |-> i.ty, seq |-> Fill(i.style, 4, 1), t_dev_us |-> Fill(i.style, 8, 8),
     payload |-> Payload(i.ty, i.style, i.n)]

\* Every cap, one below and one above, and lengths no byte can hold.
Lengths == {0, 1, 25, 199, 200, 201, 227, 228, 229, 255, 256, 300}

FrameInputs ==
    [of : {"frame"}, ty : {"HELLO", "STATUS"}, style : Styles, n : {0}] \cup
    [of : {"frame"}, ty : {"OBS", "LOG"}, style : {"ones", "rising"}, n : Lengths] \cup
    [of : {"frame"}, ty : {"OBS", "LOG"}, style : {"zeros"}, n : 0..40]

\* A frame with one byte changed, cut or lengthened, and with or without a CRC that fits.
DamageInputs ==
    [of : {"damage"}, ty : DOMAIN Types, style : {"rising"}, n : {0, 2}, at : 1..66,
     value : {0, 1, 2, 3, 4, 5, 255}, longer : {-1, 0, 1}, crc : BOOLEAN]

DamagedRaw(i) ==
    LET raw == encode_raw(FrameFor(i), MAX_RAW)[1]
        hit == IF i.at <= Len(raw) - 4 THEN [raw EXCEPT ![i.at] = i.value] ELSE raw
        n == Len(raw) - 4 + i.longer
        body == SubSeq(hit \o <<7>>, 1, n)
    IN  IF i.crc THEN WithCrc(body) ELSE SubSeq(hit \o <<7>>, 1, n + 4)

-----------------------------------------------------------------------------
(* Beacons *)

Mac == <<2, 0, 250, 11, 188, 13>>
BeaconHead == <<BEACON>> \o Of(9, 255) \o Mac \o Of(20, 221)

\* Elements that are almost Remote ID, and two that are.
Elements ==
    {[id |-> 0, body |-> <<>>], [id |-> 1, body |-> <<221, 5>>],
     [id |-> VENDOR, body |-> ASTM_OUI \o <<13>>], [id |-> VENDOR, body |-> ASTM_OUI \o <<14, 1>>],
     [id |-> VENDOR, body |-> <<106, 92, 53, 1, 1>>], [id |-> 1, body |-> ASTM_OUI \o <<13, 1>>],
     [id |-> VENDOR, body |-> ASTM_OUI \o <<13, 7>>],
     [id |-> VENDOR, body |-> ASTM_OUI \o <<13, 8, 242, 25>>]}

BeaconInputs ==
    [of : {"beacon"}, elements : BoundedSeq(Elements, 3),
     tail : {<<>>, <<221>>, <<0, 1>>, <<221, 8, 250, 11, 188, 13, 1>>}]

\* Messages in the pack by type, up to one more than fits, and the bytes after them.
PackTypes ==
    BoundedSeq({0, 1, 2, 6, 15}, 3) \cup
    {<<0, 1, 3, 4, 5>> \o [i \in 1..n |-> 2] : n \in 0..4} \cup {[i \in 1..n |-> 2] : n \in 4..9}

PackInputs ==
    [of : {"pack"}, header : {242}, size : {25}, count : {0, 1, 2, 3, 8, 9, 10, 255},
     types : PackTypes, extra : {0, 21}] \cup
    [of : {"pack"}, header : {242, 18}, size : {24, 25}, count : {1}, types : {<<1>>}, extra : {0}]

PackFor(i) ==
    <<i.header, i.size, i.count>>
        \o FlattenSeq([k \in DOMAIN i.types |-> <<i.types[k] * 16 + 2>> \o Fill("rising", 24, k)])
        \o Fill("rising", i.extra, 240)

Rx == [channel |-> <<6>>, rssi |-> <<200>>, t_mac_us |-> <<1, 2, 3, 4>>, seq |-> <<0, 1, 0, 0>>,
       t_dev_us |-> <<9, 0, 0, 0, 0, 0, 0, 0>>]

-----------------------------------------------------------------------------
(* Messages: the fields of each kind, 0 for a u8 or the number of its bytes. *)

Fields ==
    [BasicId |-> [proto_version |-> 0, id_type |-> 0, ua_type |-> 0, uas_id |-> 20],
     Location |->
        [proto_version |-> 0, status |-> 0, height_type |-> 0, ew_direction |-> 0,
         speed_mult |-> 0, direction_raw |-> 0, speed_h_raw |-> 0, speed_v_raw |-> 0,
         lat_e7 |-> 4, lon_e7 |-> 4, alt_baro_raw |-> 2, alt_geo_raw |-> 2, height_raw |-> 2,
         vert_acc |-> 0, horiz_acc |-> 0, baro_acc |-> 0, speed_acc |-> 0,
         timestamp_raw |-> 2, ts_acc |-> 0],
     Auth |-> [proto_version |-> 0, auth_type |-> 0, data_page |-> 0, data |-> 23],
     SelfId |-> [proto_version |-> 0, desc_type |-> 0, desc |-> 23],
     System |->
        [proto_version |-> 0, classification_type |-> 0, operator_location_type |-> 0,
         op_lat_e7 |-> 4, op_lon_e7 |-> 4, area_count |-> 2, area_radius_raw |-> 0,
         area_ceiling_raw |-> 2, area_floor_raw |-> 2, category_eu |-> 0, class_eu |-> 0,
         op_alt_geo_raw |-> 2, timestamp |-> 4],
     OperatorId |-> [proto_version |-> 0, operator_id_type |-> 0, operator_id |-> 20]]

\* A u8, or n bytes: flat or rising.
FieldFor(style, n, b) ==
    IF n = 0 THEN b ELSE [k \in 1..n |-> IF style = "rising" THEN (b + k) % 256 ELSE b]

\* Every field has the value base but one.
ValueFor(kind, style, base, field, other) ==
    [f \in {"kind"} \cup DOMAIN Fields[kind] |->
        IF f = "kind" THEN kind
        ELSE FieldFor(style, Fields[kind][f], IF f = field THEN other ELSE base)]

MessageInputs ==
    UNION {[of : {"message"}, kind : {kind}, style : {"flat", "rising"}, base : {0, 255},
            field : DOMAIN Fields[kind], other : {0, 1, 90, 165, 255}] : kind \in DOMAIN Fields}

\* Packs an encoder sends, with values no wider than their fields.
SentInputs ==
    [of : {"sent"}, base : {0, 1}, kinds :
        {<<kind>> : kind \in DOMAIN Fields} \cup
        {<<"BasicId", "Location", "System", "OperatorId", "SelfId">>,
         <<"BasicId", "BasicId", "Location", "Auth", "Auth", "Auth", "SelfId", "System", "OperatorId">>}]

SentValues(i) ==
    [k \in DOMAIN i.kinds |-> ValueFor(i.kinds[k], "rising", i.base, "kind", 0)]

-----------------------------------------------------------------------------

Inputs ==
    [of : {"bytes"}, bytes : BoundedSeq(0..Full, MaxBytes)] \cup FrameInputs \cup DamageInputs
    \cup BeaconInputs \cup PackInputs \cup MessageInputs \cup SentInputs

FormatInit == input = NoInput
HandOver == input = NoInput /\ input' \in Inputs
TakeBack == input # NoInput /\ input' = NoInput
FormatNext == HandOver \/ TakeBack
FormatSpec == FormatInit /\ [][FormatNext]_input

-----------------------------------------------------------------------------

CobsExact == input.of = "bytes" => EncodingDecodes(Full, input.bytes) /\ OnlyEncodingsDecode(Full, input.bytes)

FramesSurvive == input.of = "frame" => FrameSurvives(FrameFor(input))

DecodesOnlyFrames ==
    input.of = "damage" =>
        LET raw == DamagedRaw(input) IN
        /\ OnlyFramesDecode(raw)
        /\ ~input.crc /\ decode_raw(raw).ok => raw = encode_raw(FrameFor(input), MAX_RAW)[1]

FirstMatchWins == input.of = "beacon" => WalkFindsFirst(BeaconHead, input.elements, input.tail)

HostReportsPack ==
    /\ input.of = "pack" =>
           HostReports(build_beacon(Mac, 9, PackFor(input))[1], Rx)
    /\ input.of = "sent" => HostReportsSent(Mac, 9, SentValues(input), Rx)

MessagesSurvive ==
    input.of = "message" =>
        FieldsSurvive(ValueFor(input.kind, input.style, input.base, input.field, input.other))
=============================================================================
