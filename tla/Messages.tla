---------------------------------- MODULE Messages ----------------------------------
(***************************************************************************)
(* The 25 bytes of a Remote ID message (crates/odid/src: message.rs,       *)
(* encode.rs).  A message is a function on the offsets 0..24; a field of   *)
(* several bytes is the sequence of them.                                  *)
(*                                                                         *)
(* UnmaskedNibbles is a wrong variant of the definition after it.          *)
(***************************************************************************)
EXTENDS Integers, Sequences

U8 == 0..255
Octets(n) == [1..n -> U8]

BasicId == [kind : {"BasicId"}, proto_version : U8, id_type : U8, ua_type : U8, uas_id : Octets(20)]

Location ==
    [kind : {"Location"}, proto_version : U8, status : U8, height_type : U8, ew_direction : U8,
     speed_mult : U8, direction_raw : U8, speed_h_raw : U8, speed_v_raw : U8, lat_e7 : Octets(4),
     lon_e7 : Octets(4), alt_baro_raw : Octets(2), alt_geo_raw : Octets(2), height_raw : Octets(2),
     vert_acc : U8, horiz_acc : U8, baro_acc : U8, speed_acc : U8, timestamp_raw : Octets(2),
     ts_acc : U8]

AuthPage == [kind : {"Auth"}, proto_version : U8, auth_type : U8, data_page : U8, data : Octets(23)]

SelfId == [kind : {"SelfId"}, proto_version : U8, desc_type : U8, desc : Octets(23)]

System ==
    [kind : {"System"}, proto_version : U8, classification_type : U8, operator_location_type : U8,
     op_lat_e7 : Octets(4), op_lon_e7 : Octets(4), area_count : Octets(2), area_radius_raw : U8,
     area_ceiling_raw : Octets(2), area_floor_raw : Octets(2), category_eu : U8, class_eu : U8,
     op_alt_geo_raw : Octets(2), timestamp : Octets(4)]

OperatorId ==
    [kind : {"OperatorId"}, proto_version : U8, operator_id_type : U8, operator_id : Octets(20)]

Message == BasicId \cup Location \cup AuthPage \cup SelfId \cup System \cup OperatorId

Offsets == 0..24

at(m, i, n) == [k \in 1..n |-> m[i + k - 1]]
\* The bits of b from the one that counts unit on, as a field of that many values.
Bits(b, unit, values) == (b \div unit) % values
Hi(b) == b \div 16
Lo(b) == b % 16

decode_message(m) ==
    LET version == Lo(m[0]) IN
    CASE Hi(m[0]) = 0 ->
            [kind |-> "BasicId", proto_version |-> version, id_type |-> Hi(m[1]),
             ua_type |-> Lo(m[1]), uas_id |-> at(m, 2, 20)]
      [] Hi(m[0]) = 1 ->
            [kind |-> "Location", proto_version |-> version, status |-> Hi(m[1]),
             height_type |-> Bits(m[1], 4, 2), ew_direction |-> Bits(m[1], 2, 2),
             speed_mult |-> Bits(m[1], 1, 2),
             direction_raw |-> m[2], speed_h_raw |-> m[3], speed_v_raw |-> m[4],
             lat_e7 |-> at(m, 5, 4), lon_e7 |-> at(m, 9, 4), alt_baro_raw |-> at(m, 13, 2),
             alt_geo_raw |-> at(m, 15, 2), height_raw |-> at(m, 17, 2), vert_acc |-> Hi(m[19]),
             horiz_acc |-> Lo(m[19]), baro_acc |-> Hi(m[20]), speed_acc |-> Lo(m[20]),
             timestamp_raw |-> at(m, 21, 2), ts_acc |-> Lo(m[23])]
      [] Hi(m[0]) = 2 ->
            [kind |-> "Auth", proto_version |-> version, auth_type |-> Hi(m[1]),
             data_page |-> Lo(m[1]), data |-> at(m, 2, 23)]
      [] Hi(m[0]) = 3 ->
            [kind |-> "SelfId", proto_version |-> version, desc_type |-> m[1], desc |-> at(m, 2, 23)]
      [] Hi(m[0]) = 4 ->
            [kind |-> "System", proto_version |-> version, classification_type |-> Bits(m[1], 4, 8),
             operator_location_type |-> Bits(m[1], 1, 4), op_lat_e7 |-> at(m, 2, 4),
             op_lon_e7 |-> at(m, 6, 4), area_count |-> at(m, 10, 2), area_radius_raw |-> m[12],
             area_ceiling_raw |-> at(m, 13, 2), area_floor_raw |-> at(m, 15, 2),
             category_eu |-> Hi(m[17]), class_eu |-> Lo(m[17]), op_alt_geo_raw |-> at(m, 18, 2),
             timestamp |-> at(m, 20, 4)]
      [] Hi(m[0]) = 5 ->
            [kind |-> "OperatorId", proto_version |-> version, operator_id_type |-> m[1],
             operator_id |-> at(m, 2, 20)]
      [] Hi(m[0]) = 15 -> [kind |-> "NestedPack"]
      [] OTHER -> [kind |-> "UnknownType"]

UnmaskedNibbles(hi, lo) == (hi * 16 + lo) % 256
\* (hi << 4) | (lo & 0x0F) in a u8.
Nibbles(hi, lo) == ((hi * 16) % 256) + (lo % 16)

\* A message of zeros into which parts are put one after another, each some bytes
\* (its second component) at an offset (its first).
Covering(parts, i) == {k \in DOMAIN parts : i - parts[k][1] + 1 \in DOMAIN parts[k][2]}

ByteAt(parts, i) ==
    LET top == parts[CHOOSE k \in Covering(parts, i) : \A l \in Covering(parts, i) : l <= k]
    IN  IF Covering(parts, i) = {} THEN 0 ELSE top[2][i - top[1] + 1]

put(parts) == [i \in Offsets |-> ByteAt(parts, i)]

header(ty, v) == <<0, <<Nibbles(ty, v.proto_version)>>>>

encode_basic_id(v) ==
    put(<<header(0, v), <<1, <<Nibbles(v.id_type, v.ua_type)>>>>, <<2, v.uas_id>>>>)

encode_location(v) ==
    put(<<header(1, v),
          <<1, <<((v.status * 16) % 256) + (v.height_type % 2) * 4
                     + (v.ew_direction % 2) * 2 + (v.speed_mult % 2)>>>>,
          <<2, <<v.direction_raw, v.speed_h_raw, v.speed_v_raw>>>>, <<5, v.lat_e7>>,
          <<9, v.lon_e7>>, <<13, v.alt_baro_raw>>, <<15, v.alt_geo_raw>>, <<17, v.height_raw>>,
          <<19, <<Nibbles(v.vert_acc, v.horiz_acc), Nibbles(v.baro_acc, v.speed_acc)>>>>,
          <<21, v.timestamp_raw>>, <<23, <<v.ts_acc % 16>>>>>>)

encode_auth(v) ==
    put(<<header(2, v), <<1, <<Nibbles(v.auth_type, v.data_page)>>>>, <<2, v.data>>>>)

encode_self_id(v) == put(<<header(3, v), <<1, <<v.desc_type>>>>, <<2, v.desc>>>>)

encode_system(v) ==
    put(<<header(4, v),
          <<1, <<(v.classification_type % 8) * 4 + (v.operator_location_type % 4)>>>>,
          <<2, v.op_lat_e7>>, <<6, v.op_lon_e7>>, <<10, v.area_count>>,
          <<12, <<v.area_radius_raw>>>>, <<13, v.area_ceiling_raw>>, <<15, v.area_floor_raw>>,
          <<17, <<Nibbles(v.category_eu, v.class_eu)>>>>, <<18, v.op_alt_geo_raw>>,
          <<20, v.timestamp>>>>)

encode_operator_id(v) ==
    put(<<header(5, v), <<1, <<v.operator_id_type>>>>, <<2, v.operator_id>>>>)

encode(v) ==
    CASE v.kind = "BasicId" -> encode_basic_id(v)
      [] v.kind = "Location" -> encode_location(v)
      [] v.kind = "Auth" -> encode_auth(v)
      [] v.kind = "SelfId" -> encode_self_id(v)
      [] v.kind = "System" -> encode_system(v)
      [] v.kind = "OperatorId" -> encode_operator_id(v)

-----------------------------------------------------------------------------
(* Properties *)

\* How many values a field has that is narrower than the u8 that holds it (DESIGN.md 5.3).
Flags == {"height_type", "ew_direction", "speed_mult"}
Narrow ==
    Flags \cup {"operator_location_type", "classification_type", "proto_version", "id_type",
        "ua_type", "status", "vert_acc", "horiz_acc", "baro_acc", "speed_acc", "ts_acc",
        "auth_type", "data_page", "category_eu", "class_eu"}
Values(f) ==
    CASE f \in Flags -> 2
      [] f = "operator_location_type" -> 4
      [] f = "classification_type" -> 8
      [] OTHER -> 16

\* Every field is decoded as it was encoded, whatever the others hold: cut to its
\* width when it is too wide, and then without a trace in its neighbours.
FieldsSurvive(v) ==
    decode_message(encode(v)) =
        [f \in DOMAIN v |-> IF f \in Narrow THEN v[f] % Values(f) ELSE v[f]]
=============================================================================
