-------------------------------- MODULE FormatProofs --------------------------------
(***************************************************************************)
(* Proofs about the formats, for every input: the messages of odid, and    *)
(* the byte stuffing and the frames of rid-proto.                          *)
(*                                                                         *)
(* What a loop computes is a function on the positions of its input, and   *)
(* is proved from the last position back.  Induction is first-order here:  *)
(* a set of naturals that is not empty has a least element (Least), so a   *)
(* set of positions that is closed downward from the end is all of them    *)
(* (Descend).                                                              *)
(***************************************************************************)
EXTENDS MCFormat, SequenceTheorems, FiniteSetTheorems, WellFoundedInduction, TLAPS

\* Byte strings.  That a byte is less than 256 matters to no format but the messages.
Bytes == Seq(Nat)

-----------------------------------------------------------------------------
(* Messages: what encode puts, decode_message reads *)

\* n parts at the ascending offsets off, of the lengths len, which do not overlap.
Lays(parts, n, off, len) ==
    /\ DOMAIN parts = 1..n
    /\ \A k \in 1..n : parts[k][1] = off[k] /\ DOMAIN parts[k][2] = 1..len[k]
    /\ \A k \in 1..n : off[k] + len[k] <= 25
    /\ \A k, l \in 1..n : k < l => off[k] + len[k] <= off[l]

\* The bytes are in the message m from offset o on.
BytesAt(m, o, bytes) == \A j \in DOMAIN bytes : m[o + j - 1] = bytes[j]

\* Every part is found where it was put.
ReadBack(parts, n) == \A k \in 1..n : BytesAt(put(parts), parts[k][1], parts[k][2])

LEMMA PutReads ==
    ASSUME NEW n \in Nat, NEW parts, NEW off \in [1..n -> Nat], NEW len \in [1..n -> Nat],
           Lays(parts, n, off, len)
    PROVE  ReadBack(parts, n)
<1> SUFFICES ASSUME NEW k \in 1..n, NEW j \in 1..len[k]
             PROVE  put(parts)[off[k] + j - 1] = parts[k][2][j]
  BY ZenonT(30) DEF ReadBack, BytesAt, Lays
<1> DEFINE i == off[k] + j - 1
           covering == Covering(parts, i)
<1>1. off[k] \in Nat /\ len[k] \in Nat /\ off[k] + len[k] <= 25
  BY DEF Lays
<1>2. i \in Offsets /\ i - off[k] + 1 = j
  <2>1. PICK o \in Nat : o = off[k]
    BY <1>1
  <2>2. PICK m \in Nat : m = len[k]
    BY <1>1
  <2>3. j \in 1..m /\ o + m <= 25
    BY <1>1, <2>1, <2>2
  <2>4. o + j - 1 \in Offsets /\ o + j - 1 - o + 1 = j
    BY <2>3 DEF Offsets
  <2> QED
    BY <2>1, <2>4
<1>3. parts[k][1] = off[k] /\ DOMAIN parts[k][2] = 1..len[k] /\ DOMAIN parts = 1..n
  BY DEF Lays
<1>4. k \in covering
  BY <1>1, <1>2, <1>3 DEF Covering
<1>5. ASSUME NEW l \in covering PROVE l = k
  <2>1. l \in 1..n /\ i - off[l] + 1 \in 1..len[l]
    BY DEF Lays, Covering
  <2>2. off[l] \in Nat /\ len[l] \in Nat
    BY <2>1
  <2>3. ~(off[l] + len[l] <= off[k]) /\ ~(off[k] + len[k] <= off[l])
    <3>1. PICK o \in Nat, m \in Nat, p \in Nat, q \in Nat :
              o = off[k] /\ m = len[k] /\ p = off[l] /\ q = len[l]
      BY <1>1, <2>2
    <3>2. j \in 1..m
      BY <3>1
    <3>4. i = o + j - 1
      BY <3>1
    <3>5. o + j - 1 - p + 1 \in 1..q
      <4>1. i - p + 1 \in 1..q
        BY <2>1, <3>1
      <4> HIDE DEF i
      <4> QED
        BY <3>4, <4>1
    <3>3. ~(p + q <= o) /\ ~(o + m <= p)
      <4>1. j \in Nat /\ j <= m /\ j >= 1
        BY <3>2
      <4>2. p <= o + j - 1 /\ o + j - 1 <= p + q - 1
        BY <3>5, <4>1
      <4> QED
        BY <4>1, <4>2
    <3> QED
      BY <3>1, <3>3
  <2> HIDE DEF covering, i
  <2>4. ~(l < k) /\ ~(k < l)
    BY <2>1, <2>3 DEF Lays
  <2> QED
    BY <2>1, <2>4
<1> HIDE DEF covering
<1>6. covering = {k}
  BY <1>4, <1>5
<1>7. (CHOOSE l \in covering : \A m \in covering : m <= l) = k
  BY <1>6
<1> HIDE DEF i
<1>8. put(parts)[i] = ByteAt(parts, i)
  BY <1>2 DEF put
<1>9. ByteAt(parts, i) = parts[k][2][i - parts[k][1] + 1]
  BY <1>6, <1>7 DEF ByteAt, covering
<1> QED
  BY <1>2, <1>3, <1>8, <1>9 DEF i

LEMMA NibblesRead ==
    ASSUME NEW a \in U8, NEW b \in U8
    PROVE  Nibbles(a, b) \in U8 /\ Hi(Nibbles(a, b)) = a % 16 /\ Lo(Nibbles(a, b)) = b % 16
BY DEF Nibbles, Hi, Lo, U8

\* The byte of four narrow fields.
LEMMA FlagsRead ==
    ASSUME NEW a \in U8, NEW h \in 0..1, NEW e \in 0..1, NEW s \in 0..1
    PROVE  LET b == ((a * 16) % 256) + h * 4 + e * 2 + s
           IN  Hi(b) = a % 16 /\ Bits(b, 4, 2) = h /\ Bits(b, 2, 2) = e /\ Bits(b, 1, 2) = s
<1> DEFINE n == a % 16
           b == ((a * 16) % 256) + h * 4 + e * 2 + s
<1>1. n \in 0..15 /\ (a * 16) % 256 = 16 * n
  BY DEF U8
<1> HIDE DEF n
<1>2. b = 16 * n + h * 4 + e * 2 + s
  BY <1>1
<1> HIDE DEF b
<1>3. Hi(b) = n
  BY <1>1, <1>2 DEF Hi
<1>4. Bits(b, 4, 2) = h
  BY <1>1, <1>2 DEF Bits
<1>5. Bits(b, 2, 2) = e
  BY <1>1, <1>2 DEF Bits
<1>6. Bits(b, 1, 2) = s
  BY <1>1, <1>2 DEF Bits
<1> QED
  BY <1>3, <1>4, <1>5, <1>6 DEF n, b

\* What is read of the bytes put there.
LEMMA BytesRead ==
    ASSUME NEW m, NEW o, NEW n \in Nat, NEW bytes \in Octets(n), BytesAt(m, o, bytes)
    PROVE  at(m, o, n) = bytes
BY DEF at, Octets, BytesAt

LEMMA ByteRead ==
    ASSUME NEW m, NEW o \in Nat, NEW b, BytesAt(m, o, <<b>>)
    PROVE  m[o] = b
<1>1. 1 \in DOMAIN <<b>> /\ <<b>>[1] = b /\ o + 1 - 1 = o
  OBVIOUS
<1>2. m[o + 1 - 1] = <<b>>[1]
  BY <1>1 DEF BytesAt
<1> QED
  BY <1>1, <1>2

LEMMA LocationSurvives == ASSUME NEW v \in Location PROVE FieldsSurvive(v)
<1> DEFINE flags == ((v.status * 16) % 256) + (v.height_type % 2) * 4
                        + (v.ew_direction % 2) * 2 + (v.speed_mult % 2)
           parts == <<header(1, v), <<1, <<flags>>>>,
               <<2, <<v.direction_raw, v.speed_h_raw, v.speed_v_raw>>>>, <<5, v.lat_e7>>,
               <<9, v.lon_e7>>, <<13, v.alt_baro_raw>>, <<15, v.alt_geo_raw>>, <<17, v.height_raw>>,
               <<19, <<Nibbles(v.vert_acc, v.horiz_acc), Nibbles(v.baro_acc, v.speed_acc)>>>>,
               <<21, v.timestamp_raw>>, <<23, <<v.ts_acc % 16>>>>>>
           off == <<0, 1, 2, 5, 9, 13, 15, 17, 19, 21, 23>>
           len == <<1, 1, 3, 4, 4, 2, 2, 2, 2, 2, 1>>
           m == put(parts)
<1>1. v = [kind |-> "Location", proto_version |-> v.proto_version, status |-> v.status,
           height_type |-> v.height_type, ew_direction |-> v.ew_direction,
           speed_mult |-> v.speed_mult, direction_raw |-> v.direction_raw,
           speed_h_raw |-> v.speed_h_raw, speed_v_raw |-> v.speed_v_raw,
           lat_e7 |-> v.lat_e7, lon_e7 |-> v.lon_e7, alt_baro_raw |-> v.alt_baro_raw,
           alt_geo_raw |-> v.alt_geo_raw, height_raw |-> v.height_raw, vert_acc |-> v.vert_acc,
           horiz_acc |-> v.horiz_acc, baro_acc |-> v.baro_acc, speed_acc |-> v.speed_acc,
           timestamp_raw |-> v.timestamp_raw, ts_acc |-> v.ts_acc]
  BY DEF Location
<1>2. /\ v.proto_version \in U8 /\ v.status \in U8 /\ v.height_type \in U8
      /\ v.ew_direction \in U8 /\ v.speed_mult \in U8 /\ v.vert_acc \in U8 /\ v.horiz_acc \in U8
      /\ v.baro_acc \in U8 /\ v.speed_acc \in U8 /\ v.ts_acc \in U8
  BY DEF Location
<1>3. /\ v.lat_e7 \in Octets(4) /\ v.lon_e7 \in Octets(4) /\ v.alt_baro_raw \in Octets(2)
      /\ v.alt_geo_raw \in Octets(2) /\ v.height_raw \in Octets(2)
      /\ v.timestamp_raw \in Octets(2)
  BY DEF Location
<1>4. /\ DOMAIN v.lat_e7 = 1..4 /\ DOMAIN v.lon_e7 = 1..4 /\ DOMAIN v.alt_baro_raw = 1..2
      /\ DOMAIN v.alt_geo_raw = 1..2 /\ DOMAIN v.height_raw = 1..2
      /\ DOMAIN v.timestamp_raw = 1..2
  BY <1>3 DEF Octets
<1>5. Lays(parts, 11, off, len)
  <2> HIDE DEF flags
  <2> QED
    BY <1>4 DEF Lays, header
<1>6. ReadBack(parts, 11)
  <2>1. 11 \in Nat /\ off \in [1..11 -> Nat] /\ len \in [1..11 -> Nat]
    OBVIOUS
  <2> HIDE DEF parts, len, off
  <2> QED
    BY <1>5, <2>1, PutReads
<1>7. /\ BytesAt(m, 0, <<Nibbles(1, v.proto_version)>>) /\ BytesAt(m, 1, <<flags>>)
      /\ BytesAt(m, 2, <<v.direction_raw, v.speed_h_raw, v.speed_v_raw>>)
      /\ BytesAt(m, 5, v.lat_e7) /\ BytesAt(m, 9, v.lon_e7) /\ BytesAt(m, 13, v.alt_baro_raw)
      /\ BytesAt(m, 15, v.alt_geo_raw) /\ BytesAt(m, 17, v.height_raw)
      /\ BytesAt(m, 19, <<Nibbles(v.vert_acc, v.horiz_acc), Nibbles(v.baro_acc, v.speed_acc)>>)
      /\ BytesAt(m, 21, v.timestamp_raw) /\ BytesAt(m, 23, <<v.ts_acc % 16>>)
  <2> HIDE DEF flags
  <2>1. \A k \in 1..11 : BytesAt(m, parts[k][1], parts[k][2])
    <3> HIDE DEF parts
    <3> QED
      BY <1>6 DEF ReadBack
  <2> HIDE DEF m
  <2> QED
    BY <2>1 DEF header
<1> HIDE DEF m, flags
<1>8. /\ at(m, 5, 4) = v.lat_e7 /\ at(m, 9, 4) = v.lon_e7 /\ at(m, 13, 2) = v.alt_baro_raw
      /\ at(m, 15, 2) = v.alt_geo_raw /\ at(m, 17, 2) = v.height_raw
      /\ at(m, 21, 2) = v.timestamp_raw
  BY <1>3, <1>7, BytesRead
<1>0. /\ m[0] = Nibbles(1, v.proto_version) /\ m[1] = flags /\ m[23] = v.ts_acc % 16
      /\ m[2] = v.direction_raw /\ m[3] = v.speed_h_raw /\ m[4] = v.speed_v_raw
      /\ m[19] = Nibbles(v.vert_acc, v.horiz_acc) /\ m[20] = Nibbles(v.baro_acc, v.speed_acc)
  <2>1. m[0] = Nibbles(1, v.proto_version) /\ m[1] = flags /\ m[23] = v.ts_acc % 16
    BY <1>7, ByteRead
  <2>2. m[2] = v.direction_raw /\ m[3] = v.speed_h_raw /\ m[4] = v.speed_v_raw
    BY <1>7 DEF BytesAt
  <2>3. m[19] = Nibbles(v.vert_acc, v.horiz_acc) /\ m[20] = Nibbles(v.baro_acc, v.speed_acc)
    BY <1>7 DEF BytesAt
  <2> QED
    BY <2>1, <2>2, <2>3
<1>9. encode(v) = m
  BY <1>1 DEF encode, encode_location, m, flags
<1>10. /\ Hi(flags) = v.status % 16 /\ Bits(flags, 4, 2) = v.height_type % 2
       /\ Bits(flags, 2, 2) = v.ew_direction % 2 /\ Bits(flags, 1, 2) = v.speed_mult % 2
  <2>1. /\ v.height_type % 2 \in 0..1 /\ v.ew_direction % 2 \in 0..1 /\ v.speed_mult % 2 \in 0..1
    BY <1>2 DEF U8
  <2> QED
    BY <1>2, <2>1, FlagsRead DEF flags
<1>11. /\ Hi(m[0]) = 1 /\ Lo(m[0]) = v.proto_version % 16
       /\ Hi(m[19]) = v.vert_acc % 16 /\ Lo(m[19]) = v.horiz_acc % 16
       /\ Hi(m[20]) = v.baro_acc % 16 /\ Lo(m[20]) = v.speed_acc % 16
       /\ Lo(m[23]) = v.ts_acc % 16
  <2>1. 1 \in U8 /\ 1 % 16 = 1 /\ Lo(v.ts_acc % 16) = v.ts_acc % 16
    BY <1>2 DEF U8, Lo
  <2>2. Hi(m[0]) = 1 /\ Lo(m[0]) = v.proto_version % 16
    <3>1. m[0] = Nibbles(1, v.proto_version) /\ v.proto_version \in U8
      BY <1>0, <1>2
    <3> QED
      BY <2>1, <3>1, NibblesRead
  <2>3. Hi(m[19]) = v.vert_acc % 16 /\ Lo(m[19]) = v.horiz_acc % 16
    <3>1. m[19] = Nibbles(v.vert_acc, v.horiz_acc) /\ v.vert_acc \in U8 /\ v.horiz_acc \in U8
      BY <1>0, <1>2
    <3> QED
      BY <3>1, NibblesRead
  <2>4. Hi(m[20]) = v.baro_acc % 16 /\ Lo(m[20]) = v.speed_acc % 16
    <3>1. m[20] = Nibbles(v.baro_acc, v.speed_acc) /\ v.baro_acc \in U8 /\ v.speed_acc \in U8
      BY <1>0, <1>2
    <3> QED
      BY <3>1, NibblesRead
  <2> QED
    BY <1>0, <2>1, <2>2, <2>3, <2>4
<1>12. decode_message(m) =
          [kind |-> "Location", proto_version |-> v.proto_version % 16, status |-> v.status % 16,
           height_type |-> v.height_type % 2, ew_direction |-> v.ew_direction % 2,
           speed_mult |-> v.speed_mult % 2, direction_raw |-> v.direction_raw,
           speed_h_raw |-> v.speed_h_raw, speed_v_raw |-> v.speed_v_raw,
           lat_e7 |-> v.lat_e7, lon_e7 |-> v.lon_e7, alt_baro_raw |-> v.alt_baro_raw,
           alt_geo_raw |-> v.alt_geo_raw, height_raw |-> v.height_raw,
           vert_acc |-> v.vert_acc % 16, horiz_acc |-> v.horiz_acc % 16,
           baro_acc |-> v.baro_acc % 16, speed_acc |-> v.speed_acc % 16,
           timestamp_raw |-> v.timestamp_raw, ts_acc |-> v.ts_acc % 16]
  BY <1>0, <1>8, <1>10, <1>11 DEF decode_message
<1> QED
  BY <1>1, <1>9, <1>12 DEF FieldsSurvive, Narrow, Values, Flags

LEMMA BasicIdSurvives == ASSUME NEW v \in BasicId PROVE FieldsSurvive(v)
<1> DEFINE parts == <<header(0, v), <<1, <<Nibbles(v.id_type, v.ua_type)>>>>, <<2, v.uas_id>>>>
           off == <<0, 1, 2>>
           len == <<1, 1, 20>>
           m == put(parts)
<1>1. v = [kind |-> "BasicId", proto_version |-> v.proto_version, id_type |-> v.id_type,
           ua_type |-> v.ua_type, uas_id |-> v.uas_id]
      /\ v.proto_version \in U8 /\ v.id_type \in U8 /\ v.ua_type \in U8 /\ v.uas_id \in Octets(20)
  BY DEF BasicId
<1>2. DOMAIN v.uas_id = 1..20
  BY <1>1 DEF Octets
<1>3. Lays(parts, 3, off, len)
  BY <1>2 DEF Lays, header
<1>4. \A k \in 1..3 : BytesAt(m, parts[k][1], parts[k][2])
  <2>1. 3 \in Nat /\ off \in [1..3 -> Nat] /\ len \in [1..3 -> Nat]
    OBVIOUS
  <2> HIDE DEF parts, len, off
  <2> QED
    BY <1>3, <2>1, PutReads DEF ReadBack
<1>5. encode(v) = m
  BY <1>1 DEF encode, encode_basic_id
<1> HIDE DEF m
<1>6. /\ BytesAt(m, 0, <<Nibbles(0, v.proto_version)>>)
      /\ BytesAt(m, 1, <<Nibbles(v.id_type, v.ua_type)>>)
      /\ BytesAt(m, 2, v.uas_id)
  BY <1>4 DEF header
<1>7. m[0] = Nibbles(0, v.proto_version) /\ m[1] = Nibbles(v.id_type, v.ua_type)
  BY <1>6, ByteRead
<1>8. at(m, 2, 20) = v.uas_id
  BY <1>1, <1>6, BytesRead
<1>9. /\ Hi(m[0]) = 0 /\ Lo(m[0]) = v.proto_version % 16
      /\ Hi(m[1]) = v.id_type % 16 /\ Lo(m[1]) = v.ua_type % 16
  <2>1. 0 \in U8 /\ 0 % 16 = 0
    BY DEF U8
  <2> QED
    BY <1>1, <1>7, <2>1, NibblesRead
<1>10. decode_message(m) =
          [kind |-> "BasicId", proto_version |-> v.proto_version % 16,
           id_type |-> v.id_type % 16, ua_type |-> v.ua_type % 16, uas_id |-> v.uas_id]
  BY <1>8, <1>9 DEF decode_message
<1> QED
  BY <1>1, <1>5, <1>10 DEF FieldsSurvive, Narrow, Values, Flags
LEMMA AuthSurvives == ASSUME NEW v \in AuthPage PROVE FieldsSurvive(v)
<1> DEFINE parts == <<header(2, v), <<1, <<Nibbles(v.auth_type, v.data_page)>>>>, <<2, v.data>>>>
           off == <<0, 1, 2>>
           len == <<1, 1, 23>>
           m == put(parts)
<1>1. v = [kind |-> "Auth", proto_version |-> v.proto_version, auth_type |-> v.auth_type,
           data_page |-> v.data_page, data |-> v.data]
      /\ v.proto_version \in U8 /\ v.auth_type \in U8 /\ v.data_page \in U8
      /\ v.data \in Octets(23)
  BY DEF AuthPage
<1>2. DOMAIN v.data = 1..23
  BY <1>1 DEF Octets
<1>3. Lays(parts, 3, off, len)
  BY <1>2 DEF Lays, header
<1>4. \A k \in 1..3 : BytesAt(m, parts[k][1], parts[k][2])
  <2>1. 3 \in Nat /\ off \in [1..3 -> Nat] /\ len \in [1..3 -> Nat]
    OBVIOUS
  <2> HIDE DEF parts, len, off
  <2> QED
    BY <1>3, <2>1, PutReads DEF ReadBack
<1>5. encode(v) = m
  BY <1>1 DEF encode, encode_auth
<1> HIDE DEF m
<1>6. /\ BytesAt(m, 0, <<Nibbles(2, v.proto_version)>>)
      /\ BytesAt(m, 1, <<Nibbles(v.auth_type, v.data_page)>>)
      /\ BytesAt(m, 2, v.data)
  BY <1>4 DEF header
<1>7. m[0] = Nibbles(2, v.proto_version) /\ m[1] = Nibbles(v.auth_type, v.data_page)
  BY <1>6, ByteRead
<1>8. at(m, 2, 23) = v.data
  BY <1>1, <1>6, BytesRead
<1>9. /\ Hi(m[0]) = 2 /\ Lo(m[0]) = v.proto_version % 16
      /\ Hi(m[1]) = v.auth_type % 16 /\ Lo(m[1]) = v.data_page % 16
  <2>1. 2 \in U8 /\ 2 % 16 = 2
    BY DEF U8
  <2> QED
    BY <1>1, <1>7, <2>1, NibblesRead
<1>10. decode_message(m) =
          [kind |-> "Auth", proto_version |-> v.proto_version % 16,
           auth_type |-> v.auth_type % 16, data_page |-> v.data_page % 16, data |-> v.data]
  BY <1>8, <1>9 DEF decode_message
<1> QED
  BY <1>1, <1>5, <1>10 DEF FieldsSurvive, Narrow, Values, Flags

LEMMA SelfIdSurvives == ASSUME NEW v \in SelfId PROVE FieldsSurvive(v)
<1> DEFINE parts == <<header(3, v), <<1, <<v.desc_type>>>>, <<2, v.desc>>>>
           off == <<0, 1, 2>>
           len == <<1, 1, 23>>
           m == put(parts)
<1>1. v = [kind |-> "SelfId", proto_version |-> v.proto_version,
           desc_type |-> v.desc_type, desc |-> v.desc]
      /\ v.proto_version \in U8 /\ v.desc_type \in U8 /\ v.desc \in Octets(23)
  BY DEF SelfId
<1>2. DOMAIN v.desc = 1..23
  BY <1>1 DEF Octets
<1>3. Lays(parts, 3, off, len)
  BY <1>2 DEF Lays, header
<1>4. \A k \in 1..3 : BytesAt(m, parts[k][1], parts[k][2])
  <2>1. 3 \in Nat /\ off \in [1..3 -> Nat] /\ len \in [1..3 -> Nat]
    OBVIOUS
  <2> HIDE DEF parts, len, off
  <2> QED
    BY <1>3, <2>1, PutReads DEF ReadBack
<1>5. encode(v) = m
  BY <1>1 DEF encode, encode_self_id
<1> HIDE DEF m
<1>6. /\ BytesAt(m, 0, <<Nibbles(3, v.proto_version)>>)
      /\ BytesAt(m, 1, <<v.desc_type>>) /\ BytesAt(m, 2, v.desc)
  BY <1>4 DEF header
<1>7. m[0] = Nibbles(3, v.proto_version) /\ m[1] = v.desc_type
  BY <1>6, ByteRead
<1>8. at(m, 2, 23) = v.desc
  BY <1>1, <1>6, BytesRead
<1>9. Hi(m[0]) = 3 /\ Lo(m[0]) = v.proto_version % 16
  <2>1. 3 \in U8 /\ 3 % 16 = 3
    BY DEF U8
  <2> QED
    BY <1>1, <1>7, <2>1, NibblesRead
<1>10. decode_message(m) =
          [kind |-> "SelfId", proto_version |-> v.proto_version % 16,
           desc_type |-> v.desc_type, desc |-> v.desc]
  BY <1>7, <1>8, <1>9 DEF decode_message
<1> QED
  BY <1>1, <1>5, <1>10 DEF FieldsSurvive, Narrow, Values, Flags

LEMMA OperatorIdSurvives == ASSUME NEW v \in OperatorId PROVE FieldsSurvive(v)
<1> DEFINE parts == <<header(5, v), <<1, <<v.operator_id_type>>>>, <<2, v.operator_id>>>>
           off == <<0, 1, 2>>
           len == <<1, 1, 20>>
           m == put(parts)
<1>1. v = [kind |-> "OperatorId", proto_version |-> v.proto_version,
           operator_id_type |-> v.operator_id_type, operator_id |-> v.operator_id]
      /\ v.proto_version \in U8 /\ v.operator_id_type \in U8 /\ v.operator_id \in Octets(20)
  BY DEF OperatorId
<1>2. DOMAIN v.operator_id = 1..20
  BY <1>1 DEF Octets
<1>3. Lays(parts, 3, off, len)
  BY <1>2 DEF Lays, header
<1>4. \A k \in 1..3 : BytesAt(m, parts[k][1], parts[k][2])
  <2>1. 3 \in Nat /\ off \in [1..3 -> Nat] /\ len \in [1..3 -> Nat]
    OBVIOUS
  <2> HIDE DEF parts, len, off
  <2> QED
    BY <1>3, <2>1, PutReads DEF ReadBack
<1>5. encode(v) = m
  BY <1>1 DEF encode, encode_operator_id
<1> HIDE DEF m
<1>6. /\ BytesAt(m, 0, <<Nibbles(5, v.proto_version)>>)
      /\ BytesAt(m, 1, <<v.operator_id_type>>) /\ BytesAt(m, 2, v.operator_id)
  BY <1>4 DEF header
<1>7. m[0] = Nibbles(5, v.proto_version) /\ m[1] = v.operator_id_type
  BY <1>6, ByteRead
<1>8. at(m, 2, 20) = v.operator_id
  BY <1>1, <1>6, BytesRead
<1>9. Hi(m[0]) = 5 /\ Lo(m[0]) = v.proto_version % 16
  <2>1. 5 \in U8 /\ 5 % 16 = 5
    BY DEF U8
  <2> QED
    BY <1>1, <1>7, <2>1, NibblesRead
<1>10. decode_message(m) =
          [kind |-> "OperatorId", proto_version |-> v.proto_version % 16,
           operator_id_type |-> v.operator_id_type, operator_id |-> v.operator_id]
  BY <1>7, <1>8, <1>9 DEF decode_message
<1> QED
  BY <1>1, <1>5, <1>10 DEF FieldsSurvive, Narrow, Values, Flags

LEMMA SystemSurvives == ASSUME NEW v \in System PROVE FieldsSurvive(v)
<1> DEFINE types == (v.classification_type % 8) * 4 + (v.operator_location_type % 4)
           parts == <<header(4, v), <<1, <<types>>>>, <<2, v.op_lat_e7>>, <<6, v.op_lon_e7>>,
               <<10, v.area_count>>, <<12, <<v.area_radius_raw>>>>, <<13, v.area_ceiling_raw>>,
               <<15, v.area_floor_raw>>, <<17, <<Nibbles(v.category_eu, v.class_eu)>>>>,
               <<18, v.op_alt_geo_raw>>, <<20, v.timestamp>>>>
           off == <<0, 1, 2, 6, 10, 12, 13, 15, 17, 18, 20>>
           len == <<1, 1, 4, 4, 2, 1, 2, 2, 1, 2, 4>>
           m == put(parts)
<1>1. v = [kind |-> "System", proto_version |-> v.proto_version,
           classification_type |-> v.classification_type,
           operator_location_type |-> v.operator_location_type, op_lat_e7 |-> v.op_lat_e7,
           op_lon_e7 |-> v.op_lon_e7, area_count |-> v.area_count,
           area_radius_raw |-> v.area_radius_raw, area_ceiling_raw |-> v.area_ceiling_raw,
           area_floor_raw |-> v.area_floor_raw, category_eu |-> v.category_eu,
           class_eu |-> v.class_eu, op_alt_geo_raw |-> v.op_alt_geo_raw,
           timestamp |-> v.timestamp]
  BY DEF System
<1>2. /\ v.proto_version \in U8 /\ v.classification_type \in U8 /\ v.category_eu \in U8
      /\ v.operator_location_type \in U8 /\ v.class_eu \in U8
  BY DEF System
<1>3. /\ v.op_lat_e7 \in Octets(4) /\ v.op_lon_e7 \in Octets(4) /\ v.area_count \in Octets(2)
      /\ v.area_ceiling_raw \in Octets(2) /\ v.area_floor_raw \in Octets(2)
      /\ v.op_alt_geo_raw \in Octets(2) /\ v.timestamp \in Octets(4)
  BY DEF System
<1>4. /\ DOMAIN v.op_lat_e7 = 1..4 /\ DOMAIN v.op_lon_e7 = 1..4 /\ DOMAIN v.area_count = 1..2
      /\ DOMAIN v.area_ceiling_raw = 1..2 /\ DOMAIN v.area_floor_raw = 1..2
      /\ DOMAIN v.op_alt_geo_raw = 1..2 /\ DOMAIN v.timestamp = 1..4
  BY <1>3 DEF Octets
<1>5. Lays(parts, 11, off, len)
  <2> HIDE DEF types
  <2> QED
    BY <1>4 DEF Lays, header
<1>6. ReadBack(parts, 11)
  <2>1. 11 \in Nat /\ off \in [1..11 -> Nat] /\ len \in [1..11 -> Nat]
    OBVIOUS
  <2> HIDE DEF parts, len, off
  <2> QED
    BY <1>5, <2>1, PutReads
<1>7. /\ BytesAt(m, 0, <<Nibbles(4, v.proto_version)>>) /\ BytesAt(m, 1, <<types>>)
      /\ BytesAt(m, 2, v.op_lat_e7) /\ BytesAt(m, 6, v.op_lon_e7) /\ BytesAt(m, 10, v.area_count)
      /\ BytesAt(m, 12, <<v.area_radius_raw>>) /\ BytesAt(m, 13, v.area_ceiling_raw)
      /\ BytesAt(m, 15, v.area_floor_raw)
      /\ BytesAt(m, 17, <<Nibbles(v.category_eu, v.class_eu)>>)
      /\ BytesAt(m, 18, v.op_alt_geo_raw) /\ BytesAt(m, 20, v.timestamp)
  <2> HIDE DEF types
  <2>1. \A k \in 1..11 : BytesAt(m, parts[k][1], parts[k][2])
    <3> HIDE DEF parts
    <3> QED
      BY <1>6 DEF ReadBack
  <2> HIDE DEF m
  <2> QED
    BY <2>1 DEF header
<1> HIDE DEF m, types
<1>8. /\ at(m, 2, 4) = v.op_lat_e7 /\ at(m, 6, 4) = v.op_lon_e7 /\ at(m, 10, 2) = v.area_count
      /\ at(m, 13, 2) = v.area_ceiling_raw /\ at(m, 15, 2) = v.area_floor_raw
      /\ at(m, 18, 2) = v.op_alt_geo_raw /\ at(m, 20, 4) = v.timestamp
  BY <1>3, <1>7, BytesRead
<1>9. /\ m[0] = Nibbles(4, v.proto_version) /\ m[1] = types /\ m[12] = v.area_radius_raw
      /\ m[17] = Nibbles(v.category_eu, v.class_eu)
  BY <1>7, ByteRead
<1>10. encode(v) = m
  BY <1>1 DEF encode, encode_system, m, types
<1>11. Bits(m[1], 4, 8) = v.classification_type % 8 /\ Bits(m[1], 1, 4) = v.operator_location_type % 4
  <2>1. m[1] = types
    BY <1>9
  <2> QED
    BY <1>2, <2>1 DEF types, Bits, U8
<1>12. Hi(m[0]) = 4 /\ Lo(m[0]) = v.proto_version % 16
  <2>1. 4 \in U8 /\ 4 % 16 = 4
    BY DEF U8
  <2>2. m[0] = Nibbles(4, v.proto_version) /\ v.proto_version \in U8
    BY <1>2, <1>9
  <2> QED
    BY <2>1, <2>2, NibblesRead
<1>13. Hi(m[17]) = v.category_eu % 16 /\ Lo(m[17]) = v.class_eu % 16
  <2>1. m[17] = Nibbles(v.category_eu, v.class_eu) /\ v.category_eu \in U8 /\ v.class_eu \in U8
    BY <1>2, <1>9
  <2> QED
    BY <2>1, NibblesRead
<1>14. decode_message(m) =
          [kind |-> "System", proto_version |-> v.proto_version % 16,
           classification_type |-> v.classification_type % 8,
           operator_location_type |-> v.operator_location_type % 4, op_lat_e7 |-> v.op_lat_e7,
           op_lon_e7 |-> v.op_lon_e7, area_count |-> v.area_count,
           area_radius_raw |-> v.area_radius_raw, area_ceiling_raw |-> v.area_ceiling_raw,
           area_floor_raw |-> v.area_floor_raw, category_eu |-> v.category_eu % 16,
           class_eu |-> v.class_eu % 16, op_alt_geo_raw |-> v.op_alt_geo_raw,
           timestamp |-> v.timestamp]
  BY <1>8, <1>9, <1>11, <1>12, <1>13 DEF decode_message
<1> QED
  BY <1>1, <1>10, <1>14 DEF FieldsSurvive, Narrow, Values, Flags

LEMMA EveryMessageSurvives == \A v \in Message : FieldsSurvive(v)
BY BasicIdSurvives, LocationSurvives, AuthSurvives, SelfIdSurvives, SystemSurvives,
   OperatorIdSurvives DEF Message

\* The inputs of the run are messages.
LEMMA ValuesAreMessages ==
    ASSUME NEW kind \in DOMAIN Fields, NEW style, NEW base \in U8, NEW field, NEW other \in U8
    PROVE  ValueFor(kind, style, base, field, other) \in Message
<1> DEFINE value(f) == FieldFor(style, Fields[kind][f], IF f = field THEN other ELSE base)
<1>1. ASSUME NEW f, Fields[kind][f] = 0 PROVE value(f) \in U8
  BY <1>1 DEF FieldFor
<1>2. ASSUME NEW f, NEW n \in Nat \ {0}, Fields[kind][f] = n PROVE value(f) \in Octets(n)
  BY <1>2 DEF FieldFor, Octets, U8
<1>3. ValueFor(kind, style, base, field, other) =
          [f \in {"kind"} \cup DOMAIN Fields[kind] |-> IF f = "kind" THEN kind ELSE value(f)]
  BY DEF ValueFor
<1> HIDE DEF value
<1>4. CASE kind = "BasicId"
  <2>1. ValueFor(kind, style, base, field, other) \in BasicId
    BY <1>1, <1>2, <1>3, <1>4 DEF Fields, BasicId
  <2> QED
    BY <2>1 DEF Message
<1>5. CASE kind = "Location"
  <2>1. ValueFor(kind, style, base, field, other) \in Location
    BY <1>1, <1>2, <1>3, <1>5 DEF Fields, Location
  <2> QED
    BY <2>1 DEF Message
<1>6. CASE kind = "Auth"
  <2>1. ValueFor(kind, style, base, field, other) \in AuthPage
    BY <1>1, <1>2, <1>3, <1>6 DEF Fields, AuthPage
  <2> QED
    BY <2>1 DEF Message
<1>7. CASE kind = "SelfId"
  <2>1. ValueFor(kind, style, base, field, other) \in SelfId
    BY <1>1, <1>2, <1>3, <1>7 DEF Fields, SelfId
  <2> QED
    BY <2>1 DEF Message
<1>8. CASE kind = "System"
  <2>1. ValueFor(kind, style, base, field, other) \in System
    BY <1>1, <1>2, <1>3, <1>8 DEF Fields, System
  <2> QED
    BY <2>1 DEF Message
<1>9. CASE kind = "OperatorId"
  <2>1. ValueFor(kind, style, base, field, other) \in OperatorId
    BY <1>1, <1>2, <1>3, <1>9 DEF Fields, OperatorId
  <2> QED
    BY <2>1 DEF Message
<1> QED
  BY <1>4, <1>5, <1>6, <1>7, <1>8, <1>9 DEF Fields

-----------------------------------------------------------------------------
(* Induction from the end of a string *)

\* Induction, as facts on sets: the provers instantiate no operator.
LEMMA Least ==
    ASSUME NEW S \in SUBSET Nat, S # {}
    PROVE  \E m \in S : \A x \in S : m <= x
<1> DEFINE Less == OpToRel(<, Nat)
<1>1. IsWellFoundedOn(Less, Nat)
  BY NatLessThanWellFounded
<1>2. \A x, y \in Nat : x < y => <<x, y>> \in Less
  BY DEF OpToRel
<1> HIDE DEF Less
<1>3. PICK m \in S : \A y \in S : <<y, m>> \notin Less
  BY <1>1, WFMin
<1> SUFFICES ASSUME NEW x \in S PROVE m <= x
  OBVIOUS
<1>4. x \in Nat /\ m \in Nat /\ <<x, m>> \notin Less
  BY <1>3
<1>5. ~(x < m)
  BY <1>2, <1>4
<1> QED
  BY <1>4, <1>5

\* From the end back: what holds of i if it holds of all that follow.
ClosedBack(S, N) == \A i \in 1..N : (\A j \in i + 1..N : j \in S) => i \in S

LEMMA Descend ==
    ASSUME NEW N \in Nat, NEW S, ClosedBack(S, N)
    PROVE  1..N \subseteq S
<1> DEFINE Missing == {m \in Nat : \E i \in 1..N : m = N - i /\ i \notin S}
<1> SUFFICES ASSUME NEW i0 \in 1..N, i0 \notin S PROVE FALSE
  OBVIOUS
<1>0. N - i0 \in Missing
  OBVIOUS
<1>1. PICK m \in Missing : \A x \in Missing : m <= x
  <2>1. Missing \in SUBSET Nat
    OBVIOUS
  <2> HIDE DEF Missing
  <2> QED
    BY <1>0, <2>1, Least
<1>2. PICK i \in 1..N : m = N - i /\ i \notin S
  OBVIOUS
<1>3. \A j \in i + 1..N : j \in S
  <2> SUFFICES ASSUME NEW j \in i + 1..N, j \notin S PROVE FALSE
    OBVIOUS
  <2>1. N - j \in Missing /\ ~(m <= N - j)
    BY <1>2
  <2> QED
    BY <1>1, <2>1
<1> QED
  BY <1>2, <1>3 DEF ClosedBack

-----------------------------------------------------------------------------

LEMMA RunFromRuns ==
    ASSUME NEW full \in Nat, full > 1, NEW src \in Bytes, NEW i \in 1..Len(src) + 1
    PROVE  LET k == RunFrom(full, src, i)
               n == Len(src)
           IN  /\ k \in 0..full - 1 /\ i + k <= n + 1
               /\ \A j \in i..i + k - 1 : j <= n /\ src[j] # 0
               /\ k = full - 1 \/ i + k > n \/ src[i + k] = 0
<1> DEFINE n == Len(src)
           stops == {k \in Nat : k = full - 1 \/ i + k > n \/ src[i + k] = 0}
           IsRun(k) == /\ \A j \in i..i + k - 1 : j <= n /\ src[j] # 0
                       /\ k = full - 1 \/ i + k > n \/ src[i + k] = 0
<1>1. n \in Nat
  BY DEF Bytes
<1>2. PICK m \in stops : \A x \in stops : m <= x
  <2>1. stops \in SUBSET Nat /\ full - 1 \in stops
    OBVIOUS
  <2> HIDE DEF stops
  <2> QED
    BY <2>1, Least
<1>3. m \in 0..full - 1
  BY <1>2
<1>4. IsRun(m)
  <2> SUFFICES ASSUME NEW j \in i..i + m - 1 PROVE j <= n /\ src[j] # 0
    BY <1>2
  <2>1. j - i \in Nat /\ ~(m <= j - i) /\ i + (j - i) = j
    BY <1>3
  <2>2. j - i \notin stops
    BY <1>2, <2>1
  <2> QED
    BY <1>1, <2>1, <2>2
<1> DEFINE k == RunFrom(full, src, i)
<1>5. k \in 0..full - 1 /\ IsRun(k)
  <2>1. k = CHOOSE q \in 0..full - 1 : IsRun(q)
    BY DEF RunFrom
  <2> HIDE DEF IsRun
  <2> QED
    BY <1>3, <1>4, <2>1
<1> HIDE DEF k
<1>6. i + k <= n + 1
  <2> SUFFICES ASSUME k > 0 PROVE i + k <= n + 1
    BY <1>1, <1>5
  <2>1. i + k - 1 \in i..i + k - 1
    BY <1>5
  <2>2. i + k - 1 <= n
    BY <1>5, <2>1
  <2> QED
    BY <1>1, <1>5, <2>2
<1> QED
  BY <1>5, <1>6 DEF k

\* One block and those that follow it, which g gives.
BlockAt(full, src, g, i) ==
    IF i > Len(src) + 1 THEN <<>>
    ELSE LET k == RunFrom(full, src, i) IN
         <<k + 1>> \o SubSeq(src, i, i + k - 1) \o g[i + k + Skipped(full, k)]

\* The blocks that stand for src from each position on, as cobs_encode has them.
Blocks(full, src) ==
    CHOOSE g : g = [i \in 1..Len(src) + 2 |-> BlockAt(full, src, g, i)]

LEMMA NextBlock ==
    ASSUME NEW full \in Nat, full > 1, NEW src \in Bytes, NEW i \in 1..Len(src) + 1
    PROVE  LET k == RunFrom(full, src, i)
           IN  i + k + Skipped(full, k) \in i + 1..Len(src) + 2
<1> DEFINE k == RunFrom(full, src, i)
<1>1. Len(src) \in Nat
  BY DEF Bytes
<1>2. k \in 0..full - 1 /\ i + k <= Len(src) + 1
  BY RunFromRuns
<1> HIDE DEF k
<1> QED
  <2>1. CASE k = full - 1
    BY <1>1, <1>2, <2>1 DEF Skipped, k
  <2>2. CASE k # full - 1
    BY <1>1, <1>2, <2>2 DEF Skipped, k
  <2> QED
    BY <2>1, <2>2

LEMMA BlockIsLocal ==
    ASSUME NEW full \in Nat, full > 1, NEW src \in Bytes, NEW i \in 1..Len(src) + 2, NEW g, NEW h,
           \A j \in i + 1..Len(src) + 2 : g[j] = h[j]
    PROVE  BlockAt(full, src, g, i) = BlockAt(full, src, h, i)
<1>1. Len(src) \in Nat
  BY DEF Bytes
<1>2. CASE i > Len(src) + 1
  BY <1>2 DEF BlockAt
<1>3. CASE ~(i > Len(src) + 1)
  <2> DEFINE next == i + RunFrom(full, src, i) + Skipped(full, RunFrom(full, src, i))
  <2>1. next \in i + 1..Len(src) + 2
    BY <1>1, <1>3, NextBlock
  <2>2. g[next] = h[next]
    BY <2>1
  <2> QED
    BY <1>3, <2>2 DEF BlockAt
<1> QED
  BY <1>2, <1>3

LEMMA BlocksDefined ==
    ASSUME NEW full \in Nat, full > 1, NEW src \in Bytes
    PROVE  Blocks(full, src) = [i \in 1..Len(src) + 2 |-> BlockAt(full, src, Blocks(full, src), i)]
<1> DEFINE N == Len(src) + 2
           Fun(i, g) == g = [j \in i..N |-> BlockAt(full, src, g, j)]
           S == {i \in 1..N : \E g : Fun(i, g)}
<1>1. N \in Nat /\ N >= 2
  BY DEF Bytes
<1>2. ASSUME NEW i \in 1..N, \A j \in i + 1..N : j \in S PROVE i \in S
  <2>1. PICK g : i < N => Fun(i + 1, g)
    <3>1. CASE i < N
      BY <1>1, <1>2, <3>1
    <3>2. CASE ~(i < N)
      BY <3>2
    <3> QED
      BY <3>1, <3>2
  <2> DEFINE h == [j \in i..N |-> IF j = i THEN BlockAt(full, src, g, i) ELSE g[j]]
  <2>2. \A j \in i + 1..N : h[j] = g[j] /\ g[j] = BlockAt(full, src, g, j)
    BY <1>1, <2>1
  <2>3. \A j \in i..N : h[j] = BlockAt(full, src, g, j)
    <3> TAKE j \in i..N
    <3>1. CASE j = i
      BY <3>1
    <3>2. CASE j # i
      <4>1. j \in i + 1..N
        BY <1>1, <3>2
      <4> QED
        BY <2>2, <4>1
    <3> QED
      BY <3>1, <3>2
  <2> HIDE DEF h
  <2>4. \A j \in i..N : BlockAt(full, src, g, j) = BlockAt(full, src, h, j)
    BY <1>1, <2>2, BlockIsLocal
  <2>5. h = [j \in i..N |-> BlockAt(full, src, h, j)]
    <3>1. h = [j \in i..N |-> h[j]]
      BY DEF h
    <3> QED
      BY <2>3, <2>4, <3>1
  <2> QED
    BY <2>5
<1>3. 1 \in S
  <2> HIDE DEF S
  <2>1. ClosedBack(S, N)
    BY <1>2 DEF ClosedBack
  <2> HIDE DEF N
  <2> QED
    BY <1>1, <2>1, Descend
<1>4. PICK g : Fun(1, g)
  BY <1>3
<1> QED
  BY <1>4 DEF Blocks
\* What Blocks gives at a position within the source and after it.
LEMMA BlocksFrom ==
    ASSUME NEW full \in Nat, full > 1, NEW src \in Bytes
    PROVE  /\ Blocks(full, src)[Len(src) + 2] = <<>>
           /\ \A i \in 1..Len(src) + 1 :
                  LET k == RunFrom(full, src, i)
                  IN  Blocks(full, src)[i] = <<k + 1>> \o SubSeq(src, i, i + k - 1)
                                                 \o Blocks(full, src)[i + k + Skipped(full, k)]
<1>1. Len(src) \in Nat
  BY DEF Bytes
<1>2. \A i \in 1..Len(src) + 2 : Blocks(full, src)[i] = BlockAt(full, src, Blocks(full, src), i)
  BY BlocksDefined
<1>3. Len(src) + 2 \in 1..Len(src) + 2 /\ Len(src) + 2 > Len(src) + 1
  BY <1>1
<1>4. ASSUME NEW i \in 1..Len(src) + 1 PROVE i \in 1..Len(src) + 2 /\ ~(i > Len(src) + 1)
  BY <1>1
<1> QED
  BY <1>2, <1>3, <1>4 DEF BlockAt

\* A cut of a byte string.
LEMMA CutBytes ==
    ASSUME NEW s \in Bytes, NEW i \in Nat, NEW j \in Nat, i >= 1, j <= Len(s), i <= j + 1
    PROVE  /\ SubSeq(s, i, j) \in Bytes
           /\ Len(SubSeq(s, i, j)) = j - i + 1
           /\ \A k \in 1..j - i + 1 : SubSeq(s, i, j)[k] = s[i + k - 1]
<1>1. \A k \in i..j : s[k] \in Nat
  BY DEF Bytes
<1>2. /\ SubSeq(s, i, j) \in Seq(Nat)
      /\ Len(SubSeq(s, i, j)) = IF i <= j THEN j - i + 1 ELSE 0
      /\ \A k \in 1..j - i + 1 : SubSeq(s, i, j)[k] = s[i + k - 1]
  BY <1>1, SubSeqProperties
<1>3. (IF i <= j THEN j - i + 1 ELSE 0) = j - i + 1
  OBVIOUS
<1> QED
  BY <1>2, <1>3 DEF Bytes

LEMMA Associative ==
    ASSUME NEW a \in Bytes, NEW b \in Bytes, NEW c \in Bytes
    PROVE  a \o (b \o c) = (a \o b) \o c
<1>1. a \in Seq(Nat) /\ b \in Seq(Nat) /\ c \in Seq(Nat)
  BY DEF Bytes
<1>2. ASSUME NEW x \in Seq(Nat), NEW y \in Seq(Nat), NEW z \in Seq(Nat)
      PROVE x \o (y \o z) = (x \o y) \o z
  OBVIOUS
<1> QED
  BY <1>1, <1>2

ZeroFree(b) == \A j \in 1..Len(b) : b[j] # 0

LEMMA JoinZeroFree ==
    ASSUME NEW a \in Bytes, NEW b \in Bytes, ZeroFree(a), ZeroFree(b)
    PROVE  a \o b \in Bytes /\ Len(a \o b) = Len(a) + Len(b) /\ ZeroFree(a \o b)
<1>1. Len(a) \in Nat /\ Len(b) \in Nat
  BY DEF Bytes
<1>2. /\ a \o b \in Bytes /\ Len(a \o b) = Len(a) + Len(b)
      /\ \A i \in 1..Len(a) + Len(b) : (a \o b)[i] = IF i <= Len(a) THEN a[i] ELSE b[i - Len(a)]
  BY ConcatProperties DEF Bytes
<1>3. ASSUME NEW i \in 1..Len(a) + Len(b) PROVE (a \o b)[i] # 0
  <2>1. CASE i <= Len(a)
    BY <1>1, <1>2, <2>1 DEF ZeroFree
  <2>2. CASE ~(i <= Len(a))
    <3>1. i - Len(a) \in 1..Len(b)
      BY <1>1, <2>2
    <3> QED
      BY <1>2, <2>2, <3>1 DEF ZeroFree
  <2> QED
    BY <2>1, <2>2
<1> QED
  BY <1>2, <1>3 DEF ZeroFree

\* The run of a block, with its code before it.
LEMMA BlockBytes ==
    ASSUME NEW full \in Nat, full > 1, NEW src \in Bytes, NEW i \in 1..Len(src) + 1
    PROVE  LET k == RunFrom(full, src, i)
               run == SubSeq(src, i, i + k - 1)
           IN  /\ run \in Bytes /\ Len(run) = k /\ ZeroFree(run)
               /\ <<k + 1>> \in Bytes /\ ZeroFree(<<k + 1>>)
               /\ <<k + 1>> \o run \in Bytes /\ Len(<<k + 1>> \o run) = k + 1
               /\ ZeroFree(<<k + 1>> \o run)
<1>1. PICK k : k = RunFrom(full, src, i)
  OBVIOUS
<1> DEFINE run == SubSeq(src, i, i + k - 1)
           n == Len(src)
<1>2. n \in Nat
  BY DEF Bytes
<1>3. /\ k \in 0..full - 1 /\ i + k <= n + 1
      /\ \A j \in i..i + k - 1 : j <= n /\ src[j] # 0
  BY <1>1, RunFromRuns
<1>4. /\ run \in Bytes /\ Len(run) = k
      /\ \A j \in 1..k : run[j] = src[i + j - 1]
  <2>1. PICK l \in Nat : l = i + k - 1
    BY <1>3
  <2>2. l <= n /\ i <= l + 1 /\ i \in Nat /\ i >= 1
    BY <1>2, <1>3, <2>1
  <2> HIDE DEF n
  <2>3. /\ SubSeq(src, i, l) \in Bytes /\ Len(SubSeq(src, i, l)) = l - i + 1
        /\ \A j \in 1..l - i + 1 : SubSeq(src, i, l)[j] = src[i + j - 1]
    BY <2>2, CutBytes DEF n
  <2>4. l - i + 1 = k /\ SubSeq(src, i, l) = run
    BY <1>3, <2>1
  <2> HIDE DEF run
  <2> QED
    BY <2>3, <2>4
<1> HIDE DEF run
<1>5. Len(run) = k /\ ZeroFree(run)
  <2>1. ASSUME NEW j \in 1..k PROVE run[j] # 0
    <3>1. i + j - 1 \in i..i + k - 1
      BY <1>3
    <3> QED
      BY <1>3, <1>4, <3>1
  <2> QED
    BY <1>4, <2>1 DEF ZeroFree
<1>6. <<k + 1>> \in Bytes /\ Len(<<k + 1>>) = 1 /\ ZeroFree(<<k + 1>>)
  BY <1>3 DEF Bytes, ZeroFree
<1>7. /\ <<k + 1>> \o run \in Bytes /\ Len(<<k + 1>> \o run) = 1 + k
      /\ ZeroFree(<<k + 1>> \o run)
  <2> DEFINE c == <<k + 1>>
  <2> HIDE DEF c
  <2> QED
    BY <1>4, <1>5, <1>6, JoinZeroFree DEF c
<1> QED
  BY <1>1, <1>3, <1>4, <1>5, <1>6, <1>7 DEF run

\* Nothing cobs_encode makes holds a zero.
LEMMA BlocksZeroFree ==
    ASSUME NEW full \in Nat, full > 1, NEW src \in Bytes, NEW i \in 1..Len(src) + 2
    PROVE  /\ Blocks(full, src)[i] \in Bytes
           /\ ZeroFree(Blocks(full, src)[i])
           /\ i <= Len(src) + 1 => Len(Blocks(full, src)[i]) > 0
<1> DEFINE N == Len(src) + 2
           E == Blocks(full, src)
           Good(j) == E[j] \in Bytes /\ ZeroFree(E[j]) /\ (j <= Len(src) + 1 => Len(E[j]) > 0)
           S == {j \in 1..N : Good(j)}
<1>1. Len(src) \in Nat
  BY DEF Bytes
<1>2. ASSUME NEW j \in 1..N, \A l \in j + 1..N : l \in S PROVE j \in S
  <2>1. CASE j = N
    <3>1. E[j] = <<>>
      BY <2>1, BlocksFrom
    <3> HIDE DEF E
    <3>2. ~(j <= Len(src) + 1)
      BY <1>1, <2>1
    <3>3. <<>> \in Bytes /\ ZeroFree(<<>>)
      BY DEF Bytes, ZeroFree
    <3> QED
      BY <3>1, <3>2, <3>3
  <2>2. CASE j # N
    <3>1. j \in 1..Len(src) + 1
      BY <1>1, <2>2
    <3> DEFINE k == RunFrom(full, src, j)
               next == j + k + Skipped(full, k)
               head == <<k + 1>> \o SubSeq(src, j, j + k - 1)
    <3>2. E[j] = head \o E[next]
      BY <3>1, BlocksFrom
    <3>3. next \in S
      <4>1. next \in j + 1..N
        BY <3>1, NextBlock
      <4> QED
        BY <1>2, <4>1
    <3>4. head \in Bytes /\ Len(head) = k + 1 /\ ZeroFree(head) /\ k \in Nat
      <4>1. k \in 0..full - 1
        BY <3>1, RunFromRuns
      <4>2. k \in Nat
        BY <4>1
      <4> QED
        BY <3>1, <4>2, BlockBytes
    <3> HIDE DEF head, next, k, E
    <3>5. E[next] \in Bytes /\ ZeroFree(E[next]) /\ Len(E[next]) \in Nat
      BY <3>3 DEF Bytes
    <3>6. E[j] \in Bytes /\ ZeroFree(E[j]) /\ Len(E[j]) = Len(head) + Len(E[next])
      BY <3>2, <3>4, <3>5, JoinZeroFree
    <3>7. Len(E[j]) > 0
      <4>1. \A a, b \in Nat : a + 1 + b > 0
        OBVIOUS
      <4>2. Len(E[j]) = k + 1 + Len(E[next])
        BY <3>4, <3>6
      <4> QED
        BY <3>4, <3>5, <4>1, <4>2
    <3> QED
      BY <3>6, <3>7
  <2> QED
    BY <2>1, <2>2
<1>3. 1..N \subseteq S
  <2>1. ClosedBack(S, N)
    <3> HIDE DEF S
    <3> QED
      BY <1>2 DEF ClosedBack
  <2>2. N \in Nat
    BY <1>1
  <2> HIDE DEF N, S
  <2> QED
    BY <2>1, <2>2, Descend
<1> QED
  BY <1>3

-----------------------------------------------------------------------------
(* Decoding *)

\* One block and those that follow it, which g gives.
ContentAt(full, src, g, i) ==
    IF i > Len(src) THEN Some(<<>>)
    ELSE IF Malformed(src, i) THEN None
    ELSE LET next == i + src[i]
             zero == IF ZeroAfter(full, src[i], next <= Len(src)) THEN <<0>> ELSE <<>>
             rest == g[next]
         IN  IF rest = None THEN None ELSE Some(Run(src, i) \o zero \o rest[1])

\* What the blocks from each position on stand for, as cobs_decode has it.
Contents(full, src) ==
    CHOOSE g : g = [i \in 1..Len(src) + 1 |-> ContentAt(full, src, g, i)]

LEMMA ContentIsLocal ==
    ASSUME NEW full, NEW src \in Bytes, NEW i \in 1..Len(src) + 1, NEW g, NEW h,
           \A j \in i + 1..Len(src) + 1 : g[j] = h[j]
    PROVE  ContentAt(full, src, g, i) = ContentAt(full, src, h, i)
<1>1. Len(src) \in Nat
  BY DEF Bytes
<1>2. CASE i > Len(src) \/ Malformed(src, i)
  BY <1>2 DEF ContentAt
<1>3. CASE ~(i > Len(src) \/ Malformed(src, i))
  <2>1. i \in 1..Len(src) /\ src[i] # 0 /\ ~(i + src[i] - 1 > Len(src))
    BY <1>1, <1>3 DEF Malformed
  <2>2. src[i] \in Nat
    BY <2>1 DEF Bytes
  <2>3. i + src[i] \in i + 1..Len(src) + 1
    BY <1>1, <2>1, <2>2
  <2>4. g[i + src[i]] = h[i + src[i]]
    BY <2>3
  <2> QED
    BY <1>3, <2>4 DEF ContentAt
<1> QED
  BY <1>2, <1>3

LEMMA ContentsDefined ==
    ASSUME NEW full, NEW src \in Bytes, NEW i \in 1..Len(src) + 1
    PROVE  Contents(full, src)[i] = ContentAt(full, src, Contents(full, src), i)
<1> DEFINE N == Len(src) + 1
           Fun(l, g) == g = [j \in l..N |-> ContentAt(full, src, g, j)]
           S == {l \in 1..N : \E g : Fun(l, g)}
<1>1. N \in Nat /\ N >= 1
  BY DEF Bytes
<1>2. ASSUME NEW l \in 1..N, \A j \in l + 1..N : j \in S PROVE l \in S
  <2>1. PICK g : l < N => Fun(l + 1, g)
    <3>1. CASE l < N
      BY <1>1, <1>2, <3>1
    <3>2. CASE ~(l < N)
      BY <3>2
    <3> QED
      BY <3>1, <3>2
  <2> DEFINE h == [j \in l..N |-> IF j = l THEN ContentAt(full, src, g, l) ELSE g[j]]
  <2>2. \A j \in l + 1..N : h[j] = g[j] /\ g[j] = ContentAt(full, src, g, j)
    BY <1>1, <2>1
  <2>3. \A j \in l..N : h[j] = ContentAt(full, src, g, j)
    <3> TAKE j \in l..N
    <3>1. CASE j = l
      BY <3>1
    <3>2. CASE j # l
      <4>1. j \in l + 1..N
        BY <1>1, <3>2
      <4> QED
        BY <2>2, <4>1
    <3> QED
      BY <3>1, <3>2
  <2> HIDE DEF h
  <2>4. \A j \in l..N : ContentAt(full, src, g, j) = ContentAt(full, src, h, j)
    BY <1>1, <2>2, ContentIsLocal
  <2>5. h = [j \in l..N |-> ContentAt(full, src, h, j)]
    <3>1. h = [j \in l..N |-> h[j]]
      BY DEF h
    <3> QED
      BY <2>3, <2>4, <3>1
  <2> QED
    BY <2>5
<1>3. 1 \in S
  <2> HIDE DEF S
  <2>1. ClosedBack(S, N)
    BY <1>2 DEF ClosedBack
  <2> HIDE DEF N
  <2> QED
    BY <1>1, <2>1, Descend
<1>4. PICK g : Fun(1, g)
  BY <1>3
<1>5. Fun(1, Contents(full, src))
  BY <1>4 DEF Contents
<1> QED
  BY <1>5

\* A block in the middle of a byte string: code k + 1, its run, and the rest.
BlockDecodes(full, pre, k, run, rest) ==
    LET pre2 == pre \o (<<k + 1>> \o run)
        s == pre \o ((<<k + 1>> \o run) \o rest)
        r == Contents(full, s)[Len(pre2) + 1]
        zero == IF k + 1 < full /\ Len(rest) > 0 THEN <<0>> ELSE <<>>
    IN  /\ pre2 \in Bytes /\ s = pre2 \o rest
        /\ Contents(full, s)[Len(pre) + 1] = IF r = None THEN None ELSE Some(run \o zero \o r[1])

LEMMA DecodeBlock ==
    ASSUME NEW full \in Nat, full > 1, NEW pre \in Bytes, NEW k \in Nat,
           NEW run \in Bytes, Len(run) = k, ZeroFree(run), NEW rest \in Bytes
    PROVE  BlockDecodes(full, pre, k, run, rest)
<1> DEFINE c == <<k + 1>>
           head == c \o run
           pre2 == pre \o head
           s == pre \o (head \o rest)
           i == Len(pre) + 1
<1>1. Len(pre) \in Nat /\ Len(rest) \in Nat /\ c \in Bytes /\ Len(c) = 1 /\ c[1] = k + 1
  BY DEF Bytes
<1> HIDE DEF c
<1>2. /\ head \in Bytes /\ Len(head) = k + 1
      /\ head[1] = k + 1 /\ \A j \in 1..k : head[j + 1] = run[j]
  <2>1. /\ head \in Bytes /\ Len(head) = 1 + k
        /\ \A j \in 1..1 + k : head[j] = IF j <= 1 THEN c[j] ELSE run[j - 1]
    <3>1. /\ head \in Bytes /\ Len(head) = Len(c) + Len(run)
          /\ \A j \in 1..Len(c) + Len(run) : head[j] = IF j <= Len(c) THEN c[j] ELSE run[j - Len(c)]
      BY <1>1, ConcatProperties DEF Bytes
    <3> HIDE DEF head
    <3> QED
      BY <1>1, <3>1
  <2> HIDE DEF head
  <2>2. \A j \in 1..k : j + 1 \in 1..1 + k /\ ~(j + 1 <= 1) /\ j + 1 - 1 = j
    OBVIOUS
  <2> QED
    BY <1>1, <2>1, <2>2
<1> HIDE DEF head
<1>3. /\ pre2 \in Bytes /\ Len(pre2) = Len(pre) + (k + 1)
      /\ s = pre2 \o rest
  <2>1. pre2 \in Bytes /\ Len(pre2) = Len(pre) + Len(head)
    BY <1>2, ConcatProperties DEF Bytes
  <2>2. s = pre2 \o rest
    BY <1>2, Associative
  <2> QED
    BY <1>2, <2>1, <2>2
<1>4. /\ pre2[Len(pre) + 1] = k + 1
      /\ \A j \in 1..k : pre2[Len(pre) + 1 + j] = run[j]
  <2>1. \A j \in 1..Len(pre) + (k + 1) : pre2[j] = IF j <= Len(pre) THEN pre[j] ELSE head[j - Len(pre)]
    BY <1>2, ConcatProperties DEF Bytes
  <2> HIDE DEF pre2
  <2>2. \A j \in 1..k + 1 : pre2[Len(pre) + j] = head[j]
    <3> TAKE j \in 1..k + 1
    <3>1. PICK l \in Nat : l = Len(pre)
      BY <1>1
    <3>2. l + j \in 1..l + (k + 1) /\ ~(l + j <= l) /\ l + j - l = j
      OBVIOUS
    <3> QED
      BY <2>1, <3>1, <3>2
  <2>3. \A j \in 1..k : j + 1 \in 1..k + 1 /\ Len(pre) + 1 + j = Len(pre) + (j + 1)
    BY <1>1
  <2> QED
    BY <1>2, <2>2, <2>3
<1> HIDE DEF s, pre2
<1>5. /\ s \in Bytes /\ Len(s) = Len(pre2) + Len(rest)
      /\ \A j \in 1..Len(pre2) : s[j] = pre2[j]
  <2>1. /\ s \in Bytes /\ Len(s) = Len(pre2) + Len(rest)
        /\ \A j \in 1..Len(pre2) + Len(rest) : s[j] = IF j <= Len(pre2) THEN pre2[j] ELSE rest[j - Len(pre2)]
    BY <1>3, ConcatProperties DEF Bytes
  <2>2. \A j \in 1..Len(pre2) : j \in 1..Len(pre2) + Len(rest) /\ j <= Len(pre2)
    BY <1>1, <1>3
  <2> QED
    BY <2>1, <2>2
<1> HIDE DEF i
<1>6. i \in Nat /\ i >= 1 /\ i + k = Len(pre2) /\ i = Len(pre) + 1
  BY <1>1, <1>3 DEF i
<1>7. s[i] = k + 1 /\ \A j \in 1..k : s[i + j] = run[j]
  <2>1. \A j \in 0..k : i + j \in 1..Len(pre2)
    BY <1>6
  <2>2. s[i] = pre2[i]
    BY <1>5, <1>6, <2>1
  <2>3. \A j \in 1..k : s[i + j] = pre2[i + j]
    BY <1>5, <2>1
  <2> QED
    BY <1>4, <1>6, <2>2, <2>3
<1>8. Run(s, i) = run
  <2>1. Run(s, i) = SubSeq(s, i + 1, i + k)
    <3>1. i + s[i] - 1 = i + k
      BY <1>6, <1>7
    <3> QED
      BY <3>1 DEF Run
  <2>2. i + k <= Len(s)
    BY <1>1, <1>5, <1>6
  <2>3. PICK a \in Nat, b \in Nat : a = i + 1 /\ b = i + k
    BY <1>6
  <2>4. a >= 1 /\ b <= Len(s) /\ a <= b + 1 /\ b - a + 1 = k
    BY <1>6, <2>2, <2>3
  <2>5. /\ SubSeq(s, a, b) \in Bytes /\ Len(SubSeq(s, a, b)) = k
        /\ \A j \in 1..k : SubSeq(s, a, b)[j] = s[a + j - 1]
    BY <1>5, <2>4, CutBytes
  <2>6. \A j \in 1..k : a + j - 1 = i + j
    BY <1>6, <2>3
  <2>7. SubSeq(s, a, b) = run
    BY <1>7, <2>5, <2>6, SeqEqual DEF Bytes
  <2> QED
    BY <2>1, <2>3, <2>7
<1>9. ~Malformed(s, i)
  <2>1. 0 \notin Range(run)
    <3>1. DOMAIN run = 1..Len(run)
      BY DEF Bytes
    <3> QED
      BY <3>1 DEF Range, ZeroFree
  <2>2. ~(i + s[i] - 1 > Len(s)) /\ s[i] # 0
    BY <1>1, <1>5, <1>6, <1>7
  <2> QED
    BY <1>8, <2>1, <2>2 DEF Malformed
<1>10. i \in 1..Len(s) + 1 /\ ~(i > Len(s))
  BY <1>1, <1>5, <1>6
<1>11. i + s[i] = Len(pre2) + 1 /\ (i + s[i] <= Len(s) <=> Len(rest) > 0)
  BY <1>1, <1>5, <1>6, <1>7
<1> DEFINE r == Contents(full, s)[Len(pre2) + 1]
           zero == IF k + 1 < full /\ Len(rest) > 0 THEN <<0>> ELSE <<>>
<1>12. Contents(full, s)[i] = ContentAt(full, s, Contents(full, s), i)
  BY <1>5, <1>10, ContentsDefined
<1>13. (IF ZeroAfter(full, s[i], i + s[i] <= Len(s)) THEN <<0>> ELSE <<>>) = zero
  BY <1>7, <1>11 DEF ZeroAfter
<1>14. Contents(full, s)[i] = IF r = None THEN None ELSE Some(run \o zero \o r[1])
  <2> HIDE DEF zero
  <2> QED
    BY <1>8, <1>9, <1>10, <1>11, <1>12, <1>13 DEF ContentAt
<1> QED
  BY <1>3, <1>6, <1>14 DEF s, pre2, head, c, BlockDecodes

\* A string is what its two parts make.
LEMMA CutJoins ==
    ASSUME NEW s \in Bytes, NEW i \in 1..Len(s) + 1, NEW j \in Nat, i <= j + 1, j <= Len(s)
    PROVE  SubSeq(s, i, j) \o SubSeq(s, j + 1, Len(s)) = SubSeq(s, i, Len(s))
<1>1. Len(s) \in Nat
  BY DEF Bytes
<1>2. i \in 1..Len(s) + 1 /\ j \in i - 1..Len(s) /\ Len(s) \in j..Len(s)
  BY <1>1
<1> QED
  BY <1>2, ConcatAdjacentSubSeq DEF Bytes

\* Behind a run that ends before a zero.
LEMMA ZeroJoins ==
    ASSUME NEW s \in Bytes, NEW i \in 1..Len(s), NEW z \in i..Len(s), s[z] = 0
    PROVE  SubSeq(s, i, z - 1) \o <<0>> \o SubSeq(s, z + 1, Len(s)) = SubSeq(s, i, Len(s))
<1>1. Len(s) \in Nat
  BY DEF Bytes
<1>2. SubSeq(s, z, z) = <<0>>
  <2>1. /\ SubSeq(s, z, z) \in Bytes /\ Len(SubSeq(s, z, z)) = 1
        /\ SubSeq(s, z, z)[1] = s[z]
    <3>1. z \in Nat /\ z >= 1 /\ z <= Len(s) /\ z <= z + 1 /\ z - z + 1 = 1 /\ z + 1 - 1 = z
      BY <1>1
    <3> QED
      BY <3>1, CutBytes
  <2>2. <<0>> \in Bytes /\ Len(<<0>>) = 1 /\ <<0>>[1] = 0
    BY DEF Bytes
  <2>3. \A j \in 1..1 : SubSeq(s, z, z)[j] = <<0>>[j]
    BY <2>1
  <2> QED
    BY <2>1, <2>2, <2>3, SeqEqual DEF Bytes
<1>3. SubSeq(s, i, z - 1) \o SubSeq(s, z, z) = SubSeq(s, i, z)
  <2>1. PICK y \in Nat : y = z - 1
    OBVIOUS
  <2>2. i \in 1..Len(s) + 1 /\ y \in i - 1..Len(s) /\ z \in y..Len(s) /\ y + 1 = z
    BY <1>1, <2>1
  <2> QED
    BY <2>1, <2>2, ConcatAdjacentSubSeq DEF Bytes
<1>4. SubSeq(s, i, z) \o SubSeq(s, z + 1, Len(s)) = SubSeq(s, i, Len(s))
  <2>1. i \in 1..Len(s) + 1 /\ z \in Nat /\ i <= z + 1 /\ z <= Len(s)
    BY <1>1
  <2> QED
    BY <2>1, CutJoins
<1> QED
  BY <1>2, <1>3, <1>4

\* The bytes b stand for the bytes of src from i on, wherever they end a string.
StandsFor(full, b, src, i) ==
    \A pre \in Bytes : Contents(full, pre \o b)[Len(pre) + 1] = Some(SubSeq(src, i, Len(src)))

\* A block and what stands for the bytes behind it.  An empty rest stands for the end
\* of the source, which is not the byte after a zero.
LEMMA BlockStandsFor ==
    ASSUME NEW full \in Nat, full > 1, NEW src \in Bytes, NEW i \in 1..Len(src) + 1,
           NEW rest \in Bytes,
           LET k == RunFrom(full, src, i)
               next == i + k + Skipped(full, k)
           IN  /\ StandsFor(full, rest, src, next)
               /\ k < full - 1 => (rest = <<>> <=> next = Len(src) + 2)
    PROVE  LET k == RunFrom(full, src, i)
           IN  StandsFor(full, <<k + 1>> \o SubSeq(src, i, i + k - 1) \o rest, src, i)
<1>1. PICK k : k = RunFrom(full, src, i)
  OBVIOUS
<1> DEFINE n == Len(src)
           run == SubSeq(src, i, i + k - 1)
           next == i + k + Skipped(full, k)
<1>2. n \in Nat
  BY DEF Bytes
<1>3. /\ k \in 0..full - 1 /\ i + k <= n + 1
      /\ k = full - 1 \/ i + k > n \/ src[i + k] = 0
  BY <1>1, RunFromRuns
<1>4. run \in Bytes /\ Len(run) = k /\ ZeroFree(run) /\ k \in Nat
  <2>1. k \in Nat
    BY <1>3
  <2> QED
    BY <1>1, <2>1, BlockBytes
<1>5. StandsFor(full, rest, src, next) /\ (k < full - 1 => (rest = <<>> <=> next = n + 2))
  BY <1>1
<1> SUFFICES ASSUME NEW pre \in Bytes
             PROVE  Contents(full, pre \o (<<k + 1>> \o run \o rest))[Len(pre) + 1]
                        = Some(SubSeq(src, i, n))
  BY <1>1 DEF StandsFor
<1> DEFINE pre2 == pre \o (<<k + 1>> \o run)
           s == pre \o ((<<k + 1>> \o run) \o rest)
           r == Contents(full, s)[Len(pre2) + 1]
           zero == IF k + 1 < full /\ Len(rest) > 0 THEN <<0>> ELSE <<>>
<1>6. /\ pre2 \in Bytes /\ s = pre2 \o rest
      /\ Contents(full, s)[Len(pre) + 1] = IF r = None THEN None ELSE Some(run \o zero \o r[1])
  <2> HIDE DEF run
  <2>1. BlockDecodes(full, pre, k, run, rest)
    BY <1>4, DecodeBlock
  <2> QED
    BY <2>1 DEF BlockDecodes
<1>7. r = Some(SubSeq(src, next, n))
  <2> HIDE DEF s, pre2, next
  <2> QED
    BY <1>5, <1>6 DEF StandsFor
<1>8. Contents(full, s)[Len(pre) + 1] = Some(run \o zero \o SubSeq(src, next, n))
  <2>1. r # None /\ r[1] = SubSeq(src, next, n)
    <3> HIDE DEF r, next
    <3> QED
      BY <1>7 DEF Some, None
  <2> HIDE DEF r, s, next, run, zero
  <2> QED
    BY <1>6, <2>1
<1>9. run \o zero \o SubSeq(src, next, n) = SubSeq(src, i, n)
  <2>1. Len(rest) \in Nat /\ (Len(rest) > 0 <=> rest # <<>>)
    BY EmptySeq DEF Bytes
  <2>2. CASE k = full - 1
    <3>1. zero = <<>> /\ next = i + k
      BY <1>3, <2>2 DEF Skipped
    <3>2. run \o <<>> = run
      BY <1>4, ConcatEmptySeq DEF Bytes
    <3>3. run \o SubSeq(src, i + k, n) = SubSeq(src, i, n)
      <4>1. PICK j \in Nat : j = i + k - 1
        BY <1>3
      <4>2. i <= j + 1 /\ j <= Len(src) /\ j + 1 = i + k
        BY <1>2, <1>3, <4>1
      <4> QED
        BY <4>1, <4>2, CutJoins
    <3> HIDE DEF run, zero, next
    <3> QED
      BY <3>1, <3>2, <3>3
  <2>3. CASE k # full - 1 /\ i + k <= n
    <3>1. next = i + k + 1 /\ next # n + 2 /\ src[i + k] = 0
      BY <1>2, <1>3, <2>3 DEF Skipped
    <3>2. zero = <<0>>
      <4>1. k < full - 1 /\ k + 1 < full
        BY <1>3, <2>3
      <4> HIDE DEF next
      <4> QED
        BY <1>5, <2>1, <3>1, <4>1
    <3>3. run \o <<0>> \o SubSeq(src, i + k + 1, n) = SubSeq(src, i, n)
      <4>1. PICK z \in Nat : z = i + k
        BY <1>3
      <4>2. i \in 1..Len(src) /\ z \in i..Len(src) /\ src[z] = 0
        BY <1>2, <1>3, <2>3, <3>1, <4>1
      <4>3. SubSeq(src, i, z - 1) \o <<0>> \o SubSeq(src, z + 1, n) = SubSeq(src, i, n)
        BY <4>2, ZeroJoins
      <4>4. z - 1 = i + k - 1 /\ z + 1 = i + k + 1
        BY <1>3, <4>1
      <4> QED
        BY <4>3, <4>4
    <3> HIDE DEF run, zero, next
    <3> QED
      BY <3>1, <3>2, <3>3
  <2>4. CASE k # full - 1 /\ ~(i + k <= n)
    <3>1. next = n + 2 /\ i + k - 1 = n
      BY <1>2, <1>3, <2>4 DEF Skipped
    <3>2. zero = <<>>
      <4>1. k < full - 1
        BY <1>3, <2>4
      <4> HIDE DEF next
      <4> QED
        BY <1>5, <2>1, <3>1, <4>1
    <3>3. SubSeq(src, n + 2, n) = <<>>
      BY <1>2, SubSeqEmpty
    <3>4. run \o <<>> \o <<>> = run
      BY <1>4, ConcatEmptySeq DEF Bytes
    <3>5. run = SubSeq(src, i, n)
      BY <3>1
    <3> HIDE DEF run, zero, next
    <3> QED
      BY <3>1, <3>2, <3>3, <3>4, <3>5
  <2> QED
    BY <2>2, <2>3, <2>4
<1> QED
  BY <1>8, <1>9

LEMMA NothingStandsFor ==
    ASSUME NEW full, NEW src \in Bytes, NEW i \in {Len(src) + 1, Len(src) + 2}
    PROVE  StandsFor(full, <<>>, src, i)
<1>1. Len(src) \in Nat
  BY DEF Bytes
<1>2. SubSeq(src, i, Len(src)) = <<>>
  BY <1>1, SubSeqEmpty
<1> SUFFICES ASSUME NEW pre \in Bytes PROVE Contents(full, pre \o <<>>)[Len(pre) + 1] = Some(<<>>)
  BY <1>2 DEF StandsFor
<1>3. pre \o <<>> = pre
  BY ConcatEmptySeq DEF Bytes
<1>4. Len(pre) \in Nat /\ Len(pre) + 1 \in 1..Len(pre) + 1 /\ Len(pre) + 1 > Len(pre)
  BY DEF Bytes
<1>5. Contents(full, pre)[Len(pre) + 1] = Some(<<>>)
  BY <1>4, ContentsDefined DEF ContentAt
<1> QED
  BY <1>3, <1>5

\* What cobs_encode makes of the source from i on stands for it.
LEMMA BlocksStandFor ==
    ASSUME NEW full \in Nat, full > 1, NEW src \in Bytes, NEW i \in 1..Len(src) + 2
    PROVE  StandsFor(full, Blocks(full, src)[i], src, i)
<1> DEFINE N == Len(src) + 2
           E == Blocks(full, src)
           S == {j \in 1..N : StandsFor(full, E[j], src, j)}
<1>1. Len(src) \in Nat
  BY DEF Bytes
<1>2. ASSUME NEW j \in 1..N, \A l \in j + 1..N : l \in S PROVE j \in S
  <2>1. CASE j = N
    BY <2>1, NothingStandsFor, BlocksFrom
  <2>2. CASE j # N
    <3>1. j \in 1..Len(src) + 1
      BY <1>1, <2>2
    <3> DEFINE k == RunFrom(full, src, j)
               next == j + k + Skipped(full, k)
    <3>2. next \in j + 1..N
      BY <3>1, NextBlock
    <3>3. StandsFor(full, E[next], src, next)
      BY <1>2, <3>2
    <3>4. E[next] \in Bytes /\ (E[next] = <<>> <=> next = N)
      <4>1. next \in 1..N
        BY <1>1, <3>2
      <4> HIDE DEF next
      <4>2. E[next] \in Bytes /\ (next <= Len(src) + 1 => Len(E[next]) > 0)
        BY <4>1, BlocksZeroFree
      <4>3. E[N] = <<>>
        BY BlocksFrom
      <4>4. next # N => next <= Len(src) + 1
        BY <1>1, <4>1
      <4> QED
        BY <4>2, <4>3, <4>4
    <3>5. StandsFor(full, <<k + 1>> \o SubSeq(src, j, j + k - 1) \o E[next], src, j)
      <4> HIDE DEF E
      <4> QED
        BY <3>1, <3>3, <3>4, BlockStandsFor
    <3>6. E[j] = <<k + 1>> \o SubSeq(src, j, j + k - 1) \o E[next]
      BY <3>1, BlocksFrom
    <3> HIDE DEF E, k, next
    <3> QED
      BY <3>5, <3>6
  <2> QED
    BY <2>1, <2>2
<1>3. 1..N \subseteq S
  <2>1. ClosedBack(S, N)
    <3> HIDE DEF S
    <3> QED
      BY <1>2 DEF ClosedBack
  <2>2. N \in Nat
    BY <1>1
  <2> HIDE DEF N, S
  <2> QED
    BY <2>1, <2>2, Descend
<1> QED
  BY <1>3

\* A full run takes one from the quotient, fewer bytes take nothing.
LEMMA Quotients ==
    ASSUME NEW M \in Nat, M > 0
    PROVE  /\ \A x \in Nat : x \div M \in Nat
           /\ \A x \in Nat : x >= M => (x - M) \div M = x \div M - 1
           /\ \A x, y \in Nat : x <= y => x \div M <= y \div M
<1>1. \A x \in Nat : x \div M \in Nat
  BY SMT
<1>2. \A x \in Nat : x >= M => (x - M) \div M = x \div M - 1
  BY SMT
<1>3. \A x, y \in Nat : x <= y => x \div M <= y \div M
  BY SMT
<1> QED
  BY <1>1, <1>2, <1>3

\* A position within the source: the block there, and the blocks behind it.
LEMMA BlockParts ==
    ASSUME NEW full \in Nat, full > 1, NEW src \in Bytes, NEW i \in 1..Len(src) + 1
    PROVE  \E k \in 0..full - 1, head \in Bytes, next \in i + 1..Len(src) + 2 :
              /\ k = RunFrom(full, src, i)
              /\ head = <<k + 1>> \o SubSeq(src, i, i + k - 1)
              /\ Len(head) = k + 1
              /\ next = i + k + Skipped(full, k)
              /\ Blocks(full, src)[next] \in Bytes
              /\ Blocks(full, src)[i] = head \o Blocks(full, src)[next]
              /\ Len(Blocks(full, src)[i]) = k + 1 + Len(Blocks(full, src)[next])
<1> DEFINE k == RunFrom(full, src, i)
           next == i + k + Skipped(full, k)
           head == <<k + 1>> \o SubSeq(src, i, i + k - 1)
           E == Blocks(full, src)
<1>1. Len(src) \in Nat
  BY DEF Bytes
<1>2. k \in 0..full - 1
  BY RunFromRuns
<1>3. next \in i + 1..Len(src) + 2
  BY NextBlock
<1>4. head \in Bytes /\ Len(head) = k + 1
  BY BlockBytes
<1>5. E[i] = head \o E[next]
  BY BlocksFrom
<1>6. E[next] \in Bytes
  <2>1. next \in 1..Len(src) + 2
    BY <1>1, <1>3
  <2> HIDE DEF next
  <2> QED
    BY <2>1, BlocksZeroFree
<1> HIDE DEF head, E, next
<1>7. Len(head \o E[next]) = Len(head) + Len(E[next])
  BY <1>4, <1>6, ConcatProperties DEF Bytes
<1> HIDE DEF k
<1>8. Len(E[i]) = k + 1 + Len(E[next])
  BY <1>4, <1>5, <1>7
<1> QED
  BY <1>2, <1>3, <1>4, <1>5, <1>6, <1>8 DEF k, head, next, E

\* A byte more than the source, and one more for each full run that fits.
LEMMA BlocksLength ==
    ASSUME NEW full \in Nat, full > 1, NEW src \in Bytes, NEW i \in 1..Len(src) + 1
    PROVE  LET x == Len(src) + 1 - i
           IN  /\ Len(Blocks(full, src)[i]) >= x + 1
               /\ Len(Blocks(full, src)[i]) <= x + 1 + x \div (full - 1)
<1>1. PICK n \in Nat : n = Len(src)
  BY DEF Bytes
<1>2. PICK M \in Nat : M = full - 1 /\ M > 0
  OBVIOUS
<1> DEFINE E == Blocks(full, src)
           Good(j, x) == Len(E[j]) >= x + 1 /\ Len(E[j]) <= x + 1 + x \div M
           S == {j \in 1..n + 1 : Good(j, n + 1 - j)}
<1>3. ASSUME NEW j \in 1..n + 1, \A l \in j + 1..n + 1 : l \in S PROVE j \in S
  <2>a. j \in 1..Len(src) + 1
    BY <1>1
  <2> HIDE DEF S
  <2>b. PICK k \in 0..full - 1, next \in j + 1..Len(src) + 2 :
            /\ k = RunFrom(full, src, j)
            /\ next = j + k + Skipped(full, k)
            /\ Blocks(full, src)[next] \in Bytes
            /\ Len(Blocks(full, src)[j]) = k + 1 + Len(Blocks(full, src)[next])
    BY <2>a, BlockParts
  <2>1. /\ k \in 0..full - 1 /\ next \in j + 1..n + 2
        /\ k = RunFrom(full, src, j)
        /\ next = j + k + Skipped(full, k)
        /\ E[next] \in Bytes
        /\ Len(E[j]) = k + 1 + Len(E[next])
    BY <1>1, <2>b
  <2>2. PICK x \in Nat : x = n + 1 - j
    OBVIOUS
  <2>3. Len(E[next]) \in Nat
    BY <2>1 DEF Bytes
  <2>4. x \div M \in Nat
    BY <1>2, Quotients
  <2>5. next = n + 2 => Len(E[next]) = 0
    <3>1. E[n + 2] = <<>>
      BY <1>1, BlocksFrom
    <3> HIDE DEF E
    <3> QED
      BY <3>1
  <2>6. next # n + 2 => Good(next, n + 1 - next)
    <3>1. next # n + 2 => next \in j + 1..n + 1
      BY <2>1
    <3> HIDE DEF E
    <3> QED
      BY <1>3, <3>1 DEF S
  <2> USE DEF S
  <2> HIDE DEF E
  <2>n. next \in j + 1..n + 2
    BY <2>1
  <2>l. PICK l \in Nat : l = Len(E[next])
    BY <2>3
  <2>e. Len(E[j]) = k + 1 + l /\ k \in Nat
    BY <2>1, <2>l
  <2>7. CASE k = M
    <3>1. next = j + M /\ k + 1 = M + 1
      BY <1>2, <2>1, <2>7 DEF Skipped
    <3>2. next # n + 2
      <4>1. j + k <= n + 1
        BY <1>1, <2>1, RunFromRuns
      <4> QED
        BY <2>7, <3>1, <4>1
    <3>3. n + 1 - next = x - M /\ x >= M
      BY <1>2, <2>2, <2>n, <3>1, <3>2
    <3>4. (x - M) \div M = x \div M - 1
      BY <1>2, <3>3, Quotients
    <3>5. PICK q \in Nat : q = x \div M
      BY <2>4
    <3>6. Len(E[next]) >= x - M + 1 /\ Len(E[next]) <= x - M + 1 + (q - 1)
      BY <2>6, <3>2, <3>3, <3>4, <3>5
    <3>7. Len(E[j]) >= x + 1 /\ Len(E[j]) <= x + 1 + q
      <4>1. l >= x - M + 1 /\ l <= x - M + 1 + (q - 1)
        BY <2>l, <3>6
      <4>2. M + 1 + l >= x + 1 /\ M + 1 + l <= x + 1 + q
        BY <1>2, <4>1
      <4> QED
        BY <2>e, <2>7, <4>2
    <3> QED
      BY <2>2, <3>5, <3>7
  <2>8. CASE k # M
    <3>1. next = j + k + 1
      BY <1>2, <2>1, <2>8 DEF Skipped
    <3>2. CASE next = n + 2
      <4>1. k = x /\ Len(E[j]) = x + 1
        BY <2>1, <2>2, <2>5, <3>1, <3>2
      <4>2. PICK q \in Nat : q = x \div M
        BY <2>4
      <4>3. Len(E[j]) >= x + 1 /\ Len(E[j]) <= x + 1 + q
        BY <4>1
      <4> QED
        BY <2>2, <4>2, <4>3
    <3>3. CASE next # n + 2
      <4>1. PICK y \in Nat : y = n + 1 - next /\ y + k + 1 = x /\ y <= x
        BY <2>2, <2>e, <2>n, <3>1, <3>3
      <4>2. y \div M <= x \div M /\ y \div M \in Nat
        BY <1>2, <4>1, Quotients
      <4>3. PICK q \in Nat, p \in Nat : q = x \div M /\ p = y \div M /\ p <= q
        BY <2>4, <4>2
      <4>4. Len(E[next]) >= y + 1 /\ Len(E[next]) <= y + 1 + p
        BY <2>6, <3>3, <4>1, <4>3
      <4>5. Len(E[j]) >= x + 1 /\ Len(E[j]) <= x + 1 + q
        <5>1. l >= y + 1 /\ l <= y + 1 + p
          BY <2>l, <4>4
        <5>2. k + 1 + l >= x + 1 /\ k + 1 + l <= x + 1 + q
          BY <2>e, <4>1, <4>3, <5>1, SMTT(30)
        <5> QED
          BY <2>e, <5>2
      <4> QED
        BY <2>2, <4>3, <4>5
    <3> QED
      BY <3>2, <3>3
  <2> QED
    BY <2>7, <2>8
<1>4. 1..n + 1 \subseteq S
  <2>1. ClosedBack(S, n + 1)
    <3> HIDE DEF S
    <3> QED
      BY <1>3 DEF ClosedBack
  <2> HIDE DEF S
  <2> QED
    BY <2>1, Descend
<1> QED
  BY <1>1, <1>2, <1>4

\* cobs_encode and cobs_decode are the first of these blocks.
LEMMA EncodeIs ==
    ASSUME NEW full \in Nat, full > 1, NEW src \in Bytes, NEW room \in Nat
    PROVE  cobs_encode(full, src, room) =
               IF Len(Blocks(full, src)[1]) <= room THEN Some(Blocks(full, src)[1]) ELSE None
BY DEF cobs_encode, Blocks, BlockAt

LEMMA DecodeIs ==
    ASSUME NEW full, NEW src \in Bytes, NEW room \in Nat
    PROVE  cobs_decode(full, src, room) =
               LET dst == Contents(full, src)[1]
               IN  IF dst # None /\ Len(dst[1]) <= room THEN dst ELSE None
BY DEF cobs_decode, Contents, ContentAt

\* Bytes that stand for data are decoded to it where there is room for it.
LEMMA StandingDecodes ==
    ASSUME NEW full, NEW data \in Bytes, NEW b \in Bytes, StandsFor(full, b, data, 1),
           NEW room \in Nat, Len(data) <= room
    PROVE  cobs_decode(full, b, room) = Some(data)
<1>1. <<>> \in Bytes /\ Len(<<>>) = 0 /\ <<>> \o b = b
  BY ConcatEmptySeq DEF Bytes
<1>2. SubSeq(data, 1, Len(data)) = data
  BY SubSeqFull DEF Bytes
<1>3. Contents(full, b)[1] = Some(data)
  <2>1. Contents(full, <<>> \o b)[Len(<<>>) + 1] = Some(SubSeq(data, 1, Len(data)))
    BY <1>1 DEF StandsFor
  <2>2. Len(<<>>) + 1 = 1
    OBVIOUS
  <2> QED
    BY <1>1, <1>2, <2>1, <2>2
<1>4. Some(data) # None /\ Some(data)[1] = data
  BY DEF Some, None
<1> QED
  BY <1>3, <1>4, DecodeIs

\* The source ends in full runs, r of them behind a zero at z or from its start on.
FullTail(full, src, z, r) ==
    /\ z \in 0..Len(src) /\ r \in 1..Len(src)
    /\ z = Len(src) - r * (full - 1)
    /\ \A j \in z + 1..Len(src) : src[j] # 0

\* Positions from which the blocks run into those full runs.
Aligned(full, src, z, r) ==
    {i \in 1..Len(src) + 1 : i <= z \/ \E q \in 0..r : i = Len(src) + 1 - q * (full - 1)}

\* The blocks from i on, but for the last, stand for the source from i on.
FrontStands(full, src, i) ==
    \E d \in Bytes : /\ Blocks(full, src)[i] = d \o <<1>>
                     /\ StandsFor(full, d, src, i)
                     /\ d = <<>> <=> i = Len(src) + 1

\* The block before an aligned position begins at an aligned one.
LEMMA AlignedNext ==
    ASSUME NEW full \in Nat, full > 1, NEW src \in Bytes, NEW z, NEW r, FullTail(full, src, z, r),
           z = 0 \/ (z > 0 /\ src[z] = 0), NEW i \in Aligned(full, src, z, r), i # Len(src) + 1
    PROVE  LET k == RunFrom(full, src, i)
               next == i + k + Skipped(full, k)
           IN  next \in Aligned(full, src, z, r) /\ (k # full - 1 => next # Len(src) + 1)
<1>1. PICK n \in Nat : n = Len(src)
  BY DEF Bytes
<1>2. PICK M \in Nat : M = full - 1 /\ M > 0
  OBVIOUS
<1>3. PICK k : k = RunFrom(full, src, i)
  OBVIOUS
<1>4. i \in 1..n
  BY <1>1 DEF Aligned
<1>5. /\ k \in 0..M /\ i + k <= n + 1
      /\ \A j \in i..i + k - 1 : src[j] # 0
      /\ k = M \/ i + k > n \/ src[i + k] = 0
  <2>1. i \in 1..Len(src) + 1
    BY <1>1, <1>4
  <2>2. /\ k \in 0..full - 1 /\ i + k <= Len(src) + 1
        /\ \A j \in i..i + k - 1 : j <= Len(src) /\ src[j] # 0
        /\ k = full - 1 \/ i + k > Len(src) \/ src[i + k] = 0
    BY <1>3, <2>1, RunFromRuns
  <2> QED
    BY <1>1, <1>2, <2>2
<1>6. /\ z \in 0..n /\ r \in 1..n /\ z = n - r * M
      /\ \A j \in z + 1..n : src[j] # 0
  BY <1>1, <1>2 DEF FullTail
<1>7. z < n
  <2>1. \A a, b \in Nat : a >= 1 /\ b >= 1 => a * b >= 1
    BY SMT
  <2>2. r * M >= 1
    BY <1>2, <1>6, <2>1
  <2>3. PICK p \in Int : p = r * M
    BY <1>2, <1>6
  <2> QED
    BY <1>6, <2>2, <2>3
<1>8. z + 1 \in Aligned(full, src, z, r)
  <2>1. z + 1 = n + 1 - r * M
    <3>1. PICK p \in Int : p = r * M
      BY <1>2, <1>6
    <3> QED
      BY <1>6, <3>1
  <2>2. r \in 0..r /\ z + 1 \in 1..n + 1
    BY <1>6
  <2> QED
    BY <1>1, <1>2, <2>1, <2>2 DEF Aligned
<1> DEFINE next == i + k + Skipped(full, k)
<1>9. k = M => next = i + M
  BY <1>2, <1>4 DEF Skipped
<1>10. k # M => next = i + k + 1
  BY <1>2 DEF Skipped
<1>11. CASE i <= z
  <2>1. i + k <= z /\ src[z] = 0
    <3>1. z > 0 /\ src[z] = 0
      BY <1>4, <1>6, <1>11
    <3>2. ~(z \in i..i + k - 1)
      BY <1>5, <3>1
    <3> QED
      BY <1>4, <1>5, <1>6, <1>11, <3>1, <3>2
  <2>2. CASE k = M
    <3>1. next \in 1..n + 1 /\ next <= z
      BY <1>2, <1>4, <1>6, <1>9, <2>1, <2>2
    <3> QED
      BY <1>1, <1>2, <1>3, <2>2, <3>1 DEF Aligned
  <2>3. CASE k # M
    <3>1. next \in 1..n /\ (next <= z \/ next = z + 1)
      BY <1>4, <1>5, <1>6, <1>7, <1>10, <2>1, <2>3
    <3>2. next # n + 1 /\ next \in 1..n + 1
      BY <3>1
    <3>3. next \in Aligned(full, src, z, r)
      <4>1. CASE next = z + 1
        BY <1>8, <4>1
      <4>2. CASE next <= z
        BY <1>1, <3>2, <4>2 DEF Aligned
      <4> QED
        BY <3>1, <4>1, <4>2
    <3> HIDE DEF next
    <3> QED
      BY <1>1, <1>2, <1>3, <2>3, <3>2, <3>3 DEF next
  <2> QED
    BY <2>2, <2>3
<1>12. CASE ~(i <= z)
  <2>1. PICK q \in 0..r : i = n + 1 - q * M
    BY <1>1, <1>2, <1>12 DEF Aligned
  <2>2. q # 0
    <3>1. 0 * M = 0
      BY <1>2
    <3> QED
      BY <1>4, <2>1, <3>1
  <2>3. PICK p \in Int, w \in Int : p = q * M /\ w = (q - 1) * M /\ p = w + M
    <3>1. \A a, b \in Int : a * b \in Int /\ (a - 1) * b \in Int /\ a * b = (a - 1) * b + b
      BY SMT
    <3>2. q \in Int /\ M \in Int
      BY <1>2, <1>6, <2>1
    <3> QED
      BY <3>1, <3>2
  <2>4. w >= 0
    <3>1. \A a, b \in Nat : a >= 1 => (a - 1) * b >= 0
      BY SMT
    <3>2. q \in Nat /\ q >= 1
      BY <1>6, <2>1, <2>2
    <3> QED
      BY <1>2, <2>3, <3>1, <3>2
  <2>5. i + M = n + 1 - w /\ i + M <= n + 1
    BY <1>2, <1>4, <2>1, <2>3, <2>4
  <2>6. k = M
    <3> SUFFICES ASSUME k # M PROVE FALSE
      OBVIOUS
    <3>1. i + k <= n /\ i + k \in z + 1..n
      BY <1>2, <1>4, <1>5, <1>6, <1>12, <2>5
    <3>2. src[i + k] # 0
      BY <1>6, <3>1
    <3> QED
      BY <1>5, <3>1, <3>2
  <2>7. next = n + 1 - (q - 1) * M /\ next \in 1..n + 1
    BY <1>2, <1>4, <1>9, <2>3, <2>5, <2>6
  <2>8. q - 1 \in 0..r
    BY <1>6, <2>1, <2>2
  <2>9. next \in Aligned(full, src, z, r)
    <3> HIDE DEF next
    <3> QED
      BY <1>1, <1>2, <2>7, <2>8 DEF Aligned
  <2> QED
    BY <1>2, <1>3, <2>6, <2>9
<1> QED
  BY <1>11, <1>12

LEMMA FrontsStand ==
    ASSUME NEW full \in Nat, full > 1, NEW src \in Bytes, NEW z, NEW r, FullTail(full, src, z, r),
           z = 0 \/ (z > 0 /\ src[z] = 0), NEW i \in Aligned(full, src, z, r)
    PROVE  FrontStands(full, src, i)
<1>1. PICK n \in Nat : n = Len(src)
  BY DEF Bytes
<1> DEFINE A == Aligned(full, src, z, r)
           S == {j \in 1..n + 1 : j \in A => FrontStands(full, src, j)}
<1>2. ASSUME NEW j \in 1..n + 1, \A l \in j + 1..n + 1 : l \in S, j \in A
      PROVE  FrontStands(full, src, j)
  <2> DEFINE k == RunFrom(full, src, j)
             next == j + k + Skipped(full, k)
             head == <<k + 1>> \o SubSeq(src, j, j + k - 1)
             E == Blocks(full, src)
  <2>0. j \in 1..Len(src) + 1
    BY <1>1
  <2>1. /\ k \in 0..full - 1 /\ j + k <= n + 1
        /\ k # full - 1 => next = j + k + 1
    <3>1. k \in 0..full - 1 /\ j + k <= n + 1
      BY <1>1, <2>0, RunFromRuns
    <3> QED
      BY <3>1 DEF Skipped
  <2>2. E[j] = head \o E[next]
    BY <2>0, BlocksFrom
  <2>3. head \in Bytes /\ Len(head) = k + 1
    BY <2>0, BlockBytes
  <2>4. next \in j + 1..n + 2
    BY <1>1, <2>0, NextBlock
  <2>5. CASE j = n + 1
    <3>1. k = 0 /\ next = n + 2
      BY <2>1, <2>4, <2>5 DEF Skipped
    <3>2. SubSeq(src, n + 1, n) = <<>>
      BY <1>1, SubSeqEmpty
    <3>3. E[n + 2] = <<>>
      BY <1>1, BlocksFrom
    <3>4. head = <<1>>
      <4>1. head = <<1>> \o <<>>
        <5>1. j + k - 1 = n /\ k + 1 = 1
          BY <2>5, <3>1
        <5> HIDE DEF k
        <5> QED
          BY <2>5, <3>2, <5>1
      <4>2. <<1>> \o <<>> = <<1>>
        OBVIOUS
      <4> QED
        BY <4>1, <4>2
    <3>5. E[j] = <<>> \o <<1>>
      <4> HIDE DEF head, next, E
      <4>1. E[j] = <<1>> \o <<>>
        BY <2>2, <3>1, <3>3, <3>4
      <4>2. <<1>> \o <<>> = <<>> \o <<1>>
        OBVIOUS
      <4> QED
        BY <4>1, <4>2
    <3>6. StandsFor(full, <<>>, src, j)
      BY <1>1, <2>5, NothingStandsFor
    <3>7. <<>> \in Bytes
      BY DEF Bytes
    <3> QED
      BY <1>1, <2>5, <3>5, <3>6, <3>7 DEF FrontStands
  <2>6. CASE j # n + 1
    <3>1. next \in A /\ (k # full - 1 => next # n + 1)
      BY <1>1, <1>2, <2>6, AlignedNext
    <3>2. next \in j + 1..n + 1
      BY <1>1, <2>4, <3>1 DEF Aligned
    <3>3. FrontStands(full, src, next)
      <4> HIDE DEF next
      <4> QED
        BY <1>2, <3>1, <3>2
    <3>4. PICK d \in Bytes : /\ E[next] = d \o <<1>>
                             /\ StandsFor(full, d, src, next)
                             /\ d = <<>> <=> next = n + 1
      BY <1>1, <3>3 DEF FrontStands
    <3>5. StandsFor(full, head \o d, src, j)
      <4>1. k < full - 1 => (d = <<>> <=> next = Len(src) + 2)
        <5>1. k < full - 1 => d # <<>> /\ next # n + 2
          <6> HIDE DEF next
          <6> QED
            BY <2>1, <3>1, <3>2, <3>4
        <5> QED
          BY <1>1, <5>1
      <4> HIDE DEF E
      <4> QED
        BY <2>0, <3>4, <4>1, BlockStandsFor
    <3> HIDE DEF head, next, E, k
    <3>6. head \o d \in Bytes /\ Len(head \o d) = Len(head) + Len(d)
      BY <2>3, <3>4, ConcatProperties DEF Bytes
    <3>7. head \o d # <<>>
      <4>1. Len(d) \in Nat /\ k \in Nat
        BY <2>1, <3>4 DEF Bytes
      <4>2. Len(head \o d) # 0
        BY <2>3, <3>6, <4>1
      <4> QED
        BY <4>2
    <3>8. E[j] = (head \o d) \o <<1>>
      <4>1. <<1>> \in Bytes
        BY DEF Bytes
      <4> QED
        BY <2>2, <2>3, <3>4, <4>1, Associative
    <3> QED
      BY <1>1, <2>6, <3>5, <3>6, <3>7, <3>8 DEF FrontStands, E
  <2> QED
    BY <2>5, <2>6
<1>3. 1..n + 1 \subseteq S
  <2>1. ClosedBack(S, n + 1)
    <3> HIDE DEF A
    <3>1. ASSUME NEW j \in 1..n + 1, \A l \in j + 1..n + 1 : l \in S PROVE j \in S
      BY <1>2, <3>1
    <3> HIDE DEF S
    <3> QED
      BY <3>1 DEF ClosedBack
  <2> HIDE DEF S
  <2> QED
    BY <2>1, Descend
<1>4. i \in 1..n + 1
  BY <1>1 DEF Aligned
<1> QED
  BY <1>3, <1>4

LEMMA FrontDrops ==
    ASSUME NEW d \in Bytes, NEW x \in Nat
    PROVE  Front(d \o <<x>>) = d
<1>1. <<x>> \in Bytes /\ Len(<<x>>) = 1 /\ Len(d) \in Nat
  BY DEF Bytes
<1> DEFINE s == d \o <<x>>
<1>2. s \in Bytes /\ Len(s) = Len(d) + 1
  BY <1>1, ConcatProperties DEF Bytes
<1>3. \A j \in 1..Len(d) : s[j] = d[j]
  <2>1. \A j \in 1..Len(d) + 1 : s[j] = IF j <= Len(d) THEN d[j] ELSE <<x>>[j - Len(d)]
    BY <1>1, ConcatProperties DEF Bytes
  <2> HIDE DEF s
  <2>2. \A j \in 1..Len(d) : j \in 1..Len(d) + 1 /\ j <= Len(d)
    BY <1>1
  <2> QED
    BY <2>1, <2>2
<1> HIDE DEF s
<1>4. Front(s) = SubSeq(s, 1, Len(d))
  <2>1. Len(s) - 1 = Len(d)
    BY <1>1, <1>2
  <2> QED
    BY <2>1 DEF Front
<1>5. PICK l \in Nat : l = Len(d)
  BY <1>1
<1>6. 1 \in Nat /\ 1 >= 1 /\ l <= Len(s) /\ 1 <= l + 1 /\ l - 1 + 1 = l
  BY <1>2, <1>5
<1>7. /\ SubSeq(s, 1, l) \in Bytes /\ Len(SubSeq(s, 1, l)) = l
      /\ \A j \in 1..l : SubSeq(s, 1, l)[j] = s[1 + j - 1]
  BY <1>2, <1>6, CutBytes
<1>8. \A j \in 1..l : 1 + j - 1 = j
  OBVIOUS
<1>9. SubSeq(s, 1, l) = d
  BY <1>3, <1>5, <1>7, <1>8, SeqEqual DEF Bytes
<1> QED
  BY <1>4, <1>5, <1>9 DEF s

\* What the properties of COBS speak of.
LEMMA FormsAre ==
    ASSUME NEW full \in Nat, full > 1, NEW data \in Bytes
    PROVE  LET enc == Blocks(full, data)[1]
           IN  /\ cobs_encode(full, data, Len(data) + 1 + Len(data) \div (full - 1)) = Some(enc)
               /\ Forms(full, data) = {enc} \cup (IF EndsFull(full, data) THEN {Front(enc)} ELSE {})
               /\ enc \in Bytes /\ ZeroFree(enc) /\ Len(enc) > Len(data)
<1> DEFINE enc == Blocks(full, data)[1]
           n == Len(data)
<1>1. n \in Nat /\ 1 \in 1..n + 1 /\ 1 \in 1..n + 2 /\ n + 1 - 1 = n
  BY DEF Bytes
<1>2. n \div (full - 1) \in Nat
  BY <1>1, Quotients
<1>3. Len(enc) >= n + 1 /\ Len(enc) <= n + 1 + n \div (full - 1)
  <2>1. Len(enc) >= (n + 1 - 1) + 1 /\ Len(enc) <= (n + 1 - 1) + 1 + (n + 1 - 1) \div (full - 1)
    BY <1>1, BlocksLength
  <2> HIDE DEF enc, n
  <2> QED
    BY <1>1, <2>1
<1>4. enc \in Bytes /\ ZeroFree(enc)
  BY <1>1, BlocksZeroFree
<1>5. cobs_encode(full, data, n + 1 + n \div (full - 1)) = Some(enc)
  <2>1. n + 1 + n \div (full - 1) \in Nat
    BY <1>1, <1>2
  <2> QED
    BY <1>3, <2>1, EncodeIs
<1>6. Len(enc) > n
  <2>1. Len(enc) \in Nat
    BY <1>4 DEF Bytes
  <2> HIDE DEF enc, n
  <2> QED
    BY <1>1, <1>3, <2>1
<1> HIDE DEF enc
<1>7. Forms(full, data) = {enc} \cup (IF EndsFull(full, data) THEN {Front(enc)} ELSE {})
  <2>1. Some(enc)[1] = enc
    BY DEF Some
  <2> QED
    BY <1>5, <2>1 DEF Forms
<1> QED
  BY <1>4, <1>5, <1>6, <1>7 DEF enc

\* Whatever the source, cobs_encode makes of it no zero and at most a byte more and
\* one for each full run that fits, and cobs_decode gives it back from either form.
THEOREM CobsDecodesEncodings ==
    ASSUME NEW full \in Nat, full > 1, NEW data \in Bytes
    PROVE  EncodingDecodes(full, data)
<1> DEFINE enc == Blocks(full, data)[1]
           n == Len(data)
<1>1. n \in Nat /\ 1 \in 1..n + 1 /\ 1 \in 1..n + 2
  BY DEF Bytes
<1>2. /\ cobs_encode(full, data, n + 1 + n \div (full - 1)) = Some(enc)
      /\ Forms(full, data) = {enc} \cup (IF EndsFull(full, data) THEN {Front(enc)} ELSE {})
      /\ enc \in Bytes /\ ZeroFree(enc) /\ Len(enc) > n
  BY FormsAre
<1>3. 0 \notin Range(enc)
  <2> HIDE DEF enc
  <2>1. DOMAIN enc = 1..Len(enc)
    BY <1>2 DEF Bytes
  <2> QED
    BY <1>2, <2>1 DEF Range, ZeroFree
<1>4. cobs_decode(full, enc, Len(enc)) = Some(data)
  <2>1. StandsFor(full, enc, data, 1)
    BY <1>1, BlocksStandFor
  <2> HIDE DEF enc
  <2>2. Len(enc) \in Nat /\ Len(data) <= Len(enc)
    BY <1>1, <1>2 DEF Bytes
  <2> QED
    BY <1>2, <2>1, <2>2, StandingDecodes
<1>5. ASSUME EndsFull(full, data)
      PROVE  cobs_decode(full, Front(enc), Len(Front(enc))) = Some(data)
  <2>1. PICK r \in 1..n : LET z == n - r * (full - 1) IN
                          /\ z = 0 \/ (z > 0 /\ data[z] = 0)
                          /\ \A j \in z + 1..n : data[j] # 0
    BY <1>5 DEF EndsFull
  <2>2. PICK z : z = n - r * (full - 1)
    OBVIOUS
  <2>3. z \in 0..n
    <3>1. \A a, b \in Nat : a >= 1 /\ b >= 1 => a * b >= 1
      BY SMT
    <3>2. PICK p \in Int : p = r * (full - 1)
      <4>1. \A a, b \in Int : a * b \in Int
        OBVIOUS
      <4> QED
        BY <1>1, <4>1
    <3>3. p >= 1
      BY <1>1, <3>1, <3>2
    <3> QED
      BY <1>1, <2>1, <2>2, <3>2, <3>3
  <2>4. FullTail(full, data, z, r)
    BY <2>1, <2>2, <2>3 DEF FullTail
  <2>5. 1 \in Aligned(full, data, z, r)
    <3>1. CASE z = 0
      <4>1. r \in 0..r
        BY <1>1
      <4>2. PICK p \in Int : p = r * (full - 1)
        <5>1. \A a, b \in Int : a * b \in Int
          OBVIOUS
        <5> QED
          BY <1>1, <5>1
      <4>3. 1 = n + 1 - r * (full - 1)
        BY <1>1, <2>2, <3>1, <4>2
      <4> QED
        BY <1>1, <4>1, <4>3 DEF Aligned
    <3>2. CASE z # 0
      BY <1>1, <2>3, <3>2 DEF Aligned
    <3> QED
      BY <3>1, <3>2
  <2>6. FrontStands(full, data, 1)
    BY <2>1, <2>2, <2>4, <2>5, FrontsStand
  <2>7. PICK d \in Bytes : enc = d \o <<1>> /\ StandsFor(full, d, data, 1)
    BY <2>6 DEF FrontStands
  <2> HIDE DEF enc
  <2>8. Front(enc) = d
    BY <2>7, FrontDrops
  <2>9. Len(d) \in Nat /\ n <= Len(d)
    <3>1. <<1>> \in Bytes /\ Len(<<1>>) = 1
      BY DEF Bytes
    <3>2. Len(d) \in Nat /\ Len(enc) = Len(d) + 1
      BY <2>7, <3>1, ConcatProperties DEF Bytes
    <3> QED
      BY <1>1, <1>2, <3>2
  <2> QED
    BY <2>7, <2>8, <2>9, StandingDecodes
<1>6. \A chunk \in Forms(full, data) : cobs_decode(full, chunk, Len(chunk)) = Some(data)
  <2> HIDE DEF enc
  <2> QED
    BY <1>2, <1>4, <1>5
<1>7. Some(enc) # None /\ Some(enc)[1] = enc
  <2> HIDE DEF enc
  <2> QED
    BY DEF Some, None
<1> HIDE DEF enc
<1> QED
  BY <1>2, <1>3, <1>6, <1>7 DEF EncodingDecodes

\* There is one run at a position.
LEMMA RunIsRun ==
    ASSUME NEW full \in Nat, full > 1, NEW src \in Bytes, NEW i \in 1..Len(src) + 1,
           NEW k \in 0..full - 1, i + k <= Len(src) + 1,
           \A j \in i..i + k - 1 : src[j] # 0,
           k = full - 1 \/ i + k > Len(src) \/ src[i + k] = 0
    PROVE  RunFrom(full, src, i) = k
<1>1. PICK n \in Nat : n = Len(src)
  BY DEF Bytes
<1>2. PICK m : m = RunFrom(full, src, i)
  OBVIOUS
<1>3. /\ m \in 0..full - 1 /\ i + m <= n + 1
      /\ \A j \in i..i + m - 1 : src[j] # 0
      /\ m = full - 1 \/ i + m > n \/ src[i + m] = 0
  BY <1>1, <1>2, RunFromRuns, ZenonT(30)
<1>4. ~(m < k)
  <2> SUFFICES ASSUME m < k PROVE FALSE
    OBVIOUS
  <2>1. i + m \in i..i + k - 1 /\ i + m <= n /\ m # full - 1
    BY <1>1, <1>3
  <2> QED
    BY <1>1, <1>3, <2>1
<1>5. ~(k < m)
  <2> SUFFICES ASSUME k < m PROVE FALSE
    OBVIOUS
  <2>1. i + k \in i..i + m - 1 /\ i + k <= n /\ k # full - 1
    BY <1>1, <1>3
  <2> QED
    BY <1>1, <1>3, <2>1
<1> QED
  BY <1>2, <1>3, <1>4, <1>5

\* What blocks stand for is bytes.
LEMMA ContentsAreBytes ==
    ASSUME NEW full, NEW src \in Bytes, NEW i \in 1..Len(src) + 1, Contents(full, src)[i] # None
    PROVE  \E d \in Bytes : Contents(full, src)[i] = Some(d)
<1>1. PICK n \in Nat : n = Len(src)
  BY DEF Bytes
<1> DEFINE C == Contents(full, src)
           S == {j \in 1..n + 1 : C[j] # None => \E d \in Bytes : C[j] = Some(d)}
<1>2. ASSUME NEW j \in 1..n + 1, \A l \in j + 1..n + 1 : l \in S, C[j] # None
      PROVE  \E d \in Bytes : C[j] = Some(d)
  <2>1. C[j] = ContentAt(full, src, C, j)
    BY <1>1, ContentsDefined
  <2> HIDE DEF C
  <2>2. CASE j > n
    <3>1. C[j] = Some(<<>>)
      BY <1>1, <2>1, <2>2 DEF ContentAt
    <3>2. <<>> \in Bytes
      BY DEF Bytes
    <3> QED
      BY <3>1, <3>2
  <2>3. CASE ~(j > n)
    <3> DEFINE next == j + src[j]
               zero == IF ZeroAfter(full, src[j], next <= Len(src)) THEN <<0>> ELSE <<>>
    <3>1. ~Malformed(src, j) /\ C[next] # None /\ C[j] = Some(Run(src, j) \o zero \o C[next][1])
      BY <1>1, <1>2, <2>1, <2>3 DEF ContentAt
    <3>2. j \in 1..n /\ src[j] \in Nat /\ src[j] # 0 /\ j + src[j] - 1 <= n
      <4>1. j \in 1..n
        BY <2>3
      <4>2. src[j] \in Nat
        BY <1>1, <4>1 DEF Bytes
      <4> QED
        BY <1>1, <3>1, <4>1, <4>2 DEF Malformed
    <3>3. next \in j + 1..n + 1
      BY <3>2
    <3>4. PICK d \in Bytes : C[next] = Some(d)
      <4> HIDE DEF next
      <4> QED
        BY <1>2, <3>1, <3>3 DEF S
    <3>5. C[next][1] = d
      BY <3>4 DEF Some
    <3>6. Run(src, j) \in Bytes
      <4>0. PICK c \in Nat : c = src[j] /\ c > 0 /\ j + c - 1 <= n
        BY <3>2
      <4>1. PICK a \in Nat, b \in Nat : a = j + 1 /\ b = j + c - 1
        BY <4>0
      <4>2. a >= 1 /\ b <= n /\ a <= b + 1
        BY <4>0, <4>1, SMTT(30)
      <4>3. SubSeq(src, a, b) \in Bytes
        BY <1>1, <4>2, CutBytes
      <4> QED
        BY <4>0, <4>1, <4>3 DEF Run
    <3>7. zero \in Bytes
      BY DEF Bytes
    <3> HIDE DEF zero, next
    <3>8. Run(src, j) \o zero \o d \in Bytes
      BY <3>6, <3>7 DEF Bytes
    <3> QED
      BY <3>1, <3>5, <3>8
  <2> QED
    BY <2>2, <2>3
<1>3. 1..n + 1 \subseteq S
  <2>1. ClosedBack(S, n + 1)
    <3>1. ASSUME NEW j \in 1..n + 1, \A l \in j + 1..n + 1 : l \in S PROVE j \in S
      BY <1>2, <3>1
    <3> HIDE DEF S
    <3> QED
      BY <3>1 DEF ClosedBack
  <2> HIDE DEF S
  <2> QED
    BY <2>1, Descend
<1> QED
  BY <1>1, <1>3

\* The bytes of s from i on come apart: x at i, and y behind it.
Parts(s, i, x, y) ==
    /\ i + Len(x) <= Len(s) + 1 /\ i + Len(x) + Len(y) = Len(s) + 1
    /\ \A j \in 1..Len(x) : s[i + j - 1] = x[j]
    /\ SubSeq(s, i, i + Len(x) - 1) = x
    /\ SubSeq(s, i + Len(x), Len(s)) = y

LEMMA SplitCut ==
    ASSUME NEW s \in Bytes, NEW i \in 1..Len(s) + 1, NEW x \in Bytes, NEW y \in Bytes,
           SubSeq(s, i, Len(s)) = x \o y
    PROVE  Parts(s, i, x, y)
<1>1. PICK n \in Nat, a \in Nat, b \in Nat : n = Len(s) /\ a = Len(x) /\ b = Len(y)
  BY DEF Bytes
<1>2. i \in Nat /\ i >= 1 /\ i <= n + 1
  BY <1>1
<1> DEFINE t == SubSeq(s, i, n)
<1>3. t \in Bytes /\ Len(t) = n - i + 1 /\ \A j \in 1..n - i + 1 : t[j] = s[i + j - 1]
  BY <1>1, <1>2, CutBytes
<1>t. t = x \o y
  BY <1>1
<1> HIDE DEF t
<1>4. Len(t) = a + b /\ \A j \in 1..a + b : t[j] = IF j <= a THEN x[j] ELSE y[j - a]
  BY <1>1, <1>t, ConcatProperties DEF Bytes
<1>5. n - i + 1 = a + b
  BY <1>3, <1>4
<1>6. i + a <= n + 1 /\ i + a + b = n + 1
  BY <1>1, <1>2, <1>5
<1>7. \A j \in 1..a : s[i + j - 1] = x[j]
  <2> TAKE j \in 1..a
  <2>1. j \in 1..a + b /\ j <= a
    BY <1>1
  <2> QED
    BY <1>3, <1>4, <1>5, <2>1
<1>8. SubSeq(s, i, i + a - 1) = x
  <2>0. \A p, q \in Nat : p >= 1 => p + q - 1 \in Nat
    OBVIOUS
  <2>1. PICK l \in Nat : l = i + a - 1
    BY <1>2, <2>0
  <2>2. l <= Len(s) /\ i <= l + 1 /\ l - i + 1 = a
    BY <1>1, <1>2, <1>6, <2>1
  <2>3. /\ SubSeq(s, i, l) \in Bytes /\ Len(SubSeq(s, i, l)) = a
        /\ \A j \in 1..a : SubSeq(s, i, l)[j] = s[i + j - 1]
    BY <1>2, <2>2, CutBytes
  <2>4. SubSeq(s, i, l) = x
    BY <1>1, <1>7, <2>3, SeqEqual DEF Bytes
  <2> QED
    BY <2>1, <2>4
<1>9. SubSeq(s, i + a, n) = y
  <2>1. PICK l \in Nat : l = i + a
    BY <1>1, <1>2
  <2>2. l >= 1 /\ n <= Len(s) /\ l <= n + 1 /\ n - l + 1 = b
    BY <1>1, <1>2, <1>6, <2>1
  <2>3. /\ SubSeq(s, l, n) \in Bytes /\ Len(SubSeq(s, l, n)) = b
        /\ \A j \in 1..b : SubSeq(s, l, n)[j] = s[l + j - 1]
    BY <1>1, <2>2, CutBytes
  <2>4. \A j \in 1..b : s[l + j - 1] = y[j]
    <3> TAKE j \in 1..b
    <3>1. a + j \in 1..a + b /\ ~(a + j <= a) /\ a + j - a = j
      BY <1>1
    <3>2. t[a + j] = y[j]
      BY <1>4, <3>1
    <3>3. t[a + j] = s[i + (a + j) - 1]
      BY <1>3, <1>5, <3>1
    <3>4. i + (a + j) - 1 = l + j - 1
      BY <1>1, <1>2, <2>1
    <3> QED
      BY <3>2, <3>3, <3>4
  <2>5. SubSeq(s, l, n) = y
    BY <1>1, <2>3, <2>4, SeqEqual DEF Bytes
  <2> QED
    BY <2>1, <2>5
<1> QED
  BY <1>1, <1>6, <1>7, <1>8, <1>9 DEF Parts

\* The block of src at j has the run, and next is behind it; d is what follows stands for.
BlockIs(full, src, j, k, run, next, d) ==
    LET zero == IF k + 1 < full /\ next <= Len(src) THEN <<0>> ELSE <<>>
    IN  /\ Len(run) = k /\ ZeroFree(run) /\ next = j + k + 1
        /\ SubSeq(src, j, Len(src)) = (<<k + 1>> \o run) \o SubSeq(src, next, Len(src))
        /\ Contents(full, src)[next] = Some(d)
        /\ Contents(full, src)[j] = Some(run \o zero \o d)

LEMMA BlockParsed ==
    ASSUME NEW full \in Nat, full > 1, NEW src \in Seq(0..full), NEW j \in 1..Len(src),
           Contents(full, src)[j] # None
    PROVE  \E k \in 0..full - 1, run \in Bytes, next \in j + 1..Len(src) + 1, d \in Bytes :
               BlockIs(full, src, j, k, run, next, d)
<1> DEFINE C == Contents(full, src)
<1>1. PICK n \in Nat : n = Len(src)
  OBVIOUS
<1>2. src \in Bytes
  BY DEF Bytes
<1>3. C[j] = ContentAt(full, src, C, j)
  BY <1>1, <1>2, ContentsDefined
<1>4. PICK k \in Int : k + 1 = src[j] /\ k + 1 \in 0..full
  <2>1. PICK c \in 0..full : c = src[j]
    OBVIOUS
  <2>2. c - 1 \in Int /\ c - 1 + 1 = c
    OBVIOUS
  <2> QED
    BY <2>1, <2>2
<1> DEFINE next == j + k + 1
           run == Run(src, j)
           zero == IF k + 1 < full /\ next <= n THEN <<0>> ELSE <<>>
<1>5. /\ ~Malformed(src, j) /\ C[next] # None
      /\ C[j] = Some(run \o zero \o C[next][1])
  <2>0. \A a, c \in Int : a + (c + 1) = a + c + 1
    OBVIOUS
  <2>1. j + src[j] = next /\ ~(j > n)
    <3>1. j \in Int /\ ~(j > n)
      BY <1>1
    <3> QED
      BY <1>4, <2>0, <3>1
  <2>3. C[j] # None
    OBVIOUS
  <2>2. (IF ZeroAfter(full, src[j], next <= n) THEN <<0>> ELSE <<>>) = zero
    BY <1>4 DEF ZeroAfter
  <2> HIDE DEF C, next, zero
  <2> QED
    BY <1>1, <1>3, <2>1, <2>2, <2>3 DEF ContentAt
<1>6. k \in 0..full - 1 /\ j + k <= n
  BY <1>1, <1>4, <1>5 DEF Malformed
<1>7. next \in j + 1..n + 1 /\ next \in 1..n + 1
  BY <1>1, <1>6
<1>8. run = SubSeq(src, j + 1, j + k)
  <2>1. j + src[j] - 1 = j + k
    BY <1>4
  <2> QED
    BY <2>1 DEF Run
<1>9. PICK a \in Nat, b \in Nat : a = j + 1 /\ b = j + k
  BY <1>6
<1>10. /\ run \in Bytes /\ Len(run) = k
  <2>1. a >= 1 /\ b <= Len(src) /\ a <= b + 1 /\ b - a + 1 = k
    BY <1>1, <1>6, <1>9
  <2>2. SubSeq(src, a, b) \in Bytes /\ Len(SubSeq(src, a, b)) = k
    BY <1>2, <2>1, CutBytes
  <2> QED
    BY <1>8, <1>9, <2>2
<1>11. ZeroFree(run)
  <2>1. 0 \notin Range(run)
    BY <1>5 DEF Malformed
  <2>2. DOMAIN run = 1..Len(run)
    BY <1>10 DEF Bytes
  <2> HIDE DEF run
  <2> QED
    BY <2>1, <2>2 DEF Range, ZeroFree
<1>12. SubSeq(src, j, n) = (<<k + 1>> \o run) \o SubSeq(src, next, n)
  <2>1. SubSeq(src, j, j) = <<k + 1>>
    <3>1. j \in Nat /\ j >= 1 /\ j <= Len(src) /\ j <= j + 1 /\ j - j + 1 = 1 /\ j + 1 - 1 = j
      BY <1>1
    <3>2. /\ SubSeq(src, j, j) \in Bytes /\ Len(SubSeq(src, j, j)) = 1
          /\ \A l \in 1..1 : SubSeq(src, j, j)[l] = src[j + l - 1]
      BY <1>2, <3>1, CutBytes
    <3>3. <<k + 1>> \in Bytes /\ Len(<<k + 1>>) = 1 /\ <<k + 1>>[1] = k + 1
      BY <1>4 DEF Bytes
    <3>4. \A l \in 1..1 : SubSeq(src, j, j)[l] = <<k + 1>>[l]
      <4>1. SubSeq(src, j, j)[1] = k + 1
        BY <1>4, <3>1, <3>2
      <4> QED
        BY <3>3, <4>1
    <3> QED
      BY <3>2, <3>3, <3>4, SeqEqual DEF Bytes
  <2>2. SubSeq(src, j, j) \o SubSeq(src, j + 1, b) = SubSeq(src, j, b)
    <3>1. j \in 1..Len(src) + 1 /\ j \in j - 1..Len(src) /\ b \in j..Len(src)
      BY <1>1, <1>6, <1>9
    <3> QED
      BY <1>2, <3>1, ConcatAdjacentSubSeq DEF Bytes
  <2>3. SubSeq(src, j, b) \o SubSeq(src, b + 1, n) = SubSeq(src, j, n)
    <3>1. j \in 1..Len(src) + 1 /\ j <= b + 1 /\ b <= Len(src)
      BY <1>1, <1>6, <1>9
    <3> QED
      BY <1>1, <1>2, <3>1, CutJoins
  <2>4. b + 1 = next
    BY <1>9
  <2> HIDE DEF run, next
  <2> QED
    BY <1>8, <1>9, <2>1, <2>2, <2>3, <2>4
<1>13. PICK d \in Bytes : C[next] = Some(d)
  <2> HIDE DEF next
  <2> QED
    BY <1>1, <1>2, <1>5, <1>7, ContentsAreBytes
<1>14. C[next][1] = d
  BY <1>13 DEF Some
<1>15. BlockIs(full, src, j, k, run, next, d)
  <2>1. next = j + k + 1
    OBVIOUS
  <2> HIDE DEF run, next
  <2> QED
    BY <1>1, <1>5, <1>10, <1>11, <1>12, <1>13, <1>14, <2>1 DEF BlockIs
<1> HIDE DEF run, next
<1> QED
  BY <1>1, <1>6, <1>7, <1>10, <1>15

\* From i on the source ends in full runs.
EndsFullFrom(full, src, i) ==
    \E r \in 1..Len(src), z \in i - 1..Len(src) :
        /\ z = Len(src) - r * (full - 1)
        /\ z = i - 1 \/ src[z] = 0
        /\ \A j \in z + 1..Len(src) : src[j] # 0

\* b is what the source from i on is encoded to, or that without its last block.
FormFrom(full, src, i, b) ==
    \/ b = Blocks(full, src)[i]
    \/ b \o <<1>> = Blocks(full, src)[i] /\ EndsFullFrom(full, src, i)

\* A block before a form.
LEMMA FormGrows ==
    ASSUME NEW full \in Nat, full > 1, NEW src \in Bytes, NEW i \in 1..Len(src) + 1,
           NEW b \in Bytes,
           LET k == RunFrom(full, src, i)
               next == i + k + Skipped(full, k)
           IN  next <= Len(src) + 1 /\ FormFrom(full, src, next, b)
    PROVE  LET k == RunFrom(full, src, i)
           IN  FormFrom(full, src, i, (<<k + 1>> \o SubSeq(src, i, i + k - 1)) \o b)
<1>1. PICK n \in Nat : n = Len(src)
  BY DEF Bytes
<1>2. PICK M \in Nat : M = full - 1 /\ M > 0
  OBVIOUS
<1>3. PICK k : k = RunFrom(full, src, i)
  OBVIOUS
<1> DEFINE next == i + k + Skipped(full, k)
           head == <<k + 1>> \o SubSeq(src, i, i + k - 1)
           E == Blocks(full, src)
<1>4. /\ k \in 0..full - 1 /\ i + k <= n + 1
      /\ \A j \in i..i + k - 1 : src[j] # 0
      /\ k = full - 1 \/ i + k > n \/ src[i + k] = 0
  <2>1. /\ k \in 0..full - 1 /\ i + k <= Len(src) + 1
        /\ \A j \in i..i + k - 1 : j <= Len(src) /\ src[j] # 0
        /\ k = full - 1 \/ i + k > Len(src) \/ src[i + k] = 0
    BY <1>3, RunFromRuns
  <2> QED
    BY <1>1, <2>1
<1>5. E[i] = head \o E[next]
  BY <1>3, BlocksFrom
<1>6. head \in Bytes
  BY <1>3, BlockBytes
<1>7. next <= n + 1 /\ FormFrom(full, src, next, b)
  BY <1>1, <1>3
<1>8. CASE b = E[next]
  <2> HIDE DEF head, E, next
  <2>1. head \o b = E[i]
    BY <1>5, <1>8
  <2> QED
    BY <1>3, <2>1 DEF FormFrom, E, head
<1>9. CASE b \o <<1>> = E[next] /\ EndsFullFrom(full, src, next)
  <2>1. (head \o b) \o <<1>> = E[i]
    <3>1. <<1>> \in Bytes
      BY DEF Bytes
    <3> HIDE DEF head, E, next
    <3>2. head \o (b \o <<1>>) = (head \o b) \o <<1>>
      BY <1>6, <3>1, Associative
    <3>3. b \o <<1>> = E[next]
      BY <1>9
    <3> QED
      BY <1>5, <3>2, <3>3
  <2>2. PICK r \in 1..n, z \in next - 1..n :
            /\ z = n - r * M
            /\ z = next - 1 \/ src[z] = 0
            /\ \A j \in z + 1..n : src[j] # 0
    BY <1>1, <1>2, <1>9 DEF EndsFullFrom
  <2>3. EndsFullFrom(full, src, i)
    <3>1. CASE k # M
      <4>1. next = i + k + 1
        BY <1>2, <3>1 DEF Skipped
      <4>2. src[i + k] = 0 /\ i + k <= n
        BY <1>2, <1>4, <1>7, <3>1, <4>1
      <4>3. z \in i - 1..n
        BY <1>4, <2>2, <4>1
      <4>4. src[z] = 0
        <5>1. next - 1 = i + k
          BY <1>4, <4>1
        <5> HIDE DEF next
        <5> QED
          BY <2>2, <4>2, <5>1
      <4> QED
        BY <1>1, <1>2, <2>2, <4>3, <4>4 DEF EndsFullFrom
    <3>2. CASE k = M
      <4>1. next = i + M
        BY <1>2, <3>2 DEF Skipped
      <4>2. z \in i - 1..n
        BY <1>2, <2>2, <4>1
      <4>3. CASE src[z] = 0
        BY <1>1, <1>2, <2>2, <4>2, <4>3 DEF EndsFullFrom
      <4>4. CASE z = next - 1
        <5>1. PICK w : w = z - M
          OBVIOUS
        <5>2. w = i - 1 /\ w \in i - 1..n
          BY <1>2, <4>1, <4>2, <4>4, <5>1
        <5>3. w = n - (r + 1) * M
          <6>1. \A a, c \in Int : a * c \in Int /\ (a + 1) * c = a * c + c
            BY SMT
          <6>2. PICK p \in Int : p = r * M /\ (r + 1) * M = p + M
            BY <1>1, <1>2, <6>1
          <6> QED
            BY <1>1, <1>2, <2>2, <5>1, <6>2
        <5>4. r + 1 \in 1..n
          <6>1. \A a, c \in Nat : c >= 1 => a * c >= a /\ a * c \in Int
            BY SMT
          <6>2. PICK p \in Int : p = (r + 1) * M /\ p >= r + 1
            BY <1>1, <1>2, <6>1
          <6>3. w >= 0
            BY <5>2
          <6> QED
            BY <1>1, <5>2, <5>3, <6>2, <6>3
        <5>5. \A j \in w + 1..n : src[j] # 0
          <6> TAKE j \in w + 1..n
          <6>1. j \in i..i + k - 1 \/ j \in z + 1..n
            BY <1>2, <2>2, <3>2, <4>1, <4>4, <5>2
          <6> QED
            BY <1>4, <2>2, <6>1
        <5> QED
          BY <1>1, <1>2, <5>2, <5>3, <5>4, <5>5 DEF EndsFullFrom
      <4> QED
        BY <2>2, <4>3, <4>4
    <3> QED
      BY <3>1, <3>2
  <2> HIDE DEF head, E, next
  <2> QED
    BY <1>3, <2>1, <2>3 DEF FormFrom, E, head
<1> HIDE DEF head
<1> QED
  BY <1>7, <1>8, <1>9 DEF FormFrom, head

LEMMA SomeIsOne == \A x, y : Some(x) = Some(y) => x = y
BY DEF Some

\* The block of a position, by its run.
BlockRuns(full, src, i, k, next) ==
    Blocks(full, src)[i] = <<k + 1>> \o SubSeq(src, i, i + k - 1) \o Blocks(full, src)[next]

LEMMA BlockHasRun ==
    ASSUME NEW full \in Nat, full > 1, NEW src \in Bytes, NEW i \in 1..Len(src) + 1,
           NEW k, RunFrom(full, src, i) = k, NEW next, i + k + Skipped(full, k) = next
    PROVE  BlockRuns(full, src, i, k, next)
BY BlocksFrom DEF BlockRuns

\* Blocks that stand for the source from i on are a form of it.
FormAt(full, chunk, src, j) ==
    \A i \in 1..Len(src) + 1 :
        Contents(full, chunk)[j] = Some(SubSeq(src, i, Len(src)))
            => FormFrom(full, src, i, SubSeq(chunk, j, Len(chunk)))

LEMMA FormsOnly ==
    ASSUME NEW full \in Nat, full > 1, NEW chunk \in Seq(0..full), NEW src \in Bytes,
           NEW j \in 1..Len(chunk)
    PROVE  FormAt(full, chunk, src, j)
<1>1. PICK n \in Nat : n = Len(src)
  BY DEF Bytes
<1>2. PICK m \in Nat : m = Len(chunk)
  OBVIOUS
<1>3. chunk \in Bytes
  BY DEF Bytes
<1> DEFINE C == Contents(full, chunk)
           E == Blocks(full, src)
           rest(l) == SubSeq(chunk, l, m)
           S == {l \in 1..m : FormAt(full, chunk, src, l)}
<1>4. ASSUME NEW p \in 1..m, \A l \in p + 1..m : l \in S,
             NEW i \in 1..n + 1, C[p] = Some(SubSeq(src, i, n))
      PROVE  FormFrom(full, src, i, rest(p))
  <2>1. C[p] # None
    BY <1>4 DEF Some, None
  <2>2. PICK k \in 0..full - 1, run \in Bytes, next \in p + 1..m + 1, d \in Bytes :
            BlockIs(full, chunk, p, k, run, next, d)
    <3>1. p \in 1..Len(chunk)
      BY <1>2
    <3> QED
      BY <1>2, <2>1, <3>1, BlockParsed
  <2> DEFINE zero == IF k + 1 < full /\ next <= m THEN <<0>> ELSE <<>>
  <2>3. /\ Len(run) = k /\ ZeroFree(run) /\ next = p + k + 1
        /\ rest(p) = (<<k + 1>> \o run) \o rest(next)
        /\ C[next] = Some(d)
        /\ C[p] = Some(run \o zero \o d)
    BY <1>2, <2>2 DEF BlockIs
  <2>4. SubSeq(src, i, n) = run \o zero \o d
    <3> HIDE DEF C, zero
    <3>1. Some(SubSeq(src, i, n)) = Some(run \o zero \o d)
      BY <1>4, <2>3
    <3> QED
      BY <3>1, SomeIsOne
  <2>5. zero \in Bytes /\ zero \o d \in Bytes /\ run \o zero \o d = run \o (zero \o d)
    <3>1. zero \in Bytes
      BY DEF Bytes
    <3> HIDE DEF zero
    <3>2. zero \o d \in Bytes
      BY <3>1 DEF Bytes
    <3>3. run \o (zero \o d) = run \o zero \o d
      BY <3>1, Associative
    <3> QED
      BY <3>1, <3>2, <3>3
  <2>6. /\ i + k <= n + 1 /\ i + k + Len(zero \o d) = n + 1
        /\ \A l \in 1..k : src[i + l - 1] = run[l]
        /\ SubSeq(src, i, i + k - 1) = run
        /\ SubSeq(src, i + k, n) = zero \o d
    <3> HIDE DEF zero
    <3>0. PICK w \in Bytes : w = zero \o d
      BY <2>5
    <3>1. i \in 1..Len(src) + 1 /\ SubSeq(src, i, Len(src)) = run \o w
      BY <1>1, <2>4, <2>5, <3>0
    <3>2. /\ i + Len(run) <= Len(src) + 1 /\ i + Len(run) + Len(w) = Len(src) + 1
          /\ \A l \in 1..Len(run) : src[i + l - 1] = run[l]
          /\ SubSeq(src, i, i + Len(run) - 1) = run
          /\ SubSeq(src, i + Len(run), Len(src)) = w
      <4>1. Parts(src, i, run, w)
        BY <3>1, SplitCut
      <4> QED
        BY <4>1 DEF Parts
    <3> QED
      BY <1>1, <2>3, <3>0, <3>2
  <2>7. \A l \in i..i + k - 1 : src[l] # 0
    <3> TAKE l \in i..i + k - 1
    <3>1. l - i + 1 \in 1..k /\ i + (l - i + 1) - 1 = l
      OBVIOUS
    <3> QED
      BY <2>3, <2>6, <3>1 DEF ZeroFree
  <2>8. i \in 1..Len(src) + 1 /\ k \in 0..full - 1
    BY <1>1
  <2>9. next = m + 1 => rest(next) = <<>> /\ d = <<>>
    <3>1. ASSUME next = m + 1 PROVE rest(next) = <<>>
      BY <1>2, <3>1, SubSeqEmpty
    <3>2. ASSUME next = m + 1 PROVE d = <<>>
      <4>1. C[m + 1] = Some(<<>>)
        <5>1. m + 1 \in 1..Len(chunk) + 1 /\ m + 1 > Len(chunk)
          BY <1>2
        <5> QED
          BY <1>3, <5>1, ContentsDefined DEF ContentAt
      <4> HIDE DEF C
      <4>2. Some(d) = Some(<<>>)
        BY <2>3, <3>2, <4>1
      <4> QED
        BY <4>2, SomeIsOne
    <3> QED
      BY <3>1, <3>2
  <2>10. ASSUME NEW l \in 1..n + 1, next <= m, d = SubSeq(src, l, n)
         PROVE  FormFrom(full, src, l, rest(next)) /\ rest(next) \in Bytes
    <3>1. next \in S
      <4>1. next \in p + 1..m
        BY <2>10
      <4> QED
        BY <1>4, <4>1
    <3>2. FormFrom(full, src, l, rest(next))
      <4>1. FormAt(full, chunk, src, next)
        BY <3>1
      <4>2. l \in 1..Len(src) + 1 /\ Contents(full, chunk)[next] = Some(SubSeq(src, l, Len(src)))
        BY <1>1, <2>3, <2>10
      <4> QED
        BY <1>2, <4>1, <4>2 DEF FormAt
    <3>3. rest(next) \in Bytes
      <4>1. next \in Nat /\ next >= 1 /\ m <= Len(chunk) /\ next <= m + 1
        BY <1>2, <2>10
      <4> QED
        BY <1>3, <4>1, CutBytes
    <3> QED
      BY <3>2, <3>3
  <2> HIDE DEF C, rest
  <2>11. CASE k # full - 1 /\ next <= m
    <3>1. zero = <<0>>
      BY <2>11
    <3>2. PICK y \in Nat : y = i + k
      OBVIOUS
    <3> HIDE DEF zero
    <3>3. /\ y + 1 <= n + 1 /\ src[y] = 0 /\ SubSeq(src, y + 1, n) = d
      <4>1. PICK o \in Bytes : o = <<0>> /\ Len(o) = 1 /\ o[1] = 0
        <5>1. <<0>> \in Bytes /\ Len(<<0>>) = 1 /\ <<0>>[1] = 0
          BY DEF Bytes
        <5> QED
          BY <5>1
      <4>2. y \in 1..Len(src) + 1 /\ SubSeq(src, y, Len(src)) = o \o d
        BY <1>1, <2>6, <3>1, <3>2, <4>1, SMTT(30)
      <4>3. /\ y + Len(o) <= Len(src) + 1
            /\ \A l \in 1..Len(o) : src[y + l - 1] = o[l]
            /\ SubSeq(src, y + Len(o), Len(src)) = d
        <5>1. Parts(src, y, o, d)
          BY <4>2, SplitCut
        <5> QED
          BY <5>1 DEF Parts
      <4>4. src[y + 1 - 1] = 0 /\ y + 1 - 1 = y
        BY <3>2, <4>1, <4>3
      <4> QED
        BY <1>1, <4>1, <4>3, <4>4
    <3>4. RunFrom(full, src, i) = k
      BY <1>1, <2>6, <2>7, <2>8, <3>2, <3>3, RunIsRun
    <3>5. i + k + Skipped(full, k) = y + 1 /\ y + 1 \in 1..n + 1
      BY <2>11, <3>2, <3>3 DEF Skipped
    <3>6. FormFrom(full, src, y + 1, rest(next)) /\ rest(next) \in Bytes
      BY <2>10, <2>11, <3>3, <3>5
    <3>7. FormFrom(full, src, i, (<<k + 1>> \o SubSeq(src, i, i + k - 1)) \o rest(next))
      BY <1>1, <2>8, <3>3, <3>4, <3>5, <3>6, FormGrows
    <3> QED
      BY <2>3, <2>6, <3>7
  <2>12. CASE k # full - 1 /\ ~(next <= m)
    <3>1. next = m + 1 /\ zero = <<>>
      BY <2>12
    <3> HIDE DEF zero
    <3>2. rest(next) = <<>> /\ d = <<>> /\ Len(zero \o d) = 0
      BY <2>9, <3>1
    <3>3. i + k = n + 1
      BY <2>6, <3>2
    <3>4. RunFrom(full, src, i) = k
      <4>1. i + k <= Len(src) + 1 /\ i + k > Len(src)
        BY <1>1, <3>3
      <4> QED
        BY <2>7, <2>8, <4>1, RunIsRun
    <3>5. i + k + Skipped(full, k) = n + 2
      BY <2>12, <3>3 DEF Skipped
    <3>6. E[i] = (<<k + 1>> \o run) \o <<>>
      <4>1. E[n + 2] = <<>>
        BY <1>1, BlocksFrom
      <4>2. E[i] = <<k + 1>> \o SubSeq(src, i, i + k - 1) \o E[n + 2]
        <5>1. BlockRuns(full, src, i, k, n + 2)
          BY <2>8, <3>4, <3>5, BlockHasRun
        <5> QED
          BY <5>1 DEF BlockRuns
      <4> HIDE DEF E
      <4> QED
        BY <2>6, <4>1, <4>2
    <3> QED
      BY <2>3, <3>2, <3>6 DEF FormFrom
  <2>13. CASE k = full - 1
    <3>1. zero = <<>> /\ zero \o d = d
      <4>1. zero = <<>>
        BY <2>13
      <4> HIDE DEF zero
      <4>2. <<>> \o d = d
        BY ConcatEmptySeq DEF Bytes
      <4> QED
        BY <4>1, <4>2
    <3> HIDE DEF zero
    <3>2. RunFrom(full, src, i) = k
      BY <1>1, <2>6, <2>7, <2>8, <2>13, RunIsRun
    <3>3. PICK y \in Nat : y = i + k /\ y \in 1..n + 1
      BY <2>6
    <3>4. i + k + Skipped(full, k) = y
      BY <2>13, <3>3 DEF Skipped
    <3>5. CASE next <= m
      <4>1. FormFrom(full, src, y, rest(next)) /\ rest(next) \in Bytes
        BY <2>6, <2>10, <3>1, <3>3, <3>5
      <4>2. FormFrom(full, src, i, (<<k + 1>> \o SubSeq(src, i, i + k - 1)) \o rest(next))
        <5>1. y <= Len(src) + 1
          BY <1>1, <3>3
        <5> QED
          BY <2>8, <3>2, <3>4, <4>1, <5>1, FormGrows
      <4> QED
        BY <2>3, <2>6, <4>2
    <3>6. CASE ~(next <= m)
      <4>1. next = m + 1
        BY <3>6
      <4>2. rest(next) = <<>> /\ d = <<>> /\ Len(zero \o d) = 0
        BY <2>9, <3>1, <4>1
      <4>3. i + k = n + 1
        BY <2>6, <4>2
      <4>4. E[i] = (<<k + 1>> \o run) \o E[n + 1]
        <5>1. i + k + Skipped(full, k) = n + 1
          BY <3>3, <3>4, <4>3
        <5>2. E[i] = <<k + 1>> \o SubSeq(src, i, i + k - 1) \o E[n + 1]
          <6>1. BlockRuns(full, src, i, k, n + 1)
            BY <2>8, <3>2, <5>1, BlockHasRun
          <6> QED
            BY <6>1 DEF BlockRuns
        <5> HIDE DEF E
        <5> QED
          BY <2>6, <5>2
      <4>5. E[n + 1] = <<1>>
        <5>1. n + 1 \in 1..Len(src) + 1
          BY <1>1
        <5>2. RunFrom(full, src, n + 1) = 0
          <6>1. /\ 0 \in 0..full - 1 /\ n + 1 + 0 <= Len(src) + 1 /\ n + 1 + 0 > Len(src)
                /\ \A l \in n + 1..n + 1 + 0 - 1 : src[l] # 0
            BY <1>1
          <6> QED
            BY <5>1, <6>1, RunIsRun
        <5>3. n + 1 + 0 + Skipped(full, 0) = n + 2
          BY DEF Skipped
        <5>4. E[n + 2] = <<>> /\ SubSeq(src, n + 1, n + 1 + 0 - 1) = <<>>
          BY <1>1, BlocksFrom, SubSeqEmpty
        <5>5. E[n + 1] = <<0 + 1>> \o <<>> \o <<>>
          <6>1. E[n + 1] = <<0 + 1>> \o SubSeq(src, n + 1, n + 1 + 0 - 1) \o E[n + 2]
            <7>1. BlockRuns(full, src, n + 1, 0, n + 2)
              BY <5>1, <5>2, <5>3, BlockHasRun
            <7> QED
              BY <7>1 DEF BlockRuns
          <6> HIDE DEF E
          <6> QED
            BY <5>4, <6>1
        <5>6. <<0 + 1>> \o <<>> \o <<>> = <<1>>
          OBVIOUS
        <5> HIDE DEF E
        <5> QED
          BY <5>5, <5>6
      <4>6. EndsFullFrom(full, src, i)
        <5>1. 1 \in 1..n /\ i - 1 \in i - 1..n /\ i - 1 = n - 1 * (full - 1)
          BY <2>13, <4>3
        <5>2. \A l \in i - 1 + 1..n : src[l] # 0
          BY <2>7, <4>3
        <5> QED
          BY <1>1, <5>1, <5>2 DEF EndsFullFrom
      <4>7. rest(p) \o <<1>> = E[i]
        <5>1. (<<k + 1>> \o run) \o <<>> = <<k + 1>> \o run
          <6>1. <<k + 1>> \o run \in Seq(Nat)
            BY DEF Bytes
          <6> QED
            BY <6>1, ConcatEmptySeq
        <5> HIDE DEF E
        <5> QED
          BY <2>3, <4>2, <4>4, <4>5, <5>1
      <4> QED
        BY <4>6, <4>7 DEF FormFrom
    <3> QED
      BY <3>5, <3>6
  <2> QED
    BY <2>11, <2>12, <2>13
<1>5. 1..m \subseteq S
  <2>1. ASSUME NEW p \in 1..m, \A l \in p + 1..m : l \in S PROVE p \in S
    <3>1. ASSUME NEW i \in 1..Len(src) + 1, C[p] = Some(SubSeq(src, i, Len(src)))
          PROVE  FormFrom(full, src, i, SubSeq(chunk, p, Len(chunk)))
      <4> HIDE DEF S, C
      <4> QED
        BY <1>1, <1>2, <1>4, <2>1, <3>1
    <3> QED
      BY <3>1 DEF FormAt
  <2>2. ClosedBack(S, m)
    <3> HIDE DEF S
    <3> QED
      BY <2>1 DEF ClosedBack
  <2> HIDE DEF S
  <2> QED
    BY <2>2, Descend
<1> QED
  BY <1>2, <1>5

\* Whatever bytes cobs_decode accepts, other than none, are one of the two forms of
\* what it makes of them.
THEOREM CobsDecodesOnlyEncodings ==
    ASSUME NEW full \in Nat, full > 1, NEW chunk \in Seq(0..full)
    PROVE  OnlyEncodingsDecode(full, chunk)
<1>1. chunk \in Bytes /\ Len(chunk) \in Nat
  BY DEF Bytes
<1> SUFFICES ASSUME cobs_decode(full, chunk, Len(chunk)) # None, chunk # <<>>
             PROVE  chunk \in Forms(full, cobs_decode(full, chunk, Len(chunk))[1])
  BY DEF OnlyEncodingsDecode
<1>2. 1 \in 1..Len(chunk) /\ 1 \in 1..Len(chunk) + 1
  <2>1. Len(chunk) # 0
    BY EmptySeq
  <2> QED
    BY <1>1, <2>1
<1>3. /\ Contents(full, chunk)[1] # None
      /\ cobs_decode(full, chunk, Len(chunk)) = Contents(full, chunk)[1]
  BY <1>1, DecodeIs
<1>4. PICK data \in Bytes : Contents(full, chunk)[1] = Some(data)
  BY <1>1, <1>2, <1>3, ContentsAreBytes
<1>5. SubSeq(data, 1, Len(data)) = data /\ SubSeq(chunk, 1, Len(chunk)) = chunk
  BY <1>1, SubSeqFull DEF Bytes
<1>6. Len(data) \in Nat /\ 1 \in 1..Len(data) + 1
  BY DEF Bytes
<1>7. FormFrom(full, data, 1, chunk)
  BY <1>2, <1>4, <1>5, <1>6, FormsOnly DEF FormAt
<1>8. cobs_decode(full, chunk, Len(chunk))[1] = data
  BY <1>3, <1>4 DEF Some
<1> DEFINE enc == Blocks(full, data)[1]
<1>9. Forms(full, data) = {enc} \cup (IF EndsFull(full, data) THEN {Front(enc)} ELSE {})
  BY FormsAre
<1>10. ASSUME chunk \o << 1 >> = enc, EndsFullFrom(full, data, 1)
       PROVE  chunk \in Forms(full, data)
  <2>1. EndsFull(full, data)
    <3>1. PICK r \in 1..Len(data), z \in 1 - 1..Len(data) :
            /\ z = Len(data) - r * (full - 1)
            /\ z = 1 - 1 \/ data[z] = 0
            /\ \A j \in z + 1..Len(data) : data[j] # 0
      BY <1>10 DEF EndsFullFrom
    <3>2. z = 0 \/ (z > 0 /\ data[z] = 0)
      BY <1>6, <3>1
    <3> QED
      BY <3>1, <3>2 DEF EndsFull
  <2>2. Front(enc) = chunk
    <3>1. Front(chunk \o <<1>>) = chunk
      BY <1>1, FrontDrops
    <3> HIDE DEF enc
    <3> QED
      BY <1>10, <3>1
  <2> HIDE DEF enc
  <2> QED
    BY <1>9, <2>1, <2>2
<1> HIDE DEF enc
<1> QED
  BY <1>7, <1>8, <1>9, <1>10 DEF FormFrom, enc

-----------------------------------------------------------------------------
(* Frames: what encode_raw writes, decode_raw reads *)

\* The frames the device builds, by type.
HelloPayload == [fw_version : Octets(16), git_sha : Octets(8), device_mac : Octets(6),
                 boot_channel : Octets(1)]
ObsPayload == [channel : Octets(1), rssi_dbm : Octets(1), source : Octets(1), src_mac : Octets(6),
               msg_counter : Octets(1), t_mac_us : Octets(4), ie_len : Octets(1), pack : Bytes]
StatusPayload == [uptime_s : Octets(4), channel : Octets(1), mode : Octets(1),
                  tracks_active : Octets(1), heap_free : Octets(4), counters : Octets(36)]
LogPayload == [level : Octets(1), text : Bytes]

FramesOf(ty, payloads) == [ty : {ty}, seq : Octets(4), t_dev_us : Octets(8), payload : payloads]
DeviceFrames ==
    FramesOf("HELLO", HelloPayload) \cup FramesOf("OBS", ObsPayload)
    \cup FramesOf("STATUS", StatusPayload) \cup FramesOf("LOG", LogPayload)

\* A string of n bytes.
IsField(b, n) == b \in Bytes /\ Len(b) = n

LEMMA OctetsAreBytes ==
    ASSUME NEW n \in Nat, NEW b \in Octets(n)
    PROVE  IsField(b, n)
<1>1. U8 \subseteq Nat
  BY DEF U8
<1>2. b \in [1..n -> Nat]
  BY <1>1 DEF Octets
<1> QED
  BY <1>2 DEF Bytes, IsField

LEMMA OctetBytes == ASSUME NEW s \in Seq(U8) PROVE s \in Bytes /\ \A i \in 1..Len(s) : s[i] \in U8
<1>1. U8 \subseteq Nat
  BY DEF U8
<1>2. \A i \in 1..Len(s) : s[i] \in U8
  OBVIOUS
<1>3. s \in Seq(Nat)
  <2>1. PICK n \in Nat : s \in [1..n -> U8]
    <3>1. Len(s) \in Nat /\ s \in [1..Len(s) -> U8]
      OBVIOUS
    <3> QED
      BY <3>1
  <2>2. s \in [1..n -> Nat]
    BY <1>1, <2>1
  <2> QED
    BY <2>2
<1> QED
  BY <1>2, <1>3 DEF Bytes

\* The bytes b are in x from offset o on.
Holds(x, o, b) ==
    /\ o \in Nat /\ o + Len(b) <= Len(x)
    /\ \A j \in 1..Len(b) : x[o + j] = b[j]

\* x is the beginning of xy, and y the rest.
Joins(x, y, xy) ==
    /\ xy \in Bytes /\ Len(xy) = Len(x) + Len(y)
    /\ Holds(xy, Len(x), y)
    /\ \A o : \A b \in Bytes : Holds(x, o, b) => Holds(xy, o, b)

LEMMA Joined == ASSUME NEW x \in Bytes, NEW y \in Bytes PROVE Joins(x, y, x \o y)
<1>1. Len(x) \in Nat /\ Len(y) \in Nat
  BY DEF Bytes
<1>2. /\ x \o y \in Bytes /\ Len(x \o y) = Len(x) + Len(y)
      /\ \A i \in 1..Len(x) + Len(y) : (x \o y)[i] = IF i <= Len(x) THEN x[i] ELSE y[i - Len(x)]
  BY ConcatProperties DEF Bytes
<1>3. Holds(x \o y, Len(x), y)
  <2> SUFFICES ASSUME NEW j \in 1..Len(y) PROVE (x \o y)[Len(x) + j] = y[j]
    BY <1>1, <1>2 DEF Holds
  <2>1. Len(x) + j \in 1..Len(x) + Len(y) /\ ~(Len(x) + j <= Len(x)) /\ Len(x) + j - Len(x) = j
    BY <1>1
  <2> QED
    BY <1>2, <2>1
<1>4. ASSUME NEW o, NEW b \in Bytes, Holds(x, o, b) PROVE Holds(x \o y, o, b)
  <2>1. Len(b) \in Nat /\ o \in Nat /\ o + Len(b) <= Len(x)
    BY <1>4 DEF Bytes, Holds
  <2>2. ASSUME NEW j \in 1..Len(b) PROVE (x \o y)[o + j] = b[j]
    <3>1. o + j \in 1..Len(x) + Len(y) /\ o + j <= Len(x)
      BY <1>1, <2>1
    <3>2. x[o + j] = b[j]
      BY <1>4 DEF Holds
    <3> QED
      BY <1>2, <3>1, <3>2
  <2> QED
    BY <1>1, <1>2, <2>1, <2>2 DEF Holds
<1> QED
  BY <1>2, <1>3, <1>4 DEF Joins

LEMMA HoldsItself == ASSUME NEW x \in Bytes PROVE Holds(x, 0, x)
BY DEF Holds, Bytes

LEMMA CutReads ==
    ASSUME NEW x, NEW o \in Nat, NEW n \in Nat, \A i \in o + 1..o + n : x[i] \in Nat
    PROVE  /\ arr(x, o, n) \in Bytes /\ Len(arr(x, o, n)) = n
           /\ \A i \in 1..n : arr(x, o, n)[i] = x[o + i]
<1>1. PICK l \in Int, h \in Int : l = o + 1 /\ h = o + n
  OBVIOUS
<1>2. /\ SubSeq(x, l, h) \in Seq(Nat)
      /\ Len(SubSeq(x, l, h)) = IF l <= h THEN h - l + 1 ELSE 0
      /\ \A i \in 1..h - l + 1 : SubSeq(x, l, h)[i] = x[l + i - 1]
  <2>1. \A i \in l..h : x[i] \in Nat
    BY <1>1
  <2> QED
    BY <2>1, SubSeqProperties
<1>3. h - l + 1 = n /\ (l <= h <=> n # 0) /\ \A i \in 1..n : l + i - 1 = o + i
  BY <1>1
<1>4. arr(x, o, n) = SubSeq(x, l, h)
  BY <1>1 DEF arr
<1> QED
  BY <1>2, <1>3, <1>4 DEF Bytes

LEMMA FieldByte ==
    ASSUME NEW x \in Bytes, NEW o \in Nat, NEW n \in Nat, o + n <= Len(x), NEW j \in 1..n
    PROVE  x[o + j] = arr(x, o, n)[j]
<1>1. PICK l \in Nat : l = Len(x)
  BY DEF Bytes
<1>2. \A i \in o + 1..o + n : x[i] \in Nat
  BY <1>1 DEF Bytes
<1> QED
  BY <1>2, CutReads

LEMMA HeldIsCut ==
    ASSUME NEW x \in Bytes, NEW o, NEW n \in Nat, NEW b, IsField(b, n), Holds(x, o, b)
    PROVE  arr(x, o, n) = b
<1>1. o \in Nat /\ o + n <= Len(x) /\ Len(x) \in Nat /\ \A j \in 1..n : x[o + j] = b[j]
  BY DEF Holds, Bytes, IsField
<1>2. \A i \in o + 1..o + n : x[i] \in Nat
  BY <1>1 DEF Bytes
<1>3. /\ arr(x, o, n) \in Bytes /\ Len(arr(x, o, n)) = n
      /\ \A i \in 1..n : arr(x, o, n)[i] = x[o + i]
  BY <1>1, <1>2, CutReads
<1>4. \A i \in 1..n : arr(x, o, n)[i] = b[i]
  BY <1>1, <1>3
<1> QED
  BY <1>3, <1>4, SeqEqual DEF Bytes, IsField

LEMMA HeldByte ==
    ASSUME NEW x, NEW o \in Nat, NEW b, Holds(x, o, <<b>>)
    PROVE  x[o + 1] = b
BY DEF Holds

LEMMA CrcBytes == ASSUME NEW b \in Bytes PROVE crc32(b) \in Octets(4)
<1>1. \A j : Cardinality({k \in DOMAIN b : (b[k] \div 2^j) % 2 = 1}) \in Nat
  <2> SUFFICES ASSUME NEW j PROVE Cardinality({k \in DOMAIN b : (b[k] \div 2^j) % 2 = 1}) \in Nat
    OBVIOUS
  <2>1. IsFiniteSet(DOMAIN b)
    <3>1. DOMAIN b = 1..Len(b) /\ Len(b) \in Nat
      BY DEF Bytes
    <3> QED
      BY <3>1, FS_Interval
  <2>2. {k \in DOMAIN b : (b[k] \div 2^j) % 2 = 1} \subseteq DOMAIN b
    OBVIOUS
  <2> QED
    BY <2>1, <2>2, FS_Subset, FS_CardinalityType
<1> DEFINE ones(j) == Cardinality({k \in DOMAIN b : (b[k] \div 2^j) % 2 = 1})
<1>2. crc32(b) = [i \in 1..4 |-> (ones(2 * i - 2) + 3 * ones(2 * i - 1)) % 256]
  BY DEF crc32
<1>3. \A j : ones(j) \in Nat
  BY <1>1
<1> HIDE DEF ones
<1>4. \A i \in 1..4 : (ones(2 * i - 2) + 3 * ones(2 * i - 1)) % 256 \in U8
  <2> SUFFICES ASSUME NEW m \in Nat, NEW n \in Nat PROVE (m + 3 * n) % 256 \in U8
    BY <1>3
  <2> QED
    BY DEF U8
<1> QED
  BY <1>2, <1>4 DEF Octets
LEMMA BodyRead ==
    ASSUME NEW v \in U8, NEW t \in U8, NEW s \in Octets(4), NEW d \in Octets(8), NEW p \in Bytes
    PROVE  LET body == <<v, t>> \o s \o d \o p IN
           /\ body \in Bytes /\ Len(body) = 14 + Len(p)
           /\ body[1] = v /\ body[2] = t
           /\ arr(body, 2, 4) = s /\ arr(body, 6, 8) = d /\ arr(body, 14, Len(p)) = p
<1> DEFINE h == <<v, t>>
           hs == h \o s
           hsd == hs \o d
           body == hsd \o p
<1>0. h \in Bytes /\ Len(h) = 2 /\ h[1] = v /\ h[2] = t
  BY DEF Bytes, U8
<1>1. /\ s \in Bytes /\ Len(s) = 4 /\ d \in Bytes /\ Len(d) = 8
  BY OctetsAreBytes DEF IsField
<1>2. Len(p) \in Nat
  BY DEF Bytes
<1> HIDE DEF h
<1>3. hs \in Bytes /\ Len(hs) = 6 /\ Holds(hs, 0, h) /\ Holds(hs, 2, s)
  <2>1. Joins(h, s, hs) /\ Holds(h, 0, h)
    BY <1>0, <1>1, Joined, HoldsItself
  <2> HIDE DEF hs
  <2> QED
    BY <1>0, <1>1, <2>1 DEF Joins
<1>6. hsd \in Bytes /\ Len(hsd) = 14 /\ Holds(hsd, 0, h) /\ Holds(hsd, 2, s) /\ Holds(hsd, 6, d)
  <2> HIDE DEF hs
  <2>1. Joins(hs, d, hsd)
    BY <1>1, <1>3, Joined
  <2> HIDE DEF hsd
  <2> QED
    BY <1>0, <1>1, <1>3, <2>1 DEF Joins
<1>7. /\ body \in Bytes /\ Len(body) = 14 + Len(p)
      /\ Holds(body, 0, h) /\ Holds(body, 2, s) /\ Holds(body, 6, d) /\ Holds(body, 14, p)
  <2> HIDE DEF hsd
  <2>1. Joins(hsd, p, body)
    BY <1>6, Joined
  <2> HIDE DEF body
  <2> QED
    BY <1>0, <1>1, <1>6, <2>1 DEF Joins
<1> HIDE DEF body
<1>4. body[1] = v /\ body[2] = t
  <2>1. body[0 + 1] = h[1] /\ body[0 + 2] = h[2]
    BY <1>0, <1>7 DEF Holds
  <2> QED
    BY <1>0, <2>1
<1>5. arr(body, 2, 4) = s /\ arr(body, 6, 8) = d /\ arr(body, 14, Len(p)) = p
  BY <1>1, <1>2, <1>7, HeldIsCut DEF IsField
<1> QED
  BY <1>4, <1>5, <1>7 DEF body, hsd, hs, h

LEMMA CrcRead ==
    ASSUME NEW body \in Bytes
    PROVE  LET raw == WithCrc(body)
               n == Len(raw) - 4
           IN  /\ raw \in Bytes /\ Len(raw) = Len(body) + 4
               /\ SubSeq(raw, 1, n) = body /\ SubSeq(raw, n + 1, n + 4) = crc32(body)
<1> DEFINE raw == WithCrc(body)
           crc == crc32(body)
<1>1. crc \in Bytes /\ Len(crc) = 4
  BY CrcBytes, OctetsAreBytes DEF IsField
<1> HIDE DEF crc
<1>2. raw = body \o crc
  BY DEF WithCrc, crc
<1>3. Len(body) \in Nat
  BY DEF Bytes
<1>4. /\ raw \in Bytes /\ Len(raw) = Len(body) + 4
      /\ Holds(raw, 0, body) /\ Holds(raw, Len(body), crc)
  <2>1. Joins(body, crc, raw) /\ Holds(body, 0, body)
    BY <1>1, <1>2, Joined, HoldsItself
  <2> HIDE DEF raw
  <2> QED
    BY <1>1, <2>1 DEF Joins
<1> HIDE DEF raw
<1>5. arr(raw, 0, Len(body)) = body /\ arr(raw, Len(body), 4) = crc
  BY <1>1, <1>3, <1>4, HeldIsCut DEF IsField
<1>6. Len(raw) - 4 = Len(body) /\ 0 + 1 = 1 /\ 0 + Len(body) = Len(body)
  BY <1>3, <1>4
<1> QED
  BY <1>4, <1>5, <1>6 DEF arr, raw, crc
\* The payload P has a byte form that fits a frame, and is read back from it.
Carries(ty, P) ==
    \E p \in Bytes :
        /\ PayloadBytes(ty, P) = Some(p)
        /\ Len(p) <= 16 + PACK_CAP /\ Fits(ty, p)
        /\ PayloadOf(ty, p) = P

LEMMA HelloCarries ==
    ASSUME NEW P \in HelloPayload PROVE Carries("HELLO", P)
<1> DEFINE x1 == P.fw_version
           x2 == x1 \o P.git_sha
           x3 == x2 \o P.device_mac
           x4 == x3 \o P.boot_channel
<1>1. /\ IsField(P.fw_version, 16)
      /\ IsField(P.git_sha, 8)
      /\ IsField(P.device_mac, 6)
      /\ IsField(P.boot_channel, 1)
  BY OctetsAreBytes DEF HelloPayload, IsField
<1>2. IsField(x1, 16) /\ Holds(x1, 0, P.fw_version)
  BY <1>1, HoldsItself DEF IsField
<1> HIDE DEF x1
<1>3. /\ IsField(x2, 24)
      /\ Holds(x2, 0, P.fw_version)
      /\ Holds(x2, 16, P.git_sha)
  <2>1. Joins(x1, P.git_sha, x2)
    BY <1>1, <1>2, Joined DEF IsField
  <2> HIDE DEF x2
  <2> QED
    BY <1>1, <1>2, <2>1 DEF Joins, IsField
<1> HIDE DEF x2
<1>4. /\ IsField(x3, 30)
      /\ Holds(x3, 0, P.fw_version)
      /\ Holds(x3, 16, P.git_sha)
      /\ Holds(x3, 24, P.device_mac)
  <2>1. Joins(x2, P.device_mac, x3)
    BY <1>1, <1>3, Joined DEF IsField
  <2> HIDE DEF x3
  <2> QED
    BY <1>1, <1>3, <2>1 DEF Joins, IsField
<1> HIDE DEF x3
<1>5. /\ IsField(x4, 31)
      /\ Holds(x4, 0, P.fw_version)
      /\ Holds(x4, 16, P.git_sha)
      /\ Holds(x4, 24, P.device_mac)
      /\ Holds(x4, 30, P.boot_channel)
  <2>1. Joins(x3, P.boot_channel, x4)
    BY <1>1, <1>4, Joined DEF IsField
  <2> HIDE DEF x4
  <2> QED
    BY <1>1, <1>4, <2>1 DEF Joins, IsField
<1> HIDE DEF x4
<1>6. /\ arr(x4, 0, 16) = P.fw_version
      /\ arr(x4, 16, 8) = P.git_sha
      /\ arr(x4, 24, 6) = P.device_mac
      /\ arr(x4, 30, 1) = P.boot_channel
  <2>1. x4 \in Bytes
    BY <1>5 DEF IsField
  <2> QED
    BY <1>1, <1>5, <2>1, HeldIsCut
<1>7. PayloadBytes("HELLO", P) = Some(x4)
  BY DEF PayloadBytes, x1, x2, x3, x4
<1>8. PayloadOf("HELLO", x4) = P
  <2>1. P = [fw_version |-> P.fw_version, git_sha |-> P.git_sha, device_mac |-> P.device_mac,
             boot_channel |-> P.boot_channel]
    BY DEF HelloPayload
  <2> QED
    BY <1>6, <2>1 DEF PayloadOf
<1>9. Fits("HELLO", x4) /\ x4 \in Bytes /\ Len(x4) <= 16 + PACK_CAP
  BY <1>5 DEF Fits, IsField, PACK_CAP
<1> QED
  BY <1>7, <1>8, <1>9 DEF Carries

LEMMA ObsCarries ==
    ASSUME NEW P \in ObsPayload, Len(P.pack) <= PACK_CAP PROVE Carries("OBS", P)
<1> DEFINE n == Len(P.pack)
           x1 == P.channel
           x2 == x1 \o P.rssi_dbm
           x3 == x2 \o P.source
           x4 == x3 \o P.src_mac
           x5 == x4 \o P.msg_counter
           x6 == x5 \o P.t_mac_us
           x7 == x6 \o P.ie_len
           x8 == x7 \o <<n>>
           x9 == x8 \o P.pack
<1>a. n \in Nat /\ n <= PACK_CAP
  BY DEF ObsPayload, Bytes
<1> HIDE DEF n
<1>0. n \in 0..228
  BY <1>a DEF PACK_CAP
<1>1. /\ IsField(P.channel, 1)
      /\ IsField(P.rssi_dbm, 1)
      /\ IsField(P.source, 1)
      /\ IsField(P.src_mac, 6)
      /\ IsField(P.msg_counter, 1)
      /\ IsField(P.t_mac_us, 4)
      /\ IsField(P.ie_len, 1)
      /\ IsField(<<n>>, 1)
      /\ IsField(P.pack, n)
  <2>1. IsField(<<n>>, 1)
    BY <1>0 DEF IsField, Bytes, U8
  <2>2. IsField(P.pack, n)
    BY DEF ObsPayload, IsField, n
  <2> QED
    BY <2>1, <2>2, OctetsAreBytes DEF ObsPayload, IsField
<1>2. IsField(x1, 1) /\ Holds(x1, 0, P.channel)
  BY <1>1, HoldsItself DEF IsField
<1> HIDE DEF x1
<1>3. /\ IsField(x2, 2)
      /\ Holds(x2, 0, P.channel)
      /\ Holds(x2, 1, P.rssi_dbm)
  <2>1. Joins(x1, P.rssi_dbm, x2)
    BY <1>1, <1>2, Joined DEF IsField
  <2> HIDE DEF x2
  <2> QED
    BY <1>1, <1>2, <2>1 DEF Joins, IsField
<1> HIDE DEF x2
<1>4. /\ IsField(x3, 3)
      /\ Holds(x3, 0, P.channel)
      /\ Holds(x3, 1, P.rssi_dbm)
      /\ Holds(x3, 2, P.source)
  <2>1. Joins(x2, P.source, x3)
    BY <1>1, <1>3, Joined DEF IsField
  <2> HIDE DEF x3
  <2> QED
    BY <1>1, <1>3, <2>1 DEF Joins, IsField
<1> HIDE DEF x3
<1>5. /\ IsField(x4, 9)
      /\ Holds(x4, 0, P.channel)
      /\ Holds(x4, 1, P.rssi_dbm)
      /\ Holds(x4, 2, P.source)
      /\ Holds(x4, 3, P.src_mac)
  <2>1. Joins(x3, P.src_mac, x4)
    BY <1>1, <1>4, Joined DEF IsField
  <2> HIDE DEF x4
  <2> QED
    BY <1>1, <1>4, <2>1 DEF Joins, IsField
<1> HIDE DEF x4
<1>6. /\ IsField(x5, 10)
      /\ Holds(x5, 0, P.channel)
      /\ Holds(x5, 1, P.rssi_dbm)
      /\ Holds(x5, 2, P.source)
      /\ Holds(x5, 3, P.src_mac)
      /\ Holds(x5, 9, P.msg_counter)
  <2>1. Joins(x4, P.msg_counter, x5)
    BY <1>1, <1>5, Joined DEF IsField
  <2> HIDE DEF x5
  <2> QED
    BY <1>1, <1>5, <2>1 DEF Joins, IsField
<1> HIDE DEF x5
<1>7. /\ IsField(x6, 14)
      /\ Holds(x6, 0, P.channel)
      /\ Holds(x6, 1, P.rssi_dbm)
      /\ Holds(x6, 2, P.source)
      /\ Holds(x6, 3, P.src_mac)
      /\ Holds(x6, 9, P.msg_counter)
      /\ Holds(x6, 10, P.t_mac_us)
  <2>1. Joins(x5, P.t_mac_us, x6)
    BY <1>1, <1>6, Joined DEF IsField
  <2> HIDE DEF x6
  <2> QED
    BY <1>1, <1>6, <2>1 DEF Joins, IsField
<1> HIDE DEF x6
<1>8. /\ IsField(x7, 15)
      /\ Holds(x7, 0, P.channel)
      /\ Holds(x7, 1, P.rssi_dbm)
      /\ Holds(x7, 2, P.source)
      /\ Holds(x7, 3, P.src_mac)
      /\ Holds(x7, 9, P.msg_counter)
      /\ Holds(x7, 10, P.t_mac_us)
      /\ Holds(x7, 14, P.ie_len)
  <2>1. Joins(x6, P.ie_len, x7)
    BY <1>1, <1>7, Joined DEF IsField
  <2> HIDE DEF x7
  <2> QED
    BY <1>1, <1>7, <2>1 DEF Joins, IsField
<1> HIDE DEF x7
<1>9. /\ IsField(x8, 16)
      /\ Holds(x8, 0, P.channel)
      /\ Holds(x8, 1, P.rssi_dbm)
      /\ Holds(x8, 2, P.source)
      /\ Holds(x8, 3, P.src_mac)
      /\ Holds(x8, 9, P.msg_counter)
      /\ Holds(x8, 10, P.t_mac_us)
      /\ Holds(x8, 14, P.ie_len)
      /\ Holds(x8, 15, <<n>>)
  <2>1. Joins(x7, <<n>>, x8)
    BY <1>1, <1>8, Joined DEF IsField
  <2> HIDE DEF x8
  <2> QED
    BY <1>1, <1>8, <2>1 DEF Joins, IsField
<1> HIDE DEF x8
<1>10. /\ IsField(x9, 16 + n)
      /\ Holds(x9, 0, P.channel)
      /\ Holds(x9, 1, P.rssi_dbm)
      /\ Holds(x9, 2, P.source)
      /\ Holds(x9, 3, P.src_mac)
      /\ Holds(x9, 9, P.msg_counter)
      /\ Holds(x9, 10, P.t_mac_us)
      /\ Holds(x9, 14, P.ie_len)
      /\ Holds(x9, 15, <<n>>)
      /\ Holds(x9, 16, P.pack)
  <2>1. Joins(x8, P.pack, x9)
    BY <1>1, <1>9, Joined DEF IsField
  <2> HIDE DEF x9
  <2> QED
    BY <1>1, <1>9, <2>1 DEF Joins, IsField
<1> HIDE DEF x9
<1>11. /\ arr(x9, 0, 1) = P.channel
      /\ arr(x9, 1, 1) = P.rssi_dbm
      /\ arr(x9, 2, 1) = P.source
      /\ arr(x9, 3, 6) = P.src_mac
      /\ arr(x9, 9, 1) = P.msg_counter
      /\ arr(x9, 10, 4) = P.t_mac_us
      /\ arr(x9, 14, 1) = P.ie_len
      /\ arr(x9, 15, 1) = <<n>>
      /\ arr(x9, 16, n) = P.pack
  <2>1. x9 \in Bytes
    BY <1>10 DEF IsField
  <2>2. arr(x9, 16, n) = P.pack
    <3>1. n \in Nat /\ IsField(P.pack, n) /\ Holds(x9, 16, P.pack)
      BY <1>0, <1>1, <1>10
    <3> QED
      BY <2>1, <3>1, HeldIsCut
  <2> QED
    BY <1>0, <1>1, <1>10, <2>1, <2>2, HeldIsCut
<1>12. x9[16] = n
  BY <1>10, HeldByte
<1>13. PayloadBytes("OBS", P) = Some(x9)
  BY <1>0 DEF PayloadBytes, x1, x2, x3, x4, x5, x6, x7, x8, x9, n, PACK_CAP
<1>14. SubSeq(x9, 17, Len(x9)) = P.pack
  <2>1. 16 + 1 = 17 /\ Len(x9) = 16 + n
    BY <1>0, <1>10 DEF IsField
  <2> QED
    BY <1>11, <2>1 DEF arr
<1>15. PayloadOf("OBS", x9) = P
  <2>1. P = [channel |-> P.channel, rssi_dbm |-> P.rssi_dbm, source |-> P.source,
             src_mac |-> P.src_mac, msg_counter |-> P.msg_counter, t_mac_us |-> P.t_mac_us,
             ie_len |-> P.ie_len, pack |-> P.pack]
    BY DEF ObsPayload
  <2> QED
    BY <1>11, <1>14, <2>1 DEF PayloadOf
<1>16. IsField(x9, 16 + n)
  BY <1>10
<1>17. Fits("OBS", x9) /\ x9 \in Bytes /\ Len(x9) <= 16 + PACK_CAP
  <2>1. x9 \in Bytes /\ Len(x9) = 16 + n
    BY <1>16 DEF IsField
  <2>2. Fits("OBS", x9) <=> Len(x9) >= 16 /\ Len(x9) = 16 + x9[16] /\ x9[16] <= PACK_CAP
    BY DEF Fits
  <2> HIDE DEF x9
  <2> QED
    BY <1>0, <1>12, <2>1, <2>2 DEF PACK_CAP
<1> QED
  BY <1>13, <1>15, <1>17 DEF Carries

LEMMA StatusCarries ==
    ASSUME NEW P \in StatusPayload PROVE Carries("STATUS", P)
<1> DEFINE x1 == P.uptime_s
           x2 == x1 \o P.channel
           x3 == x2 \o P.mode
           x4 == x3 \o P.tracks_active
           x5 == x4 \o <<0>>
           x6 == x5 \o P.heap_free
           x7 == x6 \o P.counters
<1>1. /\ IsField(P.uptime_s, 4)
      /\ IsField(P.channel, 1)
      /\ IsField(P.mode, 1)
      /\ IsField(P.tracks_active, 1)
      /\ IsField(<<0>>, 1)
      /\ IsField(P.heap_free, 4)
      /\ IsField(P.counters, 36)
  <2>1. IsField(<<0>>, 1)
    BY DEF IsField, Bytes, U8
  <2> QED
    BY <2>1, OctetsAreBytes DEF StatusPayload, IsField
<1>2. IsField(x1, 4) /\ Holds(x1, 0, P.uptime_s)
  BY <1>1, HoldsItself DEF IsField
<1> HIDE DEF x1
<1>3. /\ IsField(x2, 5)
      /\ Holds(x2, 0, P.uptime_s)
      /\ Holds(x2, 4, P.channel)
  <2>1. Joins(x1, P.channel, x2)
    BY <1>1, <1>2, Joined DEF IsField
  <2> HIDE DEF x2
  <2> QED
    BY <1>1, <1>2, <2>1 DEF Joins, IsField
<1> HIDE DEF x2
<1>4. /\ IsField(x3, 6)
      /\ Holds(x3, 0, P.uptime_s)
      /\ Holds(x3, 4, P.channel)
      /\ Holds(x3, 5, P.mode)
  <2>1. Joins(x2, P.mode, x3)
    BY <1>1, <1>3, Joined DEF IsField
  <2> HIDE DEF x3
  <2> QED
    BY <1>1, <1>3, <2>1 DEF Joins, IsField
<1> HIDE DEF x3
<1>5. /\ IsField(x4, 7)
      /\ Holds(x4, 0, P.uptime_s)
      /\ Holds(x4, 4, P.channel)
      /\ Holds(x4, 5, P.mode)
      /\ Holds(x4, 6, P.tracks_active)
  <2>1. Joins(x3, P.tracks_active, x4)
    BY <1>1, <1>4, Joined DEF IsField
  <2> HIDE DEF x4
  <2> QED
    BY <1>1, <1>4, <2>1 DEF Joins, IsField
<1> HIDE DEF x4
<1>6. /\ IsField(x5, 8)
      /\ Holds(x5, 0, P.uptime_s)
      /\ Holds(x5, 4, P.channel)
      /\ Holds(x5, 5, P.mode)
      /\ Holds(x5, 6, P.tracks_active)
      /\ Holds(x5, 7, <<0>>)
  <2>1. Joins(x4, <<0>>, x5)
    BY <1>1, <1>5, Joined DEF IsField
  <2> HIDE DEF x5
  <2> QED
    BY <1>1, <1>5, <2>1 DEF Joins, IsField
<1> HIDE DEF x5
<1>7. /\ IsField(x6, 12)
      /\ Holds(x6, 0, P.uptime_s)
      /\ Holds(x6, 4, P.channel)
      /\ Holds(x6, 5, P.mode)
      /\ Holds(x6, 6, P.tracks_active)
      /\ Holds(x6, 7, <<0>>)
      /\ Holds(x6, 8, P.heap_free)
  <2>1. Joins(x5, P.heap_free, x6)
    BY <1>1, <1>6, Joined DEF IsField
  <2> HIDE DEF x6
  <2> QED
    BY <1>1, <1>6, <2>1 DEF Joins, IsField
<1> HIDE DEF x6
<1>8. /\ IsField(x7, 48)
      /\ Holds(x7, 0, P.uptime_s)
      /\ Holds(x7, 4, P.channel)
      /\ Holds(x7, 5, P.mode)
      /\ Holds(x7, 6, P.tracks_active)
      /\ Holds(x7, 7, <<0>>)
      /\ Holds(x7, 8, P.heap_free)
      /\ Holds(x7, 12, P.counters)
  <2>1. Joins(x6, P.counters, x7)
    BY <1>1, <1>7, Joined DEF IsField
  <2> HIDE DEF x7
  <2> QED
    BY <1>1, <1>7, <2>1 DEF Joins, IsField
<1> HIDE DEF x7
<1>9. /\ arr(x7, 0, 4) = P.uptime_s
      /\ arr(x7, 4, 1) = P.channel
      /\ arr(x7, 5, 1) = P.mode
      /\ arr(x7, 6, 1) = P.tracks_active
      /\ arr(x7, 7, 1) = <<0>>
      /\ arr(x7, 8, 4) = P.heap_free
      /\ arr(x7, 12, 36) = P.counters
  <2>1. x7 \in Bytes
    BY <1>8 DEF IsField
  <2> QED
    BY <1>1, <1>8, <2>1, HeldIsCut
<1>10. PayloadBytes("STATUS", P) = Some(x7)
  BY DEF PayloadBytes, x1, x2, x3, x4, x5, x6, x7
<1>11. PayloadOf("STATUS", x7) = P
  <2>1. P = [uptime_s |-> P.uptime_s, channel |-> P.channel, mode |-> P.mode,
             tracks_active |-> P.tracks_active, heap_free |-> P.heap_free,
             counters |-> P.counters]
    BY DEF StatusPayload
  <2> QED
    BY <1>9, <2>1 DEF PayloadOf
<1>12. Fits("STATUS", x7) /\ x7 \in Bytes /\ Len(x7) <= 16 + PACK_CAP
  BY <1>8 DEF Fits, IsField, PACK_CAP
<1> QED
  BY <1>10, <1>11, <1>12 DEF Carries

LEMMA LogCarries ==
    ASSUME NEW P \in LogPayload, Len(P.text) <= LOG_TEXT_CAP PROVE Carries("LOG", P)
<1> DEFINE n == Len(P.text)
           x1 == P.level
           x2 == x1 \o <<n>>
           x3 == x2 \o P.text
<1>a. n \in Nat /\ n <= LOG_TEXT_CAP
  BY DEF LogPayload, Bytes
<1> HIDE DEF n
<1>0. n \in 0..200
  BY <1>a DEF LOG_TEXT_CAP
<1>1. /\ IsField(P.level, 1)
      /\ IsField(<<n>>, 1)
      /\ IsField(P.text, n)
  <2>1. IsField(<<n>>, 1)
    BY <1>0 DEF IsField, Bytes, U8
  <2>2. IsField(P.text, n)
    BY DEF LogPayload, IsField, n
  <2> QED
    BY <2>1, <2>2, OctetsAreBytes DEF LogPayload, IsField
<1>2. IsField(x1, 1) /\ Holds(x1, 0, P.level)
  BY <1>1, HoldsItself DEF IsField
<1> HIDE DEF x1
<1>3. /\ IsField(x2, 2)
      /\ Holds(x2, 0, P.level)
      /\ Holds(x2, 1, <<n>>)
  <2>1. Joins(x1, <<n>>, x2)
    BY <1>1, <1>2, Joined DEF IsField
  <2> HIDE DEF x2
  <2> QED
    BY <1>1, <1>2, <2>1 DEF Joins, IsField
<1> HIDE DEF x2
<1>4. /\ IsField(x3, 2 + n)
      /\ Holds(x3, 0, P.level)
      /\ Holds(x3, 1, <<n>>)
      /\ Holds(x3, 2, P.text)
  <2>1. Joins(x2, P.text, x3)
    BY <1>1, <1>3, Joined DEF IsField
  <2> HIDE DEF x3
  <2> QED
    BY <1>1, <1>3, <2>1 DEF Joins, IsField
<1> HIDE DEF x3
<1>5. /\ arr(x3, 0, 1) = P.level
      /\ arr(x3, 1, 1) = <<n>>
      /\ arr(x3, 2, n) = P.text
  <2>1. x3 \in Bytes
    BY <1>4 DEF IsField
  <2>2. arr(x3, 2, n) = P.text
    <3>1. n \in Nat /\ IsField(P.text, n) /\ Holds(x3, 2, P.text)
      BY <1>0, <1>1, <1>4
    <3> QED
      BY <2>1, <3>1, HeldIsCut
  <2> QED
    BY <1>0, <1>1, <1>4, <2>1, <2>2, HeldIsCut
<1>6. x3[2] = n
  <2>1. x3[1 + 1] = n
    BY <1>4, HeldByte
  <2> QED
    BY <2>1
<1>7. PayloadBytes("LOG", P) = Some(x3)
  BY <1>0 DEF PayloadBytes, x1, x2, x3, n, LOG_TEXT_CAP
<1>8. SubSeq(x3, 3, Len(x3)) = P.text
  <2>1. 2 + 1 = 3 /\ Len(x3) = 2 + n
    BY <1>0, <1>4 DEF IsField
  <2> QED
    BY <1>5, <2>1 DEF arr
<1>9. PayloadOf("LOG", x3) = P
  <2>1. P = [level |-> P.level, text |-> P.text]
    BY DEF LogPayload
  <2> QED
    BY <1>5, <1>8, <2>1 DEF PayloadOf
<1>10. IsField(x3, 2 + n)
  BY <1>4
<1>11. Fits("LOG", x3) /\ x3 \in Bytes /\ Len(x3) <= 16 + PACK_CAP
  <2>1. x3 \in Bytes /\ Len(x3) = 2 + n
    BY <1>10 DEF IsField
  <2>2. Fits("LOG", x3) <=> Len(x3) >= 2 /\ Len(x3) = 2 + x3[2] /\ x3[2] <= LOG_TEXT_CAP
    BY DEF Fits
  <2> HIDE DEF x3
  <2> QED
    BY <1>0, <1>6, <2>1, <2>2 DEF PACK_CAP, LOG_TEXT_CAP
<1> QED
  BY <1>7, <1>9, <1>11 DEF Carries

\* A pack or a text too long for its frame.
Capped(f) ==
    \/ f.ty = "OBS" /\ Len(f.payload.pack) > PACK_CAP
    \/ f.ty = "LOG" /\ Len(f.payload.text) > LOG_TEXT_CAP

LEMMA FrameCarries ==
    ASSUME NEW f \in DeviceFrames, ~Capped(f)
    PROVE  Carries(f.ty, f.payload)
<1>1. CASE f \in FramesOf("HELLO", HelloPayload)
  BY <1>1, HelloCarries DEF FramesOf
<1>2. CASE f \in FramesOf("OBS", ObsPayload)
  <2>1. f.ty = "OBS" /\ f.payload \in ObsPayload
    BY <1>2 DEF FramesOf
  <2>2. Len(f.payload.pack) \in Nat
    BY <2>1 DEF ObsPayload, Bytes
  <2>3. Len(f.payload.pack) <= PACK_CAP
    BY <2>1, <2>2 DEF Capped, PACK_CAP
  <2> QED
    BY <2>1, <2>3, ObsCarries
<1>3. CASE f \in FramesOf("STATUS", StatusPayload)
  BY <1>3, StatusCarries DEF FramesOf
<1>4. CASE f \in FramesOf("LOG", LogPayload)
  <2>1. f.ty = "LOG" /\ f.payload \in LogPayload
    BY <1>4 DEF FramesOf
  <2>2. Len(f.payload.text) \in Nat
    BY <2>1 DEF LogPayload, Bytes
  <2>3. Len(f.payload.text) <= LOG_TEXT_CAP
    BY <2>1, <2>2 DEF Capped, LOG_TEXT_CAP
  <2> QED
    BY <2>1, <2>3, LogCarries
<1> QED
  BY <1>1, <1>2, <1>3, <1>4 DEF DeviceFrames

LEMMA RawRoom == \A k \in Nat : k <= 244 => 14 + k + 4 \in HEADER_LEN + 4..MAX_RAW /\ 14 + k + 4 <= MAX_RAW
BY DEF MAX_RAW, HEADER_LEN, PACK_CAP

\* Where encode_raw puts the parts of a frame.
LaidOut(f, raw) ==
    /\ raw[1] = 1 /\ raw[2] = Types[f.ty]
    /\ \A i \in 1..4 : raw[2 + i] = f.seq[i]
    /\ \A i \in 1..8 : raw[6 + i] = f.t_dev_us[i]
    /\ \E p \in Bytes : /\ Fits(f.ty, p) /\ PayloadOf(f.ty, p) = f.payload
                        /\ Len(raw) = 18 + Len(p)
                        /\ \A i \in 1..Len(p) : raw[14 + i] = p[i]

LEMMA RawSurvives ==
    ASSUME NEW f \in DeviceFrames, ~Capped(f)
    PROVE  \E raw \in Bytes :
               /\ encode_raw(f, MAX_RAW) = Some(raw)
               /\ Len(raw) \in HEADER_LEN + 4..MAX_RAW
               /\ decode_raw(raw) = Ok(f)
               /\ LaidOut(f, raw)
<1>1. /\ f.ty \in DOMAIN Types /\ f.seq \in Octets(4) /\ f.t_dev_us \in Octets(8)
      /\ f = [ty |-> f.ty, seq |-> f.seq, t_dev_us |-> f.t_dev_us, payload |-> f.payload]
  BY DEF DeviceFrames, FramesOf, Types
<1>2. PICK p \in Bytes :
          /\ PayloadBytes(f.ty, f.payload) = Some(p) /\ Len(p) <= 16 + PACK_CAP
          /\ Fits(f.ty, p) /\ PayloadOf(f.ty, p) = f.payload
  BY FrameCarries DEF Carries
<1> DEFINE t == Types[f.ty]
           body == <<1, t>> \o f.seq \o f.t_dev_us \o p
           raw == WithCrc(body)
           n == Len(raw) - 4
<1>3. Len(p) \in Nat /\ Len(p) <= 244
  BY <1>2 DEF Bytes, PACK_CAP
<1>4. /\ body \in Bytes /\ Len(body) = 14 + Len(p)
      /\ body[1] = 1 /\ body[2] = t
      /\ arr(body, 2, 4) = f.seq /\ arr(body, 6, 8) = f.t_dev_us /\ arr(body, 14, Len(p)) = p
  <2>1. t \in U8 /\ 1 \in U8
    BY <1>1 DEF Types, U8
  <2> HIDE DEF t
  <2> QED
    BY <1>1, <1>2, <2>1, BodyRead
<1>5. /\ raw \in Bytes /\ Len(raw) = Len(body) + 4
      /\ SubSeq(raw, 1, n) = body /\ SubSeq(raw, n + 1, n + 4) = crc32(body)
  <2> HIDE DEF body
  <2> QED
    BY <1>4, CrcRead
<1>6. encode_raw(f, MAX_RAW) = Some(raw)
  <2>1. PayloadBytes(f.ty, f.payload) # None /\ PayloadBytes(f.ty, f.payload)[1] = p
    BY <1>2 DEF Some, None
  <2>2. Len(raw) <= MAX_RAW
    <3> HIDE DEF raw, body
    <3> QED
      BY <1>3, <1>4, <1>5, RawRoom
  <2>3. raw = WithCrc(<<VERSION, Types[f.ty]>> \o f.seq \o f.t_dev_us \o PayloadBytes(f.ty, f.payload)[1])
    BY <2>1 DEF VERSION
  <2> HIDE DEF raw
  <2> QED
    BY <2>1, <2>2, <2>3 DEF encode_raw
<1>7. {ty \in DOMAIN Types : Types[ty] = body[2]} = {f.ty}
  <2> HIDE DEF body
  <2> QED
    BY <1>1, <1>4 DEF Types
<1> HIDE DEF body, raw, t
<1>8. n = 14 + Len(p) /\ n \in Nat
  BY <1>3, <1>4, <1>5
<1>9. SubSeq(body, HEADER_LEN + 1, n) = p
  <2>1. HEADER_LEN + 1 = 14 + 1
    BY DEF HEADER_LEN
  <2> QED
    BY <1>4, <1>8, <2>1 DEF arr
<1>10. decode_raw(raw) = Ok([ty |-> f.ty, seq |-> f.seq, t_dev_us |-> f.t_dev_us,
                             payload |-> f.payload])
  <2>1. ~(n < HEADER_LEN)
    BY <1>3, <1>8 DEF HEADER_LEN
  <2>2. body[1] = VERSION
    BY <1>4 DEF VERSION
  <2>3. (CHOOSE ty \in {f.ty} : TRUE) = f.ty /\ {f.ty} # {}
    OBVIOUS
  <2> HIDE DEF n
  <2> QED
    BY <1>2, <1>4, <1>5, <1>7, <1>9, <2>1, <2>2, <2>3 DEF decode_raw, n
<1>11. Len(raw) \in HEADER_LEN + 4..MAX_RAW
  BY <1>3, <1>4, <1>5, RawRoom
<1>12. PICK l \in Nat : l = Len(p) /\ Len(body) = 14 + l /\ Len(raw) = 18 + l /\ n = 14 + l
  BY <1>3, <1>4, <1>5, <1>8
<1>13. \A i \in 1..14 + l : raw[i] = body[i]
  <2>1. PICK k \in Nat : k = 14 + l /\ k = n
    BY <1>12
  <2>2. body = arr(raw, 0, k)
    <3>1. 0 + 1 = 1 /\ 0 + k = k
      BY <2>1
    <3>2. SubSeq(raw, 1, k) = body
      BY <1>5, <2>1, Zenon
    <3> QED
      BY <3>1, <3>2, Zenon DEF arr
  <2>3. 0 \in Nat /\ 0 + k <= Len(raw)
    BY <1>12, <2>1
  <2>4. \A i \in 1..k : raw[0 + i] = body[i]
    <3>1. raw \in Bytes /\ k \in Nat
      BY <1>5, <2>1
    <3>2. \A i \in 1..k : raw[0 + i] = arr(raw, 0, k)[i]
      BY <2>3, <3>1, FieldByte, Zenon
    <3> QED
      BY <2>2, <3>2
  <2>5. \A i \in 1..k : 0 + i = i
    OBVIOUS
  <2> QED
    BY <2>1, <2>4, <2>5
<1>14. /\ \A i \in 1..4 : body[2 + i] = f.seq[i]
       /\ \A i \in 1..8 : body[6 + i] = f.t_dev_us[i]
       /\ \A i \in 1..l : body[14 + i] = p[i]
  <2>1. 2 + 4 <= Len(body) /\ 6 + 8 <= Len(body) /\ 14 + l <= Len(body)
    BY <1>12
  <2>2. 2 \in Nat /\ 4 \in Nat /\ 6 \in Nat /\ 8 \in Nat /\ 14 \in Nat
    OBVIOUS
  <2>3. \A i \in 1..4 : body[2 + i] = arr(body, 2, 4)[i]
    BY <1>4, <2>1, <2>2, FieldByte, Zenon
  <2>4. \A i \in 1..8 : body[6 + i] = arr(body, 6, 8)[i]
    BY <1>4, <2>1, <2>2, FieldByte, Zenon
  <2>5. \A i \in 1..l : body[14 + i] = arr(body, 14, l)[i]
    BY <1>4, <2>1, <2>2, FieldByte, Zenon
  <2> QED
    BY <1>4, <1>12, <2>3, <2>4, <2>5
<1>15. LaidOut(f, raw)
  <2>1. raw[1] = 1 /\ raw[2] = Types[f.ty]
    <3>1. 1 \in 1..14 + l /\ 2 \in 1..14 + l
      OBVIOUS
    <3> QED
      BY <1>4, <1>13, <3>1 DEF t
  <2>2. /\ \A i \in 1..4 : raw[2 + i] = f.seq[i]
        /\ \A i \in 1..8 : raw[6 + i] = f.t_dev_us[i]
    BY <1>13, <1>14
  <2>3. \A i \in 1..l : raw[14 + i] = p[i]
    <3>1. \A i \in 1..l : 14 + i \in 1..14 + l
      OBVIOUS
    <3> QED
      BY <1>13, <1>14, <3>1
  <2> QED
    BY <1>2, <1>12, <2>1, <2>2, <2>3 DEF LaidOut
<1> QED
  BY <1>1, <1>5, <1>6, <1>10, <1>11, <1>15

\* What ends a frame is a zero of its own.
LEMMA Ended ==
    ASSUME NEW e \in Bytes
    PROVE  LET w == Append(e, 0)
           IN  Len(w) = Len(e) + 1 /\ Last(w) = 0 /\ Front(w) = e
<1>1. PICK l \in Nat : l = Len(e)
  BY DEF Bytes
<1>2. PICK w : w = Append(e, 0)
  OBVIOUS
<1>3. w = e \o <<0>>
  BY <1>2 DEF Bytes
<1>4. Len(w) = l + 1 /\ w[l + 1] = 0
  BY <1>1, <1>2 DEF Bytes
<1>5. Front(w) = e
  BY <1>3, FrontDrops
<1> QED
  BY <1>1, <1>2, <1>4, <1>5 DEF Last

\* Whatever frame the device builds, FrameBuf::encode has a wire form for it unless its
\* pack or text is over the cap, and the host reads it back as it was.
LEMMA FrameRoundTrips ==
    ASSUME NEW f \in DeviceFrames
    PROVE  FrameSurvives(f)
<1>1. CASE Capped(f)
  <2>1. encode_raw(f, MAX_RAW) = None
    BY <1>1 DEF Capped, encode_raw, PayloadBytes, DeviceFrames, FramesOf
  <2>2. FrameBuf(f) = None
    BY <2>1 DEF FrameBuf
  <2> QED
    BY <1>1, <2>2 DEF FrameSurvives, Capped
<1>2. CASE ~Capped(f)
  <2>1. PICK raw \in Bytes : /\ encode_raw(f, MAX_RAW) = Some(raw)
                             /\ Len(raw) \in HEADER_LEN + 4..MAX_RAW
                             /\ decode_raw(raw) = Ok(f)
    BY <1>2, RawSurvives
  <2>2. Len(raw) \in Nat /\ Len(raw) <= 262 /\ ~(Len(raw) < HEADER_LEN + 4)
    <3>1. \A x \in HEADER_LEN + 4..MAX_RAW : x \in Nat /\ x <= 262 /\ ~(x < HEADER_LEN + 4)
      BY DEF HEADER_LEN, MAX_RAW, PACK_CAP
    <3> QED
      BY <2>1, <3>1
  <2> DEFINE enc == Blocks(FULL, raw)[1]
  <2>3. FULL \in Nat /\ FULL > 1 /\ FULL - 1 = 254
    BY DEF FULL
  <2>4. /\ cobs_encode(FULL, raw, Len(raw) + 1 + Len(raw) \div 254) = Some(enc)
        /\ enc \in Bytes /\ ZeroFree(enc)
    BY <2>3, FormsAre
  <2>5. Len(enc) \in Nat /\ Len(enc) <= 264
    <3>1. PICK l \in Nat : l = Len(raw) /\ l <= 262
      BY <2>2
    <3>2. 1 \in 1..Len(raw) + 1 /\ Len(raw) + 1 - 1 = l
      BY <3>1
    <3>3. Len(enc) <= l + 1 + l \div 254
      <4>1. Len(enc) <= (Len(raw) + 1 - 1) + 1 + (Len(raw) + 1 - 1) \div (FULL - 1)
        BY <2>3, <3>2, BlocksLength
      <4> HIDE DEF enc
      <4> QED
        BY <2>3, <3>2, <4>1
    <3>4. l \div 254 <= 1
      BY <3>1
    <3>5. Len(enc) \in Nat
      BY <2>4 DEF Bytes
    <3>6. PICK q \in Nat : q = l \div 254
      BY <3>1
    <3> HIDE DEF enc
    <3> QED
      BY <3>1, <3>3, <3>4, <3>5, <3>6
  <2>6. cobs_encode(FULL, raw, FRAME_BUF) = Some(enc)
    <3>1. FRAME_BUF \in Nat /\ Len(enc) <= FRAME_BUF
      <4> HIDE DEF enc
      <4> QED
        BY <2>5 DEF FRAME_BUF
    <3> QED
      BY <2>3, <3>1, EncodeIs
  <2>7. cobs_decode(FULL, enc, Len(enc)) = Some(raw)
    <3>1. enc \in Forms(FULL, raw)
      BY <2>3, FormsAre
    <3>2. EncodingDecodes(FULL, raw)
      BY <2>3, CobsDecodesEncodings
    <3> HIDE DEF enc
    <3> QED
      BY <3>1, <3>2 DEF EncodingDecodes
  <2> HIDE DEF enc
  <2>8. FrameBuf(f) = Some(Append(enc, 0))
    <3>1. Some(raw) # None /\ Some(raw)[1] = raw /\ Some(enc) # None /\ Some(enc)[1] = enc
      BY DEF Some, None
    <3>2. Len(enc) < FRAME_BUF
      BY <2>5 DEF FRAME_BUF
    <3> QED
      BY <2>1, <2>6, <3>1, <3>2 DEF FrameBuf
  <2>9. HostFrame(enc) = Ok(f)
    <3>1. Some(raw) # None /\ Some(raw)[1] = raw
      BY DEF Some, None
    <3>3. cobs_decode(FULL, enc, Len(enc)) # None /\ cobs_decode(FULL, enc, Len(enc))[1] = raw
      BY <2>7, <3>1
    <3>4. HostFrame(enc) = decode_raw(raw)
      BY <2>2, <3>3 DEF HostFrame
    <3> QED
      BY <2>1, <3>4
  <2>10. 0 \notin Range(enc)
    <3>1. DOMAIN enc = 1..Len(enc)
      BY <2>4 DEF Bytes
    <3> QED
      BY <2>4, <3>1 DEF Range, ZeroFree
  <2> DEFINE w == Append(enc, 0)
  <2>11. Len(w) <= 265 /\ Last(w) = 0 /\ Front(w) = enc
    <3>1. Len(w) = Len(enc) + 1 /\ Last(w) = 0 /\ Front(w) = enc
      BY <2>4, Ended
    <3> HIDE DEF w
    <3> QED
      BY <2>5, <3>1
  <2>12. Some(w) # None /\ Some(w)[1] = w
    BY DEF Some, None
  <2> HIDE DEF w
  <2>13. FrameBuf(f) # None /\ FrameBuf(f)[1] = w
    BY <2>8, <2>12 DEF w
  <2> QED
    BY <1>2, <2>9, <2>10, <2>11, <2>13 DEF FrameSurvives, Capped
<1> QED
  BY <1>1, <1>2

-----------------------------------------------------------------------------
(* Frames: what decode_raw accepts, encode_raw writes *)

\* Two fields that follow each other are one.
FieldsJoin(s, at1, n, m) ==
    /\ arr(s, at1, n) \in Bytes /\ Len(arr(s, at1, n)) = n
    /\ arr(s, at1, n) \o arr(s, at1 + n, m) = arr(s, at1, n + m)

LEMMA Adjacent ==
    ASSUME NEW s \in Bytes, NEW at1 \in Nat, NEW n \in Nat, NEW m \in Nat, at1 + n + m <= Len(s)
    PROVE  FieldsJoin(s, at1, n, m)
<1>1. PICK l \in Nat : l = Len(s)
  BY DEF Bytes
<1>2. PICK a \in Nat, b \in Nat, c \in Nat : a = at1 + 1 /\ b = at1 + n /\ c = at1 + n + m
  OBVIOUS
<1>3. arr(s, at1, n) = SubSeq(s, a, b) /\ arr(s, at1 + n, m) = SubSeq(s, b + 1, c)
  BY <1>2 DEF arr
<1>4. arr(s, at1, n + m) = SubSeq(s, a, c)
  <2>1. at1 + (n + m) = c
    BY <1>2
  <2> QED
    BY <1>2, <2>1 DEF arr
<1>5. a >= 1 /\ b <= l /\ a <= b + 1 /\ b - a + 1 = n
  BY <1>1, <1>2
<1>6. SubSeq(s, a, b) \in Bytes /\ Len(SubSeq(s, a, b)) = n
  BY <1>1, <1>5, CutBytes
<1>7. SubSeq(s, a, b) \o SubSeq(s, b + 1, c) = SubSeq(s, a, c)
  <2>1. a \in 1..Len(s) + 1 /\ b \in a - 1..Len(s) /\ c \in b..Len(s)
    BY <1>1, <1>2
  <2> QED
    BY <2>1, ConcatAdjacentSubSeq DEF Bytes
<1> QED
  BY <1>3, <1>4, <1>6, <1>7 DEF FieldsJoin

\* The same, for the fields from the start on.
Glues(s, n, m, k) == arr(s, 0, n) \o arr(s, n, m) = arr(s, 0, k)

LEMMA Glued ==
    ASSUME NEW s \in Bytes, NEW l \in Nat, l = Len(s)
    PROVE  \A n, m, k \in Nat : k = n + m /\ k <= l => Glues(s, n, m, k)
<1> TAKE n, m, k \in Nat
<1> HAVE k = n + m /\ k <= l
<1>1. 0 + n + m <= Len(s) /\ 0 + n = n
  OBVIOUS
<1>2. FieldsJoin(s, 0, n, m)
  BY <1>1, Adjacent
<1> QED
  BY <1>1, <1>2 DEF FieldsJoin, Glues

LEMMA FieldLength ==
    ASSUME NEW s \in Bytes, NEW a \in Nat, NEW n \in Nat, a + n <= Len(s)
    PROVE  arr(s, a, n) \in Bytes /\ Len(arr(s, a, n)) = n
<1>1. a + n + 0 <= Len(s)
  BY DEF Bytes
<1> QED
  BY <1>1, Adjacent DEF FieldsJoin

LEMMA WholeField == ASSUME NEW s \in Bytes PROVE arr(s, 0, Len(s)) = s
<1>1. Len(s) \in Nat /\ 0 + 1 = 1 /\ 0 + Len(s) = Len(s)
  BY DEF Bytes
<1> QED
  BY <1>1, SubSeqFull DEF arr, Bytes

LEMMA OneByteField ==
    ASSUME NEW s \in Bytes, NEW i \in Nat, i < Len(s)
    PROVE  arr(s, i, 1) = <<s[i + 1]>>
<1>1. PICK l \in Nat : l = Len(s)
  BY DEF Bytes
<1>2. PICK a \in Nat : a = i + 1
  OBVIOUS
<1>3. a >= 1 /\ a <= l /\ a <= a + 1 /\ a - a + 1 = 1 /\ a + 1 - 1 = a
  BY <1>1, <1>2
<1>4. /\ SubSeq(s, a, a) \in Bytes /\ Len(SubSeq(s, a, a)) = 1
      /\ \A j \in 1..1 : SubSeq(s, a, a)[j] = s[a + j - 1]
  BY <1>1, <1>3, CutBytes
<1>5. s[a] \in Nat
  BY <1>1, <1>3 DEF Bytes
<1>6. <<s[a]>> \in Bytes /\ Len(<<s[a]>>) = 1 /\ <<s[a]>>[1] = s[a]
  BY <1>5 DEF Bytes
<1>7. \A j \in 1..1 : SubSeq(s, a, a)[j] = <<s[a]>>[j]
  <2>1. SubSeq(s, a, a)[1] = s[a]
    BY <1>3, <1>4
  <2> QED
    BY <1>6, <2>1
<1>8. SubSeq(s, a, a) = <<s[a]>>
  BY <1>4, <1>6, <1>7, SeqEqual DEF Bytes
<1> QED
  BY <1>2, <1>8 DEF arr

\* The payload bytes are those that were read, but for STATUS's reserved one.
BytesAgain(ty, p) ==
    \E q \in Bytes : /\ PayloadBytes(ty, PayloadOf(ty, p)) = Some(q)
                     /\ Len(q) = Len(p) /\ Len(p) <= 244
                     /\ \A i \in 1..Len(p) : q[i] = p[i] \/ (ty = "STATUS" /\ i = 8)

LEMMA HelloAgain ==
    ASSUME NEW p \in Bytes, Fits("HELLO", p)
    PROVE  BytesAgain("HELLO", p)
<1>1. Len(p) = 31
  BY DEF Fits
<1>2. \A n, m, k \in Nat : k = n + m /\ k <= 31 => Glues(p, n, m, k)
  BY <1>1, Glued
<1>3. Glues(p, 16, 8, 24) /\ Glues(p, 24, 6, 30) /\ Glues(p, 30, 1, 31)
  BY <1>2
<1>4. arr(p, 0, 31) = p
  BY <1>1, WholeField
<1>5. PayloadBytes("HELLO", PayloadOf("HELLO", p)) =
          Some(arr(p, 0, 16) \o arr(p, 16, 8) \o arr(p, 24, 6) \o arr(p, 30, 1))
  BY DEF PayloadBytes, PayloadOf
<1>6. PayloadBytes("HELLO", PayloadOf("HELLO", p)) = Some(p)
  BY <1>3, <1>4, <1>5 DEF Glues
<1> QED
  BY <1>1, <1>6 DEF BytesAgain

LEMMA ObsAgain ==
    ASSUME NEW p \in Bytes, Fits("OBS", p)
    PROVE  BytesAgain("OBS", p)
<1>1. PICK l \in Nat : l = Len(p)
  BY DEF Bytes
<1>2. l >= 16 /\ l = 16 + p[16] /\ p[16] <= 228
  BY <1>1 DEF Fits, PACK_CAP
<1>3. PICK m \in Nat : m = p[16] /\ m <= 228 /\ l = 16 + m
  <2>1. 16 \in 1..Len(p)
    BY <1>1, <1>2
  <2>2. p[16] \in Nat
    BY <2>1 DEF Bytes
  <2> QED
    BY <1>2, <2>2
<1>4. \A i, n, k \in Nat : k = i + n /\ k <= l => Glues(p, i, n, k)
  BY <1>1, Glued
<1>5. Glues(p, 1, 1, 2) /\ Glues(p, 2, 1, 3) /\ Glues(p, 3, 6, 9) /\ Glues(p, 9, 1, 10)
  BY <1>3, <1>4
<1>6. Glues(p, 10, 4, 14) /\ Glues(p, 14, 1, 15) /\ Glues(p, 15, 1, 16) /\ Glues(p, 16, m, l)
  BY <1>3, <1>4
<1>7. arr(p, 0, l) = p
  BY <1>1, WholeField
<1>8. arr(p, 15, 1) = <<m>>
  <2>1. 15 < Len(p) /\ 15 + 1 = 16 /\ 15 \in Nat
    BY <1>1, <1>3
  <2>2. arr(p, 15, 1) = <<p[15 + 1]>>
    BY <2>1, OneByteField
  <2> QED
    BY <1>3, <2>1, <2>2
<1>9. SubSeq(p, 17, Len(p)) = arr(p, 16, m)
  BY <1>1, <1>3 DEF arr
<1>10. Len(arr(p, 16, m)) = m
  <2>1. 16 + m <= Len(p) /\ 16 \in Nat
    BY <1>1, <1>3
  <2> QED
    BY <2>1, FieldLength
<1>11. PayloadBytes("OBS", PayloadOf("OBS", p)) =
          Some(arr(p, 0, 1) \o arr(p, 1, 1) \o arr(p, 2, 1) \o arr(p, 3, 6) \o arr(p, 9, 1)
               \o arr(p, 10, 4) \o arr(p, 14, 1) \o <<m>> \o arr(p, 16, m))
  <2>1. ~(m > PACK_CAP)
    BY <1>3 DEF PACK_CAP
  <2> DEFINE o == PayloadOf("OBS", p)
  <2>2. /\ o.channel = arr(p, 0, 1) /\ o.rssi_dbm = arr(p, 1, 1) /\ o.source = arr(p, 2, 1)
        /\ o.src_mac = arr(p, 3, 6) /\ o.msg_counter = arr(p, 9, 1) /\ o.t_mac_us = arr(p, 10, 4)
        /\ o.ie_len = arr(p, 14, 1) /\ o.pack = arr(p, 16, m)
    BY <1>9 DEF PayloadOf
  <2> HIDE DEF o
  <2>3. PayloadBytes("OBS", o) =
          Some(arr(p, 0, 1) \o arr(p, 1, 1) \o arr(p, 2, 1) \o arr(p, 3, 6) \o arr(p, 9, 1)
               \o arr(p, 10, 4) \o arr(p, 14, 1) \o <<m>> \o arr(p, 16, m))
    BY <1>10, <2>1, <2>2 DEF PayloadBytes
  <2> QED
    BY <2>3 DEF o
<1>12. arr(p, 0, 1) \o arr(p, 1, 1) \o arr(p, 2, 1) \o arr(p, 3, 6) \o arr(p, 9, 1) = arr(p, 0, 10)
  BY <1>5 DEF Glues
<1>13. arr(p, 0, 10) \o arr(p, 10, 4) \o arr(p, 14, 1) \o <<m>> \o arr(p, 16, m) = p
  BY <1>6, <1>7, <1>8 DEF Glues
<1>14. PayloadBytes("OBS", PayloadOf("OBS", p)) = Some(p)
  BY <1>11, <1>12, <1>13
<1>15. Len(p) <= 244
  BY <1>1, <1>3
<1> QED
  BY <1>14, <1>15 DEF BytesAgain

LEMMA LogAgain ==
    ASSUME NEW p \in Bytes, Fits("LOG", p)
    PROVE  BytesAgain("LOG", p)
<1>1. PICK l \in Nat : l = Len(p)
  BY DEF Bytes
<1>2. l >= 2 /\ l = 2 + p[2] /\ p[2] <= 200
  BY <1>1 DEF Fits, LOG_TEXT_CAP
<1>3. PICK m \in Nat : m = p[2] /\ m <= 200 /\ l = 2 + m
  <2>1. 2 \in 1..Len(p)
    BY <1>1, <1>2
  <2>2. p[2] \in Nat
    BY <2>1 DEF Bytes
  <2> QED
    BY <1>2, <2>2
<1>4. \A i, n, k \in Nat : k = i + n /\ k <= l => Glues(p, i, n, k)
  BY <1>1, Glued
<1>5. Glues(p, 1, 1, 2) /\ Glues(p, 2, m, l)
  BY <1>3, <1>4
<1>6. arr(p, 0, l) = p
  BY <1>1, WholeField
<1>7. arr(p, 1, 1) = <<m>>
  <2>1. 1 < Len(p) /\ 1 + 1 = 2 /\ 1 \in Nat
    BY <1>1, <1>3
  <2>2. arr(p, 1, 1) = <<p[1 + 1]>>
    BY <2>1, OneByteField
  <2> QED
    BY <1>3, <2>1, <2>2
<1>8. SubSeq(p, 3, Len(p)) = arr(p, 2, m)
  BY <1>1, <1>3 DEF arr
<1>9. Len(arr(p, 2, m)) = m
  <2>1. 2 + m <= Len(p) /\ 2 \in Nat
    BY <1>1, <1>3
  <2> QED
    BY <2>1, FieldLength
<1>10. PayloadBytes("LOG", PayloadOf("LOG", p)) = Some(arr(p, 0, 1) \o <<m>> \o arr(p, 2, m))
  <2>1. ~(m > LOG_TEXT_CAP)
    BY <1>3 DEF LOG_TEXT_CAP
  <2>2. PayloadOf("LOG", p) = [level |-> arr(p, 0, 1), text |-> arr(p, 2, m)]
    BY <1>8 DEF PayloadOf
  <2> QED
    BY <1>9, <2>1, <2>2 DEF PayloadBytes
<1>11. PayloadBytes("LOG", PayloadOf("LOG", p)) = Some(p)
  BY <1>5, <1>6, <1>7, <1>10 DEF Glues
<1>12. Len(p) <= 244
  BY <1>1, <1>3
<1> QED
  BY <1>11, <1>12 DEF BytesAgain

LEMMA StatusAgain ==
    ASSUME NEW p \in Bytes, Fits("STATUS", p)
    PROVE  BytesAgain("STATUS", p)
<1>1. Len(p) = 48
  BY DEF Fits
<1> DEFINE z == [i \in 1..48 |-> IF i = 8 THEN 0 ELSE p[i]]
<1>2. z \in Bytes /\ Len(z) = 48 /\ z[8] = 0 /\ \A i \in 1..48 : i # 8 => z[i] = p[i]
  <2>1. \A i \in 1..Len(p) : p[i] \in Nat
    BY DEF Bytes
  <2> QED
    BY <1>1, <2>1 DEF Bytes
<1> HIDE DEF z
<1>3. ASSUME NEW a \in Nat, NEW n \in Nat, a + n <= 48, a + n < 8 \/ a >= 8
      PROVE  arr(p, a, n) = arr(z, a, n)
  <2>1. PICK x \in Nat, y \in Nat : x = a + 1 /\ y = a + n
    OBVIOUS
  <2>2. x >= 1 /\ y <= 48 /\ x <= y + 1 /\ y - x + 1 = n
    BY <1>3, <2>1
  <2>3. y <= Len(p) /\ y <= Len(z)
    BY <1>1, <1>2, <2>2
  <2>4. /\ SubSeq(p, x, y) \in Bytes /\ Len(SubSeq(p, x, y)) = y - x + 1
        /\ \A j \in 1..y - x + 1 : SubSeq(p, x, y)[j] = p[x + j - 1]
    BY <2>2, <2>3, CutBytes
  <2>5. /\ SubSeq(z, x, y) \in Bytes /\ Len(SubSeq(z, x, y)) = y - x + 1
        /\ \A j \in 1..y - x + 1 : SubSeq(z, x, y)[j] = z[x + j - 1]
    <3>1. z \in Bytes
      BY <1>2
    <3> QED
      BY <2>2, <2>3, <3>1, CutBytes
  <2>6. \A j \in 1..n : SubSeq(p, x, y)[j] = SubSeq(z, x, y)[j]
    <3> TAKE j \in 1..n
    <3>1. x + j - 1 \in 1..48 /\ x + j - 1 # 8
      BY <1>3, <2>1
    <3> QED
      BY <1>2, <2>2, <2>4, <2>5, <3>1
  <2>7. SubSeq(p, x, y) = SubSeq(z, x, y)
    BY <2>2, <2>4, <2>5, <2>6, SeqEqual DEF Bytes
  <2> QED
    BY <2>1, <2>7 DEF arr
<1>4. \A i, n, k \in Nat : k = i + n /\ k <= 48 => Glues(z, i, n, k)
  BY <1>2, Glued
<1>5. Glues(z, 4, 1, 5) /\ Glues(z, 5, 1, 6) /\ Glues(z, 6, 1, 7)
  BY <1>4
<1>6. Glues(z, 7, 1, 8) /\ Glues(z, 8, 4, 12) /\ Glues(z, 12, 36, 48)
  BY <1>4
<1>7. arr(z, 0, 48) = z
  BY <1>2, WholeField
<1>8. arr(z, 7, 1) = <<0>>
  <2>1. 7 < Len(z) /\ 7 + 1 = 8 /\ 7 \in Nat
    BY <1>2
  <2>2. arr(z, 7, 1) = <<z[7 + 1]>>
    BY <1>2, <2>1, OneByteField
  <2> QED
    BY <1>2, <2>1, <2>2
<1>9. /\ arr(p, 0, 4) = arr(z, 0, 4) /\ arr(p, 4, 1) = arr(z, 4, 1) /\ arr(p, 5, 1) = arr(z, 5, 1)
      /\ arr(p, 6, 1) = arr(z, 6, 1) /\ arr(p, 8, 4) = arr(z, 8, 4) /\ arr(p, 12, 36) = arr(z, 12, 36)
  BY <1>3
<1>10. PayloadBytes("STATUS", PayloadOf("STATUS", p)) =
          Some(arr(p, 0, 4) \o arr(p, 4, 1) \o arr(p, 5, 1) \o arr(p, 6, 1) \o <<0>>
               \o arr(p, 8, 4) \o arr(p, 12, 36))
  BY DEF PayloadBytes, PayloadOf
<1>11. arr(z, 0, 4) \o arr(z, 4, 1) \o arr(z, 5, 1) \o arr(z, 6, 1) = arr(z, 0, 7)
  BY <1>5 DEF Glues
<1>12. arr(z, 0, 7) \o <<0>> \o arr(z, 8, 4) \o arr(z, 12, 36) = z
  BY <1>6, <1>7, <1>8 DEF Glues
<1>13. PayloadBytes("STATUS", PayloadOf("STATUS", p)) = Some(z)
  BY <1>9, <1>10, <1>11, <1>12
<1>14. \A i \in 1..Len(p) : z[i] = p[i] \/ ("STATUS" = "STATUS" /\ i = 8)
  BY <1>1, <1>2
<1> QED
  BY <1>1, <1>2, <1>13, <1>14 DEF BytesAgain

\* The bytes that were read, in order, are the frame's header and its payload.
LEMMA HeaderAgain ==
    ASSUME NEW body \in Bytes, NEW n \in Nat, n = Len(body), n >= 14
    PROVE  /\ <<body[1], body[2]>> \o arr(body, 2, 4) \o arr(body, 6, 8) = arr(body, 0, 14)
           /\ IsField(arr(body, 0, 14), 14)
           /\ \A i \in 1..14 : arr(body, 0, 14)[i] = body[i]
<1>1. \A i, m, k \in Nat : k = i + m /\ k <= n => Glues(body, i, m, k)
  BY Glued
<1>2. Glues(body, 1, 1, 2) /\ Glues(body, 2, 4, 6) /\ Glues(body, 6, 8, 14)
  BY <1>1
<1>3. arr(body, 0, 1) = <<body[1]>> /\ arr(body, 1, 1) = <<body[2]>>
  <2>1. /\ 0 \in Nat /\ 0 < Len(body) /\ 0 + 1 = 1
        /\ 1 \in Nat /\ 1 < Len(body) /\ 1 + 1 = 2
    OBVIOUS
  <2>2. arr(body, 0, 1) = <<body[0 + 1]>>
    BY <2>1, OneByteField
  <2>3. arr(body, 1, 1) = <<body[1 + 1]>>
    BY <2>1, OneByteField
  <2> QED
    BY <2>1, <2>2, <2>3
<1>4. <<body[1]>> \o <<body[2]>> = <<body[1], body[2]>>
  <2>1. body[1] \in Nat /\ body[2] \in Nat
    BY DEF Bytes
  <2>2. ASSUME NEW a \in Nat, NEW b \in Nat PROVE << a >> \o << b >> = << a, b >>
    <3> DEFINE s == << a >> \o << b >>
               t == << a, b >>
    <3>1. s \in Seq(Nat) /\ Len(s) = 2 /\ t \in Seq(Nat) /\ Len(t) = 2
      OBVIOUS
    <3>2. \A i \in 1..2 : s[i] = t[i]
      OBVIOUS
    <3> HIDE DEF s, t
    <3>3. s = t
      BY <3>1, <3>2, SeqEqual
    <3> QED
      BY <3>3 DEF s, t
  <2> QED
    BY <2>1, <2>2
<1>5. <<body[1], body[2]>> = arr(body, 0, 2)
  BY <1>2, <1>3, <1>4 DEF Glues
<1>6. 0 \in Nat /\ 14 \in Nat /\ \A i \in 0 + 1..0 + 14 : body[i] \in Nat
  <2>1. \A i \in 1..n : body[i] \in Nat
    BY DEF Bytes
  <2>2. ASSUME NEW i \in 0 + 1..0 + 14 PROVE body[i] \in Nat
    <3>1. i \in 1..n
      OBVIOUS
    <3> QED
      BY <2>1, <3>1
  <2> QED
    BY <2>2
<1>7. /\ arr(body, 0, 14) \in Bytes /\ Len(arr(body, 0, 14)) = 14
      /\ \A i \in 1..14 : arr(body, 0, 14)[i] = body[0 + i]
  BY <1>6, CutReads, Zenon
<1>8. \A i \in 1..14 : arr(body, 0, 14)[i] = body[i]
  BY <1>7
<1> QED
  BY <1>2, <1>5, <1>7, <1>8 DEF Glues, IsField

\* decode_raw accepts frames only, whatever the bytes: what it returns, encoded again, is
\* what was read.
THEOREM DecodesOnlyEncoded == \A raw \in Bytes : OnlyFramesDecode(raw)
<1> SUFFICES ASSUME NEW raw \in Bytes, decode_raw(raw).ok
             PROVE  OnlyFramesDecode(raw)
  BY DEF OnlyFramesDecode
<1>1. PICK l \in Nat, n \in Int : l = Len(raw) /\ n = l - 4
  BY DEF Bytes
<1> DEFINE body == SubSeq(raw, 1, n)
           p == SubSeq(body, HEADER_LEN + 1, n)
           known == {ty \in DOMAIN Types : Types[ty] = body[2]}
           ty == CHOOSE ty \in known : TRUE
           payload == PayloadOf(ty, p)
           got == [ty |-> ty, seq |-> arr(body, 2, 4), t_dev_us |-> arr(body, 6, 8),
                   payload |-> payload]
<1>2. /\ ~(n < HEADER_LEN) /\ body[1] = VERSION /\ known # {} /\ Fits(ty, p)
      /\ decode_raw(raw) = Ok(got)
  <2>1. \A e : Err(e).ok = FALSE
    BY DEF Err
  <2>2. decode_raw(raw) =
            IF n < HEADER_LEN THEN Err("BadLength")
            ELSE IF crc32(body) # SubSeq(raw, n + 1, n + 4) THEN Err("BadCrc")
            ELSE IF body[1] # VERSION \/ known = {} THEN Err("Unknown")
            ELSE IF Fits(ty, p) THEN Ok(got) ELSE Err("BadLength")
    BY <1>1 DEF decode_raw
  <2> HIDE DEF body, p, known, ty, payload, got
  <2> QED
    BY <2>1, <2>2
<1>3. ty \in {"HELLO", "OBS", "STATUS", "LOG"} /\ Types[ty] = body[2]
  <2>1. ty \in known
    BY <1>2
  <2> HIDE DEF ty
  <2> QED
    BY <2>1 DEF Types
<1> HIDE DEF known, ty, payload
<1>4. n \in Nat /\ n >= 14 /\ l = n + 4
  BY <1>1, <1>2 DEF HEADER_LEN
<1>5. /\ body \in Bytes /\ Len(body) = n
      /\ \A i \in 1..n : body[i] = raw[i]
  <2>1. n <= Len(raw) /\ 1 >= 1 /\ 1 <= n + 1 /\ n - 1 + 1 = n /\ 1 \in Nat
    BY <1>1, <1>4
  <2>2. /\ SubSeq(raw, 1, n) \in Bytes /\ Len(SubSeq(raw, 1, n)) = n - 1 + 1
        /\ \A i \in 1..n - 1 + 1 : SubSeq(raw, 1, n)[i] = raw[1 + i - 1]
    BY <1>4, <2>1, CutBytes
  <2>3. \A i \in 1..n : 1 + i - 1 = i
    OBVIOUS
  <2> QED
    BY <2>1, <2>2, <2>3
<1> HIDE DEF body
<1>6. PICK m \in Nat : m = n - 14
  BY <1>4
<1>7. /\ p \in Bytes /\ Len(p) = m
      /\ \A i \in 1..m : p[i] = body[14 + i]
  <2>1. \A i \in 14 + 1..14 + m : body[i] \in Nat
    BY <1>5, <1>6 DEF Bytes
  <2>2. p = arr(body, 14, m)
    BY <1>6 DEF arr, HEADER_LEN
  <2> HIDE DEF p
  <2>3. 14 \in Nat
    OBVIOUS
  <2>4. /\ arr(body, 14, m) \in Bytes /\ Len(arr(body, 14, m)) = m
        /\ \A i \in 1..m : arr(body, 14, m)[i] = body[14 + i]
    BY <2>1, <2>3, CutReads, ZenonT(30)
  <2> QED
    BY <2>2, <2>4
<1> HIDE DEF p
<1>8. BytesAgain(ty, p)
  BY <1>2, <1>3, <1>7, HelloAgain, ObsAgain, StatusAgain, LogAgain
<1>9. PICK q \in Bytes : /\ PayloadBytes(ty, payload) = Some(q)
                         /\ Len(q) = m /\ m <= 244
                         /\ \A i \in 1..m : q[i] = p[i] \/ (ty = "STATUS" /\ i = 8)
  BY <1>7, <1>8 DEF BytesAgain, payload
<1> DEFINE head == arr(body, 0, 14)
           again == head \o q
           sent == WithCrc(again)
<1>10. /\ <<VERSION, Types[ty]>> \o arr(body, 2, 4) \o arr(body, 6, 8) = head
       /\ IsField(head, 14) /\ \A i \in 1..14 : head[i] = body[i]
  BY <1>2, <1>3, <1>4, <1>5, HeaderAgain
<1> HIDE DEF head
<1>11. /\ again \in Bytes /\ Len(again) = n
       /\ \A i \in 1..14 : again[i] = body[i]
       /\ \A i \in 1..m : again[14 + i] = q[i]
  <2>1. Joins(head, q, again) /\ Holds(head, 0, head) /\ head \in Bytes /\ Len(head) = 14
    BY <1>10, Joined, HoldsItself DEF IsField
  <2> HIDE DEF again
  <2>2. Holds(again, 0, head) /\ Holds(again, 14, q) /\ again \in Bytes /\ Len(again) = 14 + m
    BY <1>9, <2>1 DEF Joins
  <2>3. \A i \in 1..14 : again[0 + i] = head[i]
    BY <2>1, <2>2 DEF Holds
  <2>4. \A i \in 1..m : again[14 + i] = q[i]
    BY <1>9, <2>2 DEF Holds
  <2> QED
    BY <1>6, <1>10, <2>2, <2>3, <2>4
<1> HIDE DEF again
<1>12. \A i \in 1..n : again[i] = raw[i] \/ i \in Reserved(raw)
  <2> TAKE i \in 1..n
  <2>1. CASE i <= 14
    BY <1>5, <1>11, <2>1
  <2>2. CASE i > 14
    <3>1. PICK j \in 1..m : i = 14 + j
      BY <1>6, <2>2
    <3>2. again[i] = q[j] /\ p[j] = raw[i]
      BY <1>5, <1>7, <1>11, <3>1
    <3>3. CASE q[j] = p[j]
      BY <3>2, <3>3
    <3>4. CASE ty = "STATUS" /\ j = 8
      <4>1. raw[2] = body[2]
        BY <1>4, <1>5
      <4>2. raw[2] = Types.STATUS
        BY <1>3, <3>4, <4>1
      <4> QED
        BY <3>1, <3>4, <4>2 DEF Reserved, HEADER_LEN
    <3> QED
      BY <1>9, <3>3, <3>4
  <2> QED
    BY <2>1, <2>2
<1>13. /\ Len(sent) = l
       /\ \A i \in 1..n : sent[i] = again[i]
  <2>1. crc32(again) \in Bytes /\ Len(crc32(again)) = 4
    BY <1>11, CrcBytes, OctetsAreBytes, ZenonT(30) DEF IsField
  <2>2. Joins(again, crc32(again), sent) /\ Holds(again, 0, again)
    BY <1>11, <2>1, Joined, HoldsItself DEF WithCrc
  <2> HIDE DEF sent
  <2>3. Len(sent) = n + 4 /\ Holds(sent, 0, again)
    BY <1>11, <2>1, <2>2 DEF Joins
  <2>4. \A i \in 1..n : sent[0 + i] = again[i]
    BY <1>11, <2>3 DEF Holds
  <2> QED
    BY <1>4, <2>3, <2>4
<1>14. encode_raw(got, MAX_RAW) = Some(sent)
  <2>1. PayloadBytes(ty, payload) # None /\ PayloadBytes(ty, payload)[1] = q
    BY <1>9 DEF Some, None
  <2>2. l <= MAX_RAW
    BY <1>4, <1>6, <1>9 DEF MAX_RAW, HEADER_LEN, PACK_CAP
  <2>3. sent = WithCrc(<<VERSION, Types[ty]>> \o arr(body, 2, 4) \o arr(body, 6, 8) \o q)
    BY <1>10 DEF again
  <2> DEFINE g == got
  <2>4. g.ty = ty /\ g.payload = payload /\ g.seq = arr(body, 2, 4) /\ g.t_dev_us = arr(body, 6, 8)
    OBVIOUS
  <2> HIDE DEF sent, g
  <2>5. encode_raw(g, MAX_RAW) = Some(sent)
    BY <1>13, <2>1, <2>2, <2>3, <2>4 DEF encode_raw
  <2> QED
    BY <2>5 DEF g
<1>15. decode_raw(raw).frame = got
  BY <1>2 DEF Ok
<1>16. Some(sent) # None /\ Some(sent)[1] = sent
  BY DEF Some, None
<1>17. \A i \in 1..Len(raw) - 4 : sent[i] = raw[i] \/ i \in Reserved(raw)
  BY <1>1, <1>12, <1>13
<1> HIDE DEF sent, got
<1> QED
  BY <1>1, <1>13, <1>14, <1>15, <1>16, <1>17 DEF OnlyFramesDecode

-----------------------------------------------------------------------------
(* Frames: what damage decode_raw rejects *)

\* Bit j of a byte, and the bytes of b in which it is set.
Bit(x, j) == (x \div 2^j) % 2
Ones(b, j) == {k \in DOMAIN b : Bit(b[k], j) = 1}

LEMMA SomeBitDiffers ==
    ASSUME NEW x \in U8, NEW y \in U8, x # y
    PROVE  \E j \in 0..7 : Bit(x, j) # Bit(y, j)
<1>1. \A q, r \in Nat : q \div 2 = r \div 2 /\ q % 2 = r % 2 => q = r
  OBVIOUS
<1> DEFINE Halves(m, n) == \A q \in Nat : (q \div m) \div 2 = q \div n /\ q \div m \in Nat
<1>0. /\ Halves(1, 2) /\ Halves(2, 4) /\ Halves(4, 8) /\ Halves(8, 16)
      /\ Halves(16, 32) /\ Halves(32, 64) /\ Halves(64, 128)
  <2>1. Halves(1, 2) /\ Halves(2, 4)
    OBVIOUS
  <2>2. Halves(4, 8)
    OBVIOUS
  <2>3. Halves(8, 16)
    OBVIOUS
  <2>4. Halves(16, 32)
    OBVIOUS
  <2>5. Halves(32, 64)
    OBVIOUS
  <2>6. Halves(64, 128)
    OBVIOUS
  <2> QED
    BY <2>1, <2>2, <2>3, <2>4, <2>5, <2>6
<1>2. \A q \in U8 : q \in Nat /\ q \div 128 \in {0, 1}
  BY DEF U8
<1>3. /\ 2^0 = 1 /\ 2^1 = 2 /\ 2^2 = 4 /\ 2^3 = 8
      /\ 2^4 = 16 /\ 2^5 = 32 /\ 2^6 = 64 /\ 2^7 = 128
  OBVIOUS
<1> SUFFICES ASSUME \A j \in 0..7 : Bit(x, j) = Bit(y, j) PROVE x = y
  OBVIOUS
<1>4. /\ (x \div 1) % 2 = (y \div 1) % 2 /\ (x \div 2) % 2 = (y \div 2) % 2
      /\ (x \div 4) % 2 = (y \div 4) % 2 /\ (x \div 8) % 2 = (y \div 8) % 2
      /\ (x \div 16) % 2 = (y \div 16) % 2 /\ (x \div 32) % 2 = (y \div 32) % 2
      /\ (x \div 64) % 2 = (y \div 64) % 2 /\ (x \div 128) % 2 = (y \div 128) % 2
  <2>1. /\ Bit(x, 0) = Bit(y, 0) /\ Bit(x, 1) = Bit(y, 1) /\ Bit(x, 2) = Bit(y, 2)
        /\ Bit(x, 3) = Bit(y, 3) /\ Bit(x, 4) = Bit(y, 4) /\ Bit(x, 5) = Bit(y, 5)
        /\ Bit(x, 6) = Bit(y, 6) /\ Bit(x, 7) = Bit(y, 7)
    OBVIOUS
  <2> QED
    BY <1>3, <2>1 DEF Bit
<1>5. x \div 128 = y \div 128
  BY <1>2, <1>4
<1>6. x \div 64 = y \div 64
  BY <1>0, <1>1, <1>2, <1>4, <1>5
<1>7. x \div 32 = y \div 32
  BY <1>0, <1>1, <1>2, <1>4, <1>6
<1>8. x \div 16 = y \div 16
  BY <1>0, <1>1, <1>2, <1>4, <1>7
<1>9. x \div 8 = y \div 8
  BY <1>0, <1>1, <1>2, <1>4, <1>8
<1>10. x \div 4 = y \div 4
  BY <1>0, <1>1, <1>2, <1>4, <1>9
<1>11. x \div 2 = y \div 2
  BY <1>0, <1>1, <1>2, <1>4, <1>10
<1> QED
  BY <1>0, <1>1, <1>2, <1>4, <1>11

LEMMA BitIsBit == \A x \in Nat, j \in 0..7 : Bit(x, j) \in {0, 1}
<1> DEFINE Power(j) == 2^j \in Nat /\ 2^j > 0
<1>1. \A j \in 0..7 : Power(j)
  <2>1. /\ Power(0) /\ Power(1) /\ Power(2) /\ Power(3)
        /\ Power(4) /\ Power(5) /\ Power(6) /\ Power(7)
    OBVIOUS
  <2> HIDE DEF Power
  <2> QED
    BY <2>1
<1>2. \A x, m \in Nat : m > 0 => (x \div m) % 2 \in {0, 1}
  OBVIOUS
<1> QED
  BY <1>1, <1>2 DEF Bit

LEMMA CrcColumns ==
    ASSUME NEW b \in Bytes
    PROVE  /\ crc32(b) = [i \in 1..4 |-> (Cardinality(Ones(b, 2 * i - 2))
                                          + 3 * Cardinality(Ones(b, 2 * i - 1))) % 256]
           /\ \A j : IsFiniteSet(Ones(b, j)) /\ Cardinality(Ones(b, j)) \in Nat
<1>1. \A j : {k \in DOMAIN b : (b[k] \div 2^j) % 2 = 1} = Ones(b, j)
  BY DEF Ones, Bit
<1>2. \A j : IsFiniteSet(Ones(b, j)) /\ Cardinality(Ones(b, j)) \in Nat
  <2>1. DOMAIN b = 1..Len(b) /\ Len(b) \in Nat
    BY DEF Bytes
  <2>2. IsFiniteSet(DOMAIN b)
    BY <2>1, FS_Interval
  <2>3. \A j : Ones(b, j) \subseteq DOMAIN b
    BY DEF Ones
  <2> QED
    BY <2>2, <2>3, FS_Subset, FS_CardinalityType
<1> QED
  BY <1>1, <1>2 DEF crc32

\* Apart from the byte that changed, a column has as many ones as before.
LEMMA ColumnChanges ==
    ASSUME NEW b \in Bytes, NEW k \in DOMAIN b, NEW v \in Nat, NEW j \in 0..7
    PROVE  \E r \in Nat : /\ Cardinality(Ones(b, j)) = r + Bit(b[k], j)
                          /\ Cardinality(Ones([b EXCEPT ![k] = v], j)) = r + Bit(v, j)
<1> DEFINE c == [b EXCEPT ![k] = v]
           rest == Ones(b, j) \ {k}
<1>1. c \in Bytes /\ DOMAIN c = DOMAIN b /\ c[k] = v /\ \A i \in DOMAIN b : i # k => c[i] = b[i]
  BY DEF Bytes
<1> HIDE DEF c
<1>2. \A q \in Nat : Bit(q, j) \in {0, 1}
  BY BitIsBit
<1>3. \A d \in Bytes : k \in DOMAIN d /\ Ones(d, j) \ {k} = rest
                       => Cardinality(Ones(d, j)) = Cardinality(rest) + Bit(d[k], j)
  <2> SUFFICES ASSUME NEW d \in Bytes, k \in DOMAIN d, Ones(d, j) \ {k} = rest
               PROVE  Cardinality(Ones(d, j)) = Cardinality(rest) + Bit(d[k], j)
    OBVIOUS
  <2>1. IsFiniteSet(Ones(d, j)) /\ Cardinality(Ones(d, j)) \in Nat
    BY CrcColumns
  <2>2. CASE Bit(d[k], j) = 1
    <3>1. k \in Ones(d, j)
      BY <2>2 DEF Ones
    <3>2. Cardinality(rest) = Cardinality(Ones(d, j)) - 1
      BY <2>1, <3>1, FS_RemoveElement, ZenonT(30)
    <3>3. \A m, n \in Nat : n = m - 1 => m = n + 1
      OBVIOUS
    <3>4. Cardinality(rest) \in Nat
      BY <2>1, FS_Subset, FS_CardinalityType
    <3> QED
      BY <2>1, <2>2, <3>2, <3>3, <3>4
  <2>3. CASE Bit(d[k], j) # 1
    <3>1. Ones(d, j) = rest
      BY <2>3 DEF Ones
    <3>2. Bit(d[k], j) = 0
      BY <1>2, <2>3 DEF Bytes
    <3> QED
      BY <2>1, <3>1, <3>2
  <2> QED
    BY <2>2, <2>3
<1>4. Ones(c, j) \ {k} = rest
  BY <1>1 DEF Ones
<1>5. Cardinality(rest) \in Nat
  BY CrcColumns, FS_Subset, FS_CardinalityType
<1> QED
  BY <1>1, <1>3, <1>4, <1>5 DEF c

\* The checksum tells two bodies apart that differ in one byte.
LEMMA CrcTellsApart ==
    ASSUME NEW b \in Bytes, NEW k \in DOMAIN b, b[k] \in U8, NEW v \in U8, v # b[k]
    PROVE  crc32([b EXCEPT ![k] = v]) # crc32(b)
<1> DEFINE c == [b EXCEPT ![k] = v]
           Count(d, j) == Cardinality(Ones(d, j))
           Sum(d, i) == (Count(d, 2 * i - 2) + 3 * Count(d, 2 * i - 1)) % 256
<1>1. c \in Bytes /\ v \in Nat
  <2>1. v \in Nat
    BY DEF U8
  <2> QED
    BY <2>1 DEF Bytes
<1>2. PICK j \in 0..7 : Bit(b[k], j) # Bit(v, j)
  BY SomeBitDiffers
<1>3. \A d \in Bytes : crc32(d) = [i \in 1..4 |-> Sum(d, i)]
  BY CrcColumns
<1>4. \A m \in 0..7 : \E r \in Nat : Count(b, m) = r + Bit(b[k], m) /\ Count(c, m) = r + Bit(v, m)
  BY <1>1, ColumnChanges
<1>5. \A m \in 0..7 : Bit(b[k], m) \in {0, 1} /\ Bit(v, m) \in {0, 1}
  BY BitIsBit DEF U8
<1>6. PICK i \in 1..4 : j \in {2 * i - 2, 2 * i - 1}
  <2>1. j = 0 \/ j = 1 \/ j = 2 \/ j = 3 \/ j = 4 \/ j = 5 \/ j = 6 \/ j = 7
    OBVIOUS
  <2>2. \/ j \in {2 * 1 - 2, 2 * 1 - 1} \/ j \in {2 * 2 - 2, 2 * 2 - 1}
        \/ j \in {2 * 3 - 2, 2 * 3 - 1} \/ j \in {2 * 4 - 2, 2 * 4 - 1}
    BY <2>1
  <2> QED
    BY <2>2
<1> HIDE DEF c, Count
<1>7. PICK m \in 0..7, n \in 0..7 : m = 2 * i - 2 /\ n = 2 * i - 1 /\ j \in {m, n}
  BY <1>6
<1>8. PICK r \in Nat : Count(b, m) = r + Bit(b[k], m) /\ Count(c, m) = r + Bit(v, m)
  BY <1>4
<1>9. PICK s \in Nat : Count(b, n) = s + Bit(b[k], n) /\ Count(c, n) = s + Bit(v, n)
  BY <1>4
<1>10. Sum(b, i) # Sum(c, i)
  <2>1. \A x0, x1, y0, y1 \in {0, 1} :
            (x0 # y0 \/ x1 # y1) => ((r + x0) + 3 * (s + x1)) % 256 # ((r + y0) + 3 * (s + y1)) % 256
    OBVIOUS
  <2>2. Bit(b[k], m) # Bit(v, m) \/ Bit(b[k], n) # Bit(v, n)
    BY <1>2, <1>7
  <2>3. ((r + Bit(b[k], m)) + 3 * (s + Bit(b[k], n))) % 256
            # ((r + Bit(v, m)) + 3 * (s + Bit(v, n))) % 256
    <3>1. PICK x0 \in {0, 1}, x1 \in {0, 1} : x0 = Bit(b[k], m) /\ x1 = Bit(b[k], n)
      BY <1>5
    <3>2. PICK y0 \in {0, 1}, y1 \in {0, 1} : y0 = Bit(v, m) /\ y1 = Bit(v, n)
      BY <1>5
    <3> QED
      BY <2>1, <2>2, <3>1, <3>2
  <2> QED
    BY <1>7, <1>8, <1>9, <2>3
<1>11. crc32(b)[i] = Sum(b, i) /\ crc32(c)[i] = Sum(c, i)
  BY <1>1, <1>3
<1> QED
  BY <1>10, <1>11 DEF c

\* raw is the body, of n bytes, and the CRC over it.
Sealed(raw, n, body) ==
    /\ body \in Bytes /\ Len(body) = n /\ Len(raw) = n + 4
    /\ \A i \in 1..n : body[i] = raw[i]
    /\ \A i \in 1..4 : crc32(body)[i] = raw[n + i]

\* The type at offset 1 and the count of a pack or a text fix the length.
Measured(raw, l) ==
    \/ raw[2] = 1 /\ l = 49
    \/ raw[2] = 2 /\ l >= 34 /\ l = 34 + raw[30]
    \/ raw[2] = 3 /\ l = 66
    \/ raw[2] = 4 /\ l >= 20 /\ l = 20 + raw[16]

LEMMA AcceptedIsSealed ==
    ASSUME NEW raw \in Bytes, decode_raw(raw).ok
    PROVE  /\ \E n \in Nat, body \in Bytes : Sealed(raw, n, body)
           /\ Len(raw) >= 18 /\ Measured(raw, Len(raw))
<1>1. PICK l \in Nat, n \in Int : l = Len(raw) /\ n = l - 4
  BY DEF Bytes
<1> DEFINE body == SubSeq(raw, 1, n)
           crc == SubSeq(raw, n + 1, n + 4)
           p == SubSeq(body, HEADER_LEN + 1, n)
           known == {ty \in DOMAIN Types : Types[ty] = body[2]}
           ty == CHOOSE ty \in known : TRUE
           got == [ty |-> ty, seq |-> arr(body, 2, 4), t_dev_us |-> arr(body, 6, 8),
                   payload |-> PayloadOf(ty, p)]
<1>2. ~(n < HEADER_LEN) /\ crc32(body) = crc /\ known # {} /\ Fits(ty, p)
  <2>1. \A e : Err(e).ok = FALSE
    BY DEF Err
  <2>2. decode_raw(raw) =
            IF n < HEADER_LEN THEN Err("BadLength")
            ELSE IF crc32(body) # crc THEN Err("BadCrc")
            ELSE IF body[1] # VERSION \/ known = {} THEN Err("Unknown")
            ELSE IF Fits(ty, p) THEN Ok(got) ELSE Err("BadLength")
    BY <1>1 DEF decode_raw
  <2> HIDE DEF body, crc, p, known, ty, got
  <2> QED
    BY <2>1, <2>2
<1>3. ty \in {"HELLO", "OBS", "STATUS", "LOG"} /\ Types[ty] = body[2]
  <2>1. ty \in known
    BY <1>2
  <2> HIDE DEF ty
  <2> QED
    BY <2>1 DEF Types
<1> HIDE DEF known, ty, got
<1>4. n \in Nat /\ n >= 14 /\ l = n + 4
  BY <1>1, <1>2 DEF HEADER_LEN
<1>5. /\ body \in Bytes /\ Len(body) = n
      /\ \A i \in 1..n : body[i] = raw[i]
  <2>1. n <= Len(raw) /\ 1 >= 1 /\ 1 <= n + 1 /\ n - 1 + 1 = n /\ 1 \in Nat
    BY <1>1, <1>4
  <2>2. /\ SubSeq(raw, 1, n) \in Bytes /\ Len(SubSeq(raw, 1, n)) = n - 1 + 1
        /\ \A i \in 1..n - 1 + 1 : SubSeq(raw, 1, n)[i] = raw[1 + i - 1]
    BY <1>4, <2>1, CutBytes
  <2>3. \A i \in 1..n : 1 + i - 1 = i
    OBVIOUS
  <2> QED
    BY <2>1, <2>2, <2>3
<1>6. \A i \in 1..4 : crc[i] = raw[n + i]
  <2>1. crc = arr(raw, n, 4)
    BY DEF arr
  <2>2. \A i \in n + 1..n + 4 : raw[i] \in Nat
    BY <1>1, <1>4 DEF Bytes
  <2>3. \A i \in 1..4 : arr(raw, n, 4)[i] = raw[n + i]
    <3>1. 4 \in Nat
      OBVIOUS
    <3> QED
      BY <1>4, <2>2, <3>1, CutReads, Zenon
  <2> QED
    BY <2>1, <2>3
<1> HIDE DEF body, crc
<1>7. PICK m \in Nat : m = n - 14
  BY <1>4
<1>8. /\ p \in Bytes /\ Len(p) = m
      /\ \A i \in 1..m : p[i] = raw[14 + i]
  <2>1. \A i \in 14 + 1..14 + m : body[i] \in Nat
    BY <1>5, <1>7 DEF Bytes
  <2>2. p = arr(body, 14, m)
    BY <1>7 DEF arr, HEADER_LEN
  <2> HIDE DEF p
  <2>3. 14 \in Nat
    OBVIOUS
  <2>4. /\ arr(body, 14, m) \in Bytes /\ Len(arr(body, 14, m)) = m
        /\ \A i \in 1..m : arr(body, 14, m)[i] = body[14 + i]
    BY <2>1, <2>3, CutReads, Zenon
  <2>5. \A i \in 1..m : body[14 + i] = raw[14 + i]
    BY <1>5, <1>7
  <2> QED
    BY <2>2, <2>4, <2>5
<1> HIDE DEF p
<1>9. raw[2] = Types[ty]
  BY <1>3, <1>4, <1>5
<1>10. Measured(raw, l)
  <2>1. CASE ty = "HELLO"
    <3>1. m = 31
      BY <1>2, <1>8, <2>1 DEF Fits
    <3>2. raw[2] = 1
      BY <1>9, <2>1 DEF Types
    <3> QED
      BY <1>4, <1>7, <3>1, <3>2 DEF Measured
  <2>2. CASE ty = "OBS"
    <3>1. m >= 16 /\ m = 16 + p[16]
      BY <1>2, <1>8, <2>2 DEF Fits
    <3>2. p[16] = raw[30] /\ p[16] \in Nat
      <4>1. 16 \in 1..m /\ 14 + 16 = 30
        BY <3>1
      <4> QED
        BY <1>8, <4>1 DEF Bytes
    <3>3. raw[2] = 2
      BY <1>9, <2>2 DEF Types
    <3>4. l >= 34 /\ l = 34 + raw[30]
      BY <1>4, <1>7, <3>1, <3>2
    <3> QED
      BY <3>3, <3>4 DEF Measured
  <2>3. CASE ty = "STATUS"
    <3>1. m = 48
      BY <1>2, <1>8, <2>3 DEF Fits
    <3>2. raw[2] = 3
      BY <1>9, <2>3 DEF Types
    <3> QED
      BY <1>4, <1>7, <3>1, <3>2 DEF Measured
  <2>4. CASE ty = "LOG"
    <3>1. m >= 2 /\ m = 2 + p[2]
      BY <1>2, <1>8, <2>4 DEF Fits
    <3>2. p[2] = raw[16] /\ p[2] \in Nat
      <4>1. 2 \in 1..m /\ 14 + 2 = 16
        BY <3>1
      <4> QED
        BY <1>8, <4>1 DEF Bytes
    <3>3. raw[2] = 4
      BY <1>9, <2>4 DEF Types
    <3>4. l >= 20 /\ l = 20 + raw[16]
      BY <1>4, <1>7, <3>1, <3>2
    <3> QED
      BY <3>3, <3>4 DEF Measured
  <2> QED
    BY <1>3, <2>1, <2>2, <2>3, <2>4
<1>11. Sealed(raw, n, body)
  BY <1>1, <1>2, <1>4, <1>5, <1>6 DEF Sealed
<1> QED
  BY <1>1, <1>4, <1>5, <1>10, <1>11

\* Nothing that decode_raw accepts is the beginning of something else it accepts.
LEMMA AcceptedPrefixFree ==
    ASSUME NEW x \in Bytes, NEW y \in Bytes, decode_raw(x).ok, decode_raw(y).ok,
           Len(x) <= Len(y), \A i \in 1..Len(x) : x[i] = y[i]
    PROVE  Len(x) = Len(y)
<1>1. PICK l \in Nat, m \in Nat : l = Len(x) /\ m = Len(y)
  BY DEF Bytes
<1>2. l >= 18 /\ m >= l /\ Measured(x, l) /\ Measured(y, m)
  BY <1>1, AcceptedIsSealed
<1>3. \A i \in 1..l : x[i] = y[i]
  BY <1>1
<1>4. x[2] = y[2] /\ x[16] = y[16] /\ (l >= 34 => x[30] = y[30])
  BY <1>2, <1>3
<1>5. x[2] \in Nat /\ x[16] \in Nat /\ (l >= 34 => x[30] \in Nat)
  BY <1>1, <1>2, SMTT(30) DEF Bytes
<1>6. CASE x[2] = 2
  <2>1. l >= 34 /\ l = 34 + x[30] /\ m = 34 + y[30]
    BY <1>2, <1>4, <1>6 DEF Measured
  <2> QED
    BY <1>1, <1>4, <2>1
<1>7. CASE x[2] = 4
  <2>1. l = 20 + x[16] /\ m = 20 + y[16]
    BY <1>2, <1>4, <1>7 DEF Measured
  <2> QED
    BY <1>1, <1>4, <2>1
<1>8. CASE x[2] = 1
  <2>1. l = 49 /\ m = 49
    BY <1>2, <1>4, <1>8 DEF Measured
  <2> QED
    BY <1>1, <2>1
<1>9. CASE x[2] = 3
  <2>1. l = 66 /\ m = 66
    BY <1>2, <1>4, <1>9 DEF Measured
  <2> QED
    BY <1>1, <2>1
<1>10. x[2] = 1 \/ x[2] = 2 \/ x[2] = 3 \/ x[2] = 4
  BY <1>2 DEF Measured
<1> QED
  BY <1>6, <1>7, <1>8, <1>9, <1>10

\* One byte of what was accepted has become another.
LEMMA ChangeRejected ==
    ASSUME NEW raw \in Bytes, decode_raw(raw).ok,
           NEW k \in DOMAIN raw, raw[k] \in U8, NEW v \in U8, v # raw[k]
    PROVE  ~decode_raw([raw EXCEPT ![k] = v]).ok
<1> DEFINE hit == [raw EXCEPT ![k] = v]
<1> SUFFICES ASSUME decode_raw(hit).ok PROVE FALSE
  OBVIOUS
<1>1. /\ hit \in Bytes /\ Len(hit) = Len(raw) /\ hit[k] = v
      /\ \A i \in DOMAIN raw : i # k => hit[i] = raw[i]
  <2>1. v \in Nat
    BY DEF U8
  <2> QED
    BY <2>1 DEF Bytes
<1> HIDE DEF hit
<1>2. PICK n \in Nat, b \in Bytes : Sealed(raw, n, b)
  BY AcceptedIsSealed
<1>3. PICK m \in Nat, c \in Bytes : Sealed(hit, m, c)
  BY <1>1, AcceptedIsSealed
<1>4. m = n /\ DOMAIN raw = 1..n + 4 /\ DOMAIN b = 1..n /\ Len(b) = n /\ Len(c) = n
  BY <1>1, <1>2, <1>3 DEF Sealed, Bytes
<1>5. /\ \A i \in 1..n : b[i] = raw[i] /\ c[i] = hit[i]
      /\ \A i \in 1..4 : crc32(b)[i] = raw[n + i] /\ crc32(c)[i] = hit[n + i]
  BY <1>2, <1>3, <1>4 DEF Sealed
<1>6. CASE k \in 1..n
  <2>1. c = [b EXCEPT ![k] = v]
    <3>1. \A i \in 1..n : c[i] = [b EXCEPT ![k] = v][i]
      <4>1. \A i \in 1..n : i \in DOMAIN raw
        BY <1>4
      <4>2. \A i \in 1..n : hit[i] = IF i = k THEN v ELSE raw[i]
        BY <1>1, <4>1
      <4> QED
        BY <1>4, <1>5, <4>2
    <3>2. [b EXCEPT ![k] = v] \in Bytes /\ Len([b EXCEPT ![k] = v]) = n
      <4>1. v \in Nat
        BY DEF U8
      <4>2. b \in Seq(Nat) /\ Len(b) = n /\ k \in 1..Len(b)
        BY <1>4, <1>6 DEF Bytes
      <4> QED
        BY <4>1, <4>2, ExceptSeq DEF Bytes
    <3> QED
      BY <1>4, <3>1, <3>2, SeqEqual DEF Bytes
  <2>2. b[k] \in U8 /\ v # b[k] /\ k \in DOMAIN b
    BY <1>4, <1>5, <1>6
  <2>3. crc32(c) # crc32(b)
    BY <2>1, <2>2, CrcTellsApart
  <2>4. \A i \in 1..4 : crc32(b)[i] = crc32(c)[i]
    <3>1. \A i \in 1..4 : n + i \in DOMAIN raw /\ n + i # k
      BY <1>4, <1>6
    <3> QED
      BY <1>1, <1>5, <3>1
  <2>5. crc32(b) \in Octets(4) /\ crc32(c) \in Octets(4)
    BY CrcBytes
  <2> QED
    BY <2>3, <2>4, <2>5 DEF Octets
<1>7. CASE k \notin 1..n
  <2>1. PICK j \in 1..4 : k = n + j
    BY <1>4, <1>7
  <2>2. \A i \in 1..n : b[i] = c[i]
    <3>1. \A i \in 1..n : i \in DOMAIN raw /\ i # k
      BY <1>4, <2>1
    <3> QED
      BY <1>1, <1>5, <3>1
  <2>3. b = c
    BY <1>4, <2>2, SeqEqual DEF Bytes
  <2> QED
    BY <1>1, <1>5, <2>1, <2>3
<1> QED
  BY <1>6, <1>7

\* Damage of one kind is always seen, by a receiver of any accepted frame: a byte that has
\* become another, bytes missing from the end, bytes added to it.
THEOREM DamageRejected ==
    \A raw \in Seq(U8) : decode_raw(raw).ok =>
        /\ \A k \in DOMAIN raw, v \in U8 : v # raw[k] => ~decode_raw([raw EXCEPT ![k] = v]).ok
        /\ \A n \in 0..Len(raw) - 1 : ~decode_raw(SubSeq(raw, 1, n)).ok
        /\ \A more \in Seq(U8) : more # <<>> => ~decode_raw(raw \o more).ok
<1> SUFFICES ASSUME NEW raw \in Seq(U8), decode_raw(raw).ok
             PROVE  /\ \A k \in DOMAIN raw, v \in U8 :
                          v # raw[k] => ~decode_raw([raw EXCEPT ![k] = v]).ok
                    /\ \A n \in 0..Len(raw) - 1 : ~decode_raw(SubSeq(raw, 1, n)).ok
                    /\ \A more \in Seq(U8) : more # <<>> => ~decode_raw(raw \o more).ok
  OBVIOUS
<1>1. raw \in Bytes /\ \A k \in DOMAIN raw : raw[k] \in U8
  BY OctetBytes
<1>2. PICK l \in Nat : l = Len(raw)
  OBVIOUS
<1>3. ASSUME NEW n \in 0..l - 1 PROVE ~decode_raw(SubSeq(raw, 1, n)).ok
  <2> DEFINE x == SubSeq(raw, 1, n)
  <2>1. /\ SubSeq(raw, 1, n) \in Bytes /\ Len(SubSeq(raw, 1, n)) = n - 1 + 1
        /\ \A i \in 1..n - 1 + 1 : SubSeq(raw, 1, n)[i] = raw[1 + i - 1]
    <3>1. n <= Len(raw) /\ 1 >= 1 /\ 1 <= n + 1 /\ 1 \in Nat /\ n \in Nat
      BY <1>2
    <3> QED
      BY <1>1, <3>1, CutBytes
  <2>2. n - 1 + 1 = n /\ \A i \in 1..n : 1 + i - 1 = i
    OBVIOUS
  <2>3. x \in Bytes /\ Len(x) = n /\ \A i \in 1..n : x[i] = raw[i]
    BY <2>1, <2>2
  <2> HIDE DEF x
  <2>4. Len(x) <= Len(raw) /\ Len(x) # Len(raw)
    BY <1>2, <2>3
  <2>5. ~decode_raw(x).ok
    BY <1>1, <2>3, <2>4, AcceptedPrefixFree
  <2> QED
    BY <2>5 DEF x
<1>4. ASSUME NEW more \in Seq(U8), more # <<>> PROVE ~decode_raw(raw \o more).ok
  <2> DEFINE y == raw \o more
  <2>1. more \in Bytes
    BY OctetBytes
  <2>2. Joins(raw, more, y) /\ Holds(raw, 0, raw)
    BY <1>1, <2>1, Joined, HoldsItself
  <2> HIDE DEF y
  <2>3. y \in Bytes /\ Len(y) = Len(raw) + Len(more) /\ Holds(y, 0, raw)
    BY <1>1, <2>2 DEF Joins
  <2>4. Len(more) \in Nat /\ Len(more) # 0
    BY <1>4, EmptySeq
  <2>5. Len(raw) <= Len(y) /\ Len(raw) # Len(y)
    BY <1>2, <2>3, <2>4
  <2>6. \A i \in 1..Len(raw) : raw[i] = y[i]
    <3>1. \A i \in 1..Len(raw) : y[0 + i] = raw[i] /\ 0 + i = i
      BY <2>3 DEF Holds
    <3> QED
      BY <3>1
  <2>7. ~decode_raw(y).ok
    BY <1>1, <2>3, <2>5, <2>6, AcceptedPrefixFree
  <2> QED
    BY <2>7 DEF y
<1> QED
  BY <1>1, <1>2, <1>3, <1>4, ChangeRejected

-----------------------------------------------------------------------------
(* The run *)

\* The input is one of the list, or none.
InputOK == input \in Inputs \cup {NoInput}

LEMMA FormatInductive ==
    /\ FormatInit => InputOK
    /\ InputOK /\ [FormatNext]_input => InputOK'
BY DEF FormatInit, FormatNext, HandOver, TakeBack, InputOK

\* encode and decode_message of odid agree on every field of every message of the six
\* kinds, whatever the fields hold.
THEOREM FormatsMessages == (\A v \in Message : FieldsSurvive(v)) /\ (FormatSpec => []MessagesSurvive)
<1>1. InputOK => MessagesSurvive
  <2> SUFFICES ASSUME InputOK, input.of = "message" PROVE MessagesSurvive
    BY DEF MessagesSurvive
  <2>1. input \in MessageInputs
    BY DEF InputOK, NoInput, Inputs, FrameInputs, DamageInputs, BeaconInputs, PackInputs, SentInputs
  <2>2. /\ input.kind \in DOMAIN Fields /\ input.base \in U8 /\ input.other \in U8
    BY <2>1 DEF MessageInputs, U8
  <2> QED
    BY <2>2, ValuesAreMessages, EveryMessageSurvives DEF MessagesSurvive
<1> QED
  BY <1>1, FormatInductive, EveryMessageSurvives, PTL DEF FormatSpec

\* The frames the run hands over are such frames.
LEMMA FramesAreFrames ==
    ASSUME NEW i, i.n \in Nat, i.ty \in {"HELLO", "OBS", "STATUS", "LOG"}
    PROVE  FrameFor(i) \in DeviceFrames
<1> DEFINE b(k, n) == Fill(i.style, n, k)
<1>1. \A n, k \in Nat : b(k, n) \in Octets(n)
  BY DEF Fill, Octets, U8
<1>2. b(100, i.n) \in Bytes
  <2>1. IsField(b(100, i.n), i.n)
    BY <1>1, OctetsAreBytes
  <2> QED
    BY <2>1 DEF IsField
<1> HIDE DEF b
<1>3. FrameFor(i) = [ty |-> i.ty, seq |-> b(1, 4), t_dev_us |-> b(8, 8),
                     payload |-> Payload(i.ty, i.style, i.n)]
  BY DEF FrameFor, b
<1>4. CASE i.ty = "HELLO"
  <2>1. Payload(i.ty, i.style, i.n) = [fw_version |-> b(20, 16), git_sha |-> b(40, 8),
            device_mac |-> b(50, 6), boot_channel |-> b(60, 1)]
    BY <1>4 DEF Payload, b
  <2>2. Payload(i.ty, i.style, i.n) \in HelloPayload
    BY <1>1, <2>1 DEF HelloPayload
  <2> QED
    BY <1>1, <1>3, <1>4, <2>2 DEF DeviceFrames, FramesOf
<1>5. CASE i.ty = "OBS"
  <2>1. Payload(i.ty, i.style, i.n) = [channel |-> b(61, 1), rssi_dbm |-> b(62, 1),
            source |-> b(63, 1), src_mac |-> b(70, 6), msg_counter |-> b(80, 1),
            t_mac_us |-> b(90, 4), ie_len |-> b(95, 1), pack |-> b(100, i.n)]
    BY <1>5 DEF Payload, b
  <2>2. Payload(i.ty, i.style, i.n) \in ObsPayload
    BY <1>1, <1>2, <2>1 DEF ObsPayload
  <2> QED
    BY <1>1, <1>3, <1>5, <2>2 DEF DeviceFrames, FramesOf
<1>6. CASE i.ty = "STATUS"
  <2>1. Payload(i.ty, i.style, i.n) = [uptime_s |-> b(20, 4), channel |-> b(30, 1),
            mode |-> b(31, 1), tracks_active |-> b(32, 1), heap_free |-> b(40, 4),
            counters |-> b(50, 36)]
    BY <1>6 DEF Payload, b
  <2>2. Payload(i.ty, i.style, i.n) \in StatusPayload
    BY <1>1, <2>1 DEF StatusPayload
  <2> QED
    BY <1>1, <1>3, <1>6, <2>2 DEF DeviceFrames, FramesOf
<1>7. CASE i.ty = "LOG"
  <2>1. Payload(i.ty, i.style, i.n) = [level |-> b(20, 1), text |-> b(100, i.n)]
    BY <1>7 DEF Payload, b
  <2>2. Payload(i.ty, i.style, i.n) \in LogPayload
    BY <1>1, <1>2, <2>1 DEF LogPayload
  <2> QED
    BY <1>1, <1>3, <1>7, <2>2 DEF DeviceFrames, FramesOf
<1> QED
  BY <1>4, <1>5, <1>6, <1>7

\* Whatever frame the device builds, the host reads it back as it was, unless the device
\* refused it because a field is over its cap.
THEOREM FormatsFrames == (\A f \in DeviceFrames : FrameSurvives(f)) /\ (FormatSpec => []FramesSurvive)
<1>1. InputOK => FramesSurvive
  <2> SUFFICES ASSUME InputOK, input.of = "frame" PROVE FramesSurvive
    BY DEF FramesSurvive
  <2>1. input \in FrameInputs
    BY DEF InputOK, NoInput, Inputs, MessageInputs, DamageInputs, BeaconInputs, PackInputs, SentInputs
  <2>2. input.n \in Nat /\ input.ty \in {"HELLO", "OBS", "STATUS", "LOG"}
    BY <2>1 DEF FrameInputs, Lengths
  <2> QED
    BY <2>2, FramesAreFrames, FrameRoundTrips DEF FramesSurvive
<1>2. \A f \in DeviceFrames : FrameSurvives(f)
  BY FrameRoundTrips
<1> QED
  BY <1>1, <1>2, FormatInductive, PTL DEF FormatSpec

\* The byte stuffing loses nothing and adds nothing, whatever the full run: every source
\* is decoded from its encoding, and only encodings are decoded.
THEOREM FormatsStuffing ==
    /\ \A full \in Nat : full > 1 =>
          /\ \A data \in Bytes : EncodingDecodes(full, data)
          /\ \A chunk \in Seq(0..full) : OnlyEncodingsDecode(full, chunk)
    /\ FormatSpec => []CobsExact
<1>1. \A full \in Nat : full > 1 =>
          /\ \A data \in Bytes : EncodingDecodes(full, data)
          /\ \A chunk \in Seq(0..full) : OnlyEncodingsDecode(full, chunk)
  BY CobsDecodesEncodings, CobsDecodesOnlyEncodings
<1>2. InputOK => CobsExact
  <2> SUFFICES ASSUME InputOK, input.of = "bytes" PROVE CobsExact
    BY DEF CobsExact
  <2>1. input \in [of : {"bytes"}, bytes : BoundedSeq(0..Full, MaxBytes)]
    BY DEF InputOK, NoInput, Inputs, FrameInputs, MessageInputs, DamageInputs, BeaconInputs,
           PackInputs, SentInputs
  <2>2. input.bytes \in BoundedSeq(0..Full, MaxBytes)
    BY <2>1
  <2>3. input.bytes \in Seq(0..Full)
    BY <2>2, FormatAssumption DEF BoundedSeq, SeqOf
  <2>4. input.bytes \in Bytes
    BY <2>3, FormatAssumption DEF Bytes
  <2> QED
    BY <1>1, <2>3, <2>4, FormatAssumption DEF CobsExact
<1> QED
  BY <1>1, <1>2, FormatInductive, PTL DEF FormatSpec

-----------------------------------------------------------------------------
(* The run: damaged frames *)

\* What the damaged frames of the run held before: the bytes that fix the length and, of
\* OBS and LOG, those that the checksum of a longer or a shorter one depends on.
Undamaged(ty, n, raw) ==
    /\ ty = "HELLO"  => Len(raw) = 49 /\ raw[2] = 1 /\ raw[16] = 22 /\ raw[30] = 36
    /\ ty = "STATUS" => Len(raw) = 66 /\ raw[2] = 3 /\ raw[16] = 22 /\ raw[30] = 54
    /\ ty = "OBS"    => /\ Len(raw) = 34 + n /\ raw[2] = 2 /\ raw[16] = 63 /\ raw[30] = n
                        /\ \A k \in 17..29 : raw[k] \in 64..127
                        /\ raw[5] = 4 /\ raw[6] = 5 /\ raw[7] = 9 /\ raw[10] = 12 /\ raw[11] = 13
                        /\ raw[19] = 72 /\ raw[20] = 73 /\ raw[23] = 76 /\ raw[24] = 81
                        /\ raw[26] = 92 /\ raw[27] = 93
                        /\ n = 2 => raw[32] = 102
    /\ ty = "LOG"    => /\ Len(raw) = 20 + n /\ raw[2] = 4 /\ raw[16] = n
                        /\ \A k \in 1..15 : raw[k] \in 0..63
                        /\ n = 2 => raw[17] = 101 /\ raw[18] = 102

\* The first n bytes of a rising field.
LEMMA RisingField ==
    ASSUME NEW x \in Bytes, NEW o \in Nat, NEW n \in Nat, NEW k \in Nat, o + n <= Len(x),
           k + n < 256, arr(x, o, n) = Fill("rising", n, k)
    PROVE  \A j \in 1..n : x[o + j] = k + j
<1> SUFFICES ASSUME NEW j \in 1..n PROVE x[o + j] = k + j
  OBVIOUS
<1>1. x[o + j] = arr(x, o, n)[j]
  BY FieldByte
<1>2. Fill("rising", n, k)[j] = (k + j) % 256
  BY DEF Fill
<1>3. \A m \in Nat : m < 256 => m % 256 = m
  OBVIOUS
<1>4. k + j \in Nat /\ k + j < 256
  OBVIOUS
<1> QED
  BY <1>1, <1>2, <1>3, <1>4

\* The header of a rising frame: 1, the type, 2..5 and 9..16.
LEMMA RisingHeader ==
    ASSUME NEW i, i.style = "rising", NEW raw, LaidOut(FrameFor(i), raw)
    PROVE  /\ raw[1] = 1 /\ raw[2] = Types[i.ty]
           /\ raw[3] = 2 /\ raw[4] = 3 /\ raw[5] = 4 /\ raw[6] = 5
           /\ raw[7] = 9 /\ raw[8] = 10 /\ raw[9] = 11 /\ raw[10] = 12
           /\ raw[11] = 13 /\ raw[12] = 14 /\ raw[13] = 15 /\ raw[14] = 16
<1>1. /\ FrameFor(i).ty = i.ty
      /\ FrameFor(i).seq = Fill("rising", 4, 1) /\ FrameFor(i).t_dev_us = Fill("rising", 8, 8)
  BY DEF FrameFor
<1>2. /\ \A j \in 1..4 : Fill("rising", 4, 1)[j] = 1 + j
      /\ \A j \in 1..8 : Fill("rising", 8, 8)[j] = 8 + j
  <2>1. \A j \in 1..4 : (1 + j) % 256 = 1 + j
    OBVIOUS
  <2>2. \A j \in 1..8 : (8 + j) % 256 = 8 + j
    OBVIOUS
  <2> QED
    BY <2>1, <2>2 DEF Fill
<1>3. /\ raw[1] = 1 /\ raw[2] = Types[i.ty]
      /\ \A j \in 1..4 : raw[2 + j] = 1 + j
      /\ \A j \in 1..8 : raw[6 + j] = 8 + j
  BY <1>1, <1>2 DEF LaidOut
<1>4. /\ raw[2 + 1] = 2 /\ raw[2 + 2] = 3 /\ raw[2 + 3] = 4 /\ raw[2 + 4] = 5
      /\ raw[6 + 1] = 9 /\ raw[6 + 2] = 10 /\ raw[6 + 3] = 11 /\ raw[6 + 4] = 12
      /\ raw[6 + 5] = 13 /\ raw[6 + 6] = 14 /\ raw[6 + 7] = 15 /\ raw[6 + 8] = 16
  BY <1>3
<1> QED
  BY <1>3, <1>4

\* The frames that the run damages.
LEMMA DamageUndamaged ==
    ASSUME NEW i \in DamageInputs, NEW raw \in Bytes, LaidOut(FrameFor(i), raw)
    PROVE  Undamaged(i.ty, i.n, raw)
<1> DEFINE f == FrameFor(i)
           b(k, n) == Fill("rising", n, k)
<1>1. i.style = "rising" /\ i.n \in {0, 2} /\ f.ty = i.ty /\ f.payload = Payload(i.ty, "rising", i.n)
  BY DEF DamageInputs, FrameFor
<1>2. PICK p \in Bytes : /\ Fits(f.ty, p) /\ PayloadOf(f.ty, p) = f.payload
                         /\ Len(raw) = 18 + Len(p)
                         /\ \A j \in 1..Len(p) : raw[14 + j] = p[j]
  BY DEF LaidOut
<1> DEFINE Lead ==
        /\ raw[1] = 1 /\ raw[2] = Types[i.ty]
        /\ raw[3] = 2 /\ raw[4] = 3 /\ raw[5] = 4 /\ raw[6] = 5
        /\ raw[7] = 9 /\ raw[8] = 10 /\ raw[9] = 11 /\ raw[10] = 12
        /\ raw[11] = 13 /\ raw[12] = 14 /\ raw[13] = 15 /\ raw[14] = 16
<1>3. Lead
  BY <1>1, RisingHeader
<1>4. PICK l \in Nat : l = Len(p) /\ Len(raw) = 18 + l /\ \A j \in 1..l : raw[14 + j] = p[j]
  BY <1>2 DEF Bytes
<1> HIDE DEF f
<1>5. \A o, n, k \in Nat : o + n <= l /\ k + n < 256 /\ arr(p, o, n) = b(k, n)
                          => \A j \in 1..n : p[o + j] = k + j
  <2> SUFFICES ASSUME NEW o \in Nat, NEW n \in Nat, NEW k \in Nat,
                      o + n <= Len(p), k + n < 256, arr(p, o, n) = Fill("rising", n, k)
               PROVE  \A j \in 1..n : p[o + j] = k + j
    BY <1>4
  <2>1. p \in Bytes
    BY <1>2
  <2> QED
    BY <2>1, RisingField
<1> HIDE DEF b
<1>6. \A j \in 1..l : p[j] \in Nat
  BY <1>2, <1>4 DEF Bytes
<1>7. CASE i.ty = "HELLO"
  <2>1. /\ arr(p, 0, 16) = b(20, 16)
    <3>1. f.payload.fw_version = b(20, 16)
      BY <1>1, <1>7 DEF Payload, b
    <3>2. PayloadOf(f.ty, p).fw_version = arr(p, 0, 16)
      BY <1>1, <1>7 DEF PayloadOf
    <3> QED
      BY <1>2, <3>1, <3>2
  <2>2. l = 31
    BY <1>1, <1>2, <1>4, <1>7 DEF Fits
  <2>3. \A j \in 1..16 : p[0 + j] = 20 + j
    BY <1>5, <2>1, <2>2
  <2>4. raw[14 + 2] = 22 /\ raw[14 + 16] = 36
    BY <1>4, <2>2, <2>3
  <2> QED
    BY <1>3, <1>4, <1>7, <2>2, <2>4 DEF Undamaged, Types
<1>8. CASE i.ty = "STATUS"
  <2>1. arr(p, 0, 4) = b(20, 4) /\ arr(p, 12, 36) = b(50, 36)
    <3>1. f.payload.uptime_s = b(20, 4) /\ f.payload.counters = b(50, 36)
      BY <1>1, <1>8 DEF Payload, b
    <3>2. /\ PayloadOf(f.ty, p).uptime_s = arr(p, 0, 4)
          /\ PayloadOf(f.ty, p).counters = arr(p, 12, 36)
      BY <1>1, <1>8 DEF PayloadOf
    <3> QED
      BY <1>2, <3>1, <3>2
  <2>2. l = 48
    BY <1>1, <1>2, <1>4, <1>8 DEF Fits
  <2>3. \A j \in 1..4 : p[0 + j] = 20 + j
    BY <1>5, <2>1, <2>2
  <2>4. \A j \in 1..36 : p[12 + j] = 50 + j
    BY <1>5, <2>1, <2>2
  <2>5. raw[14 + 2] = 22 /\ raw[14 + 16] = 54
    <3>1. p[0 + 2] = 22 /\ p[12 + 4] = 54
      BY <2>3, <2>4
    <3> QED
      BY <1>4, <2>2, <3>1
  <2> QED
    BY <1>3, <1>4, <1>8, <2>2, <2>5 DEF Undamaged, Types
<1>9. CASE i.ty = "OBS"
  <2>1. /\ arr(p, 0, 1) = b(61, 1) /\ arr(p, 1, 1) = b(62, 1) /\ arr(p, 2, 1) = b(63, 1)
        /\ arr(p, 3, 6) = b(70, 6) /\ arr(p, 9, 1) = b(80, 1) /\ arr(p, 10, 4) = b(90, 4)
        /\ arr(p, 14, 1) = b(95, 1) /\ SubSeq(p, 17, l) = b(100, i.n)
    <3> DEFINE P == f.payload
    <3>1. /\ P.channel = b(61, 1) /\ P.rssi_dbm = b(62, 1) /\ P.source = b(63, 1)
          /\ P.src_mac = b(70, 6) /\ P.msg_counter = b(80, 1) /\ P.t_mac_us = b(90, 4)
          /\ P.ie_len = b(95, 1) /\ P.pack = b(100, i.n)
      BY <1>1, <1>9 DEF Payload, b
    <3>2. P = [channel |-> arr(p, 0, 1), rssi_dbm |-> arr(p, 1, 1), source |-> arr(p, 2, 1),
               src_mac |-> arr(p, 3, 6), msg_counter |-> arr(p, 9, 1),
               t_mac_us |-> arr(p, 10, 4), ie_len |-> arr(p, 14, 1),
               pack |-> SubSeq(p, 17, l)]
      BY <1>1, <1>2, <1>4, <1>9 DEF PayloadOf
    <3> HIDE DEF P
    <3> QED
      BY <3>1, <3>2
  <2>2. l >= 16 /\ l = 16 + p[16] /\ p[16] \in Nat
    BY <1>1, <1>2, <1>4, <1>9 DEF Fits, Bytes
  <2>3. PICK m \in Nat : l = 16 + m /\ m = p[16]
    BY <2>2
  <2>4. arr(p, 16, m) = b(100, i.n)
    <3>1. 16 + 1 = 17 /\ 16 + m = l
      BY <2>3
    <3> QED
      BY <2>1, <3>1 DEF arr
  <2>5. m = i.n
    <3>1. Len(arr(p, 16, m)) = m
      <4>1. \A j \in 16 + 1..16 + m : p[j] \in Nat
        BY <1>6, <2>3
      <4>2. 16 \in Nat
        OBVIOUS
      <4> QED
        BY <2>3, <4>1, <4>2, CutReads, ZenonT(30)
    <3>2. Len(b(100, i.n)) = i.n
      <4>1. i.n \in Nat
        BY <1>1
      <4>2. b(100, i.n) \in [1..i.n -> Nat]
        BY <4>1 DEF b, Fill
      <4> QED
        BY <4>1, <4>2
    <3> QED
      BY <2>4, <3>1, <3>2
  <2> DEFINE Rises(o, n, k) == \A j \in 1..n : p[o + j] = k + j
  <2>6. /\ Rises(0, 1, 61) /\ Rises(1, 1, 62) /\ Rises(2, 1, 63) /\ Rises(3, 6, 70)
        /\ Rises(9, 1, 80) /\ Rises(10, 4, 90) /\ Rises(14, 1, 95)
    <3>1. \A o, n, k \in Nat : o + n <= 16 /\ k + n < 256 /\ arr(p, o, n) = b(k, n)
                              => Rises(o, n, k)
      BY <1>5, <2>3
    <3> HIDE DEF Rises
    <3>2. Rises(0, 1, 61) /\ Rises(1, 1, 62) /\ Rises(2, 1, 63)
      BY <2>1, <3>1
    <3>3. Rises(3, 6, 70) /\ Rises(9, 1, 80)
      BY <2>1, <3>1
    <3>4. Rises(10, 4, 90) /\ Rises(14, 1, 95)
      BY <2>1, <3>1
    <3> QED
      BY <3>2, <3>3, <3>4
  <2>7. \A j \in 1..m : p[16 + j] = 100 + j
    BY <1>1, <1>5, <2>3, <2>4, <2>5, SMTT(30)
  <2>8. /\ p[1] = 62 /\ p[2] = 63 /\ p[3] = 64
        /\ p[4] = 71 /\ p[5] = 72 /\ p[6] = 73 /\ p[7] = 74 /\ p[8] = 75 /\ p[9] = 76
        /\ p[10] = 81 /\ p[11] = 91 /\ p[12] = 92 /\ p[13] = 93 /\ p[14] = 94
        /\ p[15] = 96 /\ p[16] = m
    <3>1. /\ p[0 + 1] = 61 + 1 /\ p[1 + 1] = 62 + 1 /\ p[2 + 1] = 63 + 1
          /\ p[3 + 1] = 70 + 1 /\ p[3 + 2] = 70 + 2 /\ p[3 + 3] = 70 + 3
          /\ p[3 + 4] = 70 + 4 /\ p[3 + 5] = 70 + 5 /\ p[3 + 6] = 70 + 6
          /\ p[9 + 1] = 80 + 1
          /\ p[10 + 1] = 90 + 1 /\ p[10 + 2] = 90 + 2 /\ p[10 + 3] = 90 + 3 /\ p[10 + 4] = 90 + 4
          /\ p[14 + 1] = 95 + 1
      BY <2>6
    <3> QED
      BY <2>3, <3>1
  <2>9. /\ raw[16] = 63 /\ raw[17] = 64
        /\ raw[18] = 71 /\ raw[19] = 72 /\ raw[20] = 73 /\ raw[21] = 74 /\ raw[22] = 75
        /\ raw[23] = 76 /\ raw[24] = 81 /\ raw[25] = 91 /\ raw[26] = 92 /\ raw[27] = 93
        /\ raw[28] = 94 /\ raw[29] = 96 /\ raw[30] = m
    <3>1. \A j \in 1..16 : raw[14 + j] = p[j]
      BY <1>4, <2>2
    <3>2. /\ raw[14 + 2] = p[2] /\ raw[14 + 3] = p[3] /\ raw[14 + 4] = p[4]
          /\ raw[14 + 5] = p[5] /\ raw[14 + 6] = p[6] /\ raw[14 + 7] = p[7]
          /\ raw[14 + 8] = p[8] /\ raw[14 + 9] = p[9] /\ raw[14 + 10] = p[10]
          /\ raw[14 + 11] = p[11] /\ raw[14 + 12] = p[12] /\ raw[14 + 13] = p[13]
          /\ raw[14 + 14] = p[14] /\ raw[14 + 15] = p[15] /\ raw[14 + 16] = p[16]
      BY <3>1
    <3> QED
      BY <2>8, <3>2
  <2>10. \A k \in 17..29 : raw[k] \in 64..127
    <3>1. \A k \in 17..29 :
              \/ k = 17 \/ k = 18 \/ k = 19 \/ k = 20 \/ k = 21 \/ k = 22 \/ k = 23
              \/ k = 24 \/ k = 25 \/ k = 26 \/ k = 27 \/ k = 28 \/ k = 29
      OBVIOUS
    <3> QED
      BY <2>9, <3>1
  <2>11. i.n = 2 => raw[32] = 102
    <3> SUFFICES ASSUME i.n = 2 PROVE raw[32] = 102
      OBVIOUS
    <3>1. p[16 + 2] = 100 + 2 /\ 18 \in 1..l
      BY <2>3, <2>5, <2>7
    <3>2. raw[14 + 18] = p[18]
      BY <1>4, <3>1
    <3> QED
      BY <3>1, <3>2
  <2>12. Len(raw) = 34 + i.n /\ raw[2] = 2 /\ raw[30] = i.n
    BY <1>3, <1>4, <1>9, <2>3, <2>5, <2>9 DEF Types
  <2> QED
    BY <1>3, <1>9, <2>9, <2>10, <2>11, <2>12 DEF Undamaged
<1>10. CASE i.ty = "LOG"
  <2>1. arr(p, 0, 1) = b(20, 1) /\ SubSeq(p, 3, l) = b(100, i.n)
    <3> DEFINE P == f.payload
    <3>1. P.level = b(20, 1) /\ P.text = b(100, i.n)
      BY <1>1, <1>10 DEF Payload, b
    <3>2. P = [level |-> arr(p, 0, 1), text |-> SubSeq(p, 3, l)]
      BY <1>1, <1>2, <1>4, <1>10 DEF PayloadOf
    <3> HIDE DEF P
    <3> QED
      BY <3>1, <3>2
  <2>2. l >= 2 /\ l = 2 + p[2] /\ p[2] \in Nat
    BY <1>1, <1>2, <1>4, <1>10 DEF Fits, Bytes
  <2>3. PICK m \in Nat : l = 2 + m /\ m = p[2]
    BY <2>2
  <2>4. arr(p, 2, m) = b(100, i.n)
    <3>1. 2 + 1 = 3 /\ 2 + m = l
      BY <2>3
    <3> QED
      BY <2>1, <3>1 DEF arr
  <2>5. m = i.n
    <3>1. Len(arr(p, 2, m)) = m
      <4>1. \A j \in 2 + 1..2 + m : p[j] \in Nat
        BY <1>6, <2>3
      <4>2. 2 \in Nat
        OBVIOUS
      <4> QED
        BY <2>3, <4>1, <4>2, CutReads, ZenonT(30)
    <3>2. Len(b(100, i.n)) = i.n
      <4>1. i.n \in Nat
        BY <1>1
      <4>2. b(100, i.n) \in [1..i.n -> Nat]
        BY <4>1 DEF b, Fill
      <4> QED
        BY <4>1, <4>2
    <3> QED
      BY <2>4, <3>1, <3>2
  <2>6. p[1] = 21
    <3> DEFINE Rises(o, n, k) == \A j \in 1..n : p[o + j] = k + j
    <3>1. \A o, n, k \in Nat : o + n <= 2 /\ k + n < 256 /\ arr(p, o, n) = b(k, n)
                              => Rises(o, n, k)
      BY <1>5, <2>3
    <3> HIDE DEF Rises
    <3>2. Rises(0, 1, 20)
      BY <2>1, <3>1
    <3>3. p[0 + 1] = 20 + 1
      BY <3>2 DEF Rises
    <3> QED
      BY <3>3
  <2>7. \A j \in 1..m : p[2 + j] = 100 + j
    BY <1>1, <1>5, <2>3, <2>4, <2>5
  <2>8. raw[15] = 21 /\ raw[16] = m
    <3>1. p[1] = 21 /\ 1 \in 1..l /\ 2 \in 1..l
      BY <2>2, <2>6
    <3>2. raw[14 + 1] = p[1] /\ raw[14 + 2] = p[2]
      BY <1>4, <3>1
    <3> QED
      BY <2>3, <3>1, <3>2
  <2>9. \A k \in 1..15 : raw[k] \in 0..63
    <3>1. \A k \in 1..15 :
              \/ k = 1 \/ k = 2 \/ k = 3 \/ k = 4 \/ k = 5 \/ k = 6 \/ k = 7 \/ k = 8
              \/ k = 9 \/ k = 10 \/ k = 11 \/ k = 12 \/ k = 13 \/ k = 14 \/ k = 15
      OBVIOUS
    <3>2. raw[2] = 4
      BY <1>3, <1>10 DEF Types
    <3> QED
      BY <1>3, <2>8, <3>1, <3>2
  <2>10. i.n = 2 => raw[17] = 101 /\ raw[18] = 102
    <3> SUFFICES ASSUME i.n = 2 PROVE raw[17] = 101 /\ raw[18] = 102
      OBVIOUS
    <3>1. p[2 + 1] = 100 + 1 /\ p[2 + 2] = 100 + 2 /\ 3 \in 1..l /\ 4 \in 1..l
      BY <2>3, <2>5, <2>7
    <3>2. raw[14 + 3] = p[3] /\ raw[14 + 4] = p[4]
      BY <1>4, <3>1
    <3> QED
      BY <3>1, <3>2
  <2>11. Len(raw) = 20 + i.n /\ raw[2] = 4 /\ raw[16] = i.n
    BY <1>3, <1>4, <1>10, <2>3, <2>5, <2>8 DEF Types
  <2> QED
    BY <1>10, <2>9, <2>10, <2>11 DEF Undamaged
<1> QED
  <2>1. i.ty \in {"HELLO", "OBS", "STATUS", "LOG"}
    BY DEF DamageInputs, Types
  <2> QED
    BY <1>7, <1>8, <1>9, <1>10, <2>1

Positions(a, b) == a..b

LEMMA Span ==
    \A a, b \in Int : a <= b + 1 =>
        IsFiniteSet(Positions(a, b)) /\ Cardinality(Positions(a, b)) = b - a + 1
<1> SUFFICES ASSUME NEW a \in Int, NEW b \in Int, a <= b + 1
             PROVE  IsFiniteSet(a..b) /\ Cardinality(a..b) = b - a + 1
  BY DEF Positions
<1>1. IsFiniteSet(a..b) /\ Cardinality(a..b) = IF a > b THEN 0 ELSE b - a + 1
  BY FS_Interval
<1> QED
  BY <1>1

\* Two parts have together at most as many elements as they have apart.
LEMMA CountParts ==
    ASSUME NEW S, NEW T, IsFiniteSet(S), IsFiniteSet(T)
    PROVE  /\ IsFiniteSet(S \cup T)
           /\ Cardinality(S \cup T) <= Cardinality(S) + Cardinality(T)
<1>1. /\ Cardinality(S) \in Nat /\ Cardinality(T) \in Nat
      /\ IsFiniteSet(S \cap T) /\ Cardinality(S \cap T) \in Nat
  BY FS_Intersection, FS_CardinalityType
<1>2. IsFiniteSet(S \cup T) /\ Cardinality(S \cup T) = Cardinality(S) + Cardinality(T) - Cardinality(S \cap T)
  BY FS_Union
<1> QED
  BY <1>1, <1>2

\* The byte is the checksum of columns j and k, with x and y ones of at most m.
Sums(byte, c, m, j, k) ==
    \E x, y \in 0..m : /\ x = Cardinality(Ones(c, j)) /\ y = Cardinality(Ones(c, k))
                       /\ byte = (x + 3 * y) % 256

\* The first byte of the CRC and the last.
LEMMA SealedColumns ==
    ASSUME NEW d, NEW m \in Nat, NEW c \in Bytes, Sealed(d, m, c)
    PROVE  Sums(d[m + 1], c, m, 0, 1) /\ Sums(d[m + 4], c, m, 6, 7)
<1>1. DOMAIN c = 1..m
  BY DEF Sealed, Bytes
<1>2. \A j : Cardinality(Ones(c, j)) \in 0..m
  <2>1. IsFiniteSet(1..m) /\ Cardinality(1..m) = m
    <3>1. IsFiniteSet(Positions(1, m)) /\ Cardinality(Positions(1, m)) = m
      BY Span
    <3> QED
      BY <3>1 DEF Positions
  <2>2. \A j : Ones(c, j) \subseteq 1..m
    BY <1>1 DEF Ones
  <2>3. \A j : Cardinality(Ones(c, j)) \in Nat /\ Cardinality(Ones(c, j)) <= m
    BY <2>1, <2>2, FS_Subset, FS_CardinalityType
  <2> QED
    BY <2>3
<1> DEFINE F(i) == (Cardinality(Ones(c, 2 * i - 2)) + 3 * Cardinality(Ones(c, 2 * i - 1))) % 256
<1>3. \A i \in 1..4 : crc32(c)[i] = F(i) /\ crc32(c)[i] = d[m + i]
  BY CrcColumns, ZenonT(30) DEF Sealed
<1>4. ASSUME NEW i \in 1..4 PROVE Sums(d[m + i], c, m, 2 * i - 2, 2 * i - 1)
  BY <1>2, <1>3 DEF Sums
<1>5. 2 * 1 - 2 = 0 /\ 2 * 1 - 1 = 1 /\ 2 * 4 - 2 = 6 /\ 2 * 4 - 1 = 7
  OBVIOUS
<1>6. Sums(d[m + 1], c, m, 2 * 1 - 2, 2 * 1 - 1) /\ Sums(d[m + 4], c, m, 2 * 4 - 2, 2 * 4 - 1)
  BY <1>4
<1> QED
  BY <1>5, <1>6

LEMMA BitValues ==
    /\ \A x \in 64..127 : Bit(x, 6) = 1
    /\ \A x \in 0..63 : Bit(x, 6) = 0
    /\ \A x \in 0..127 : Bit(x, 7) = 0
    /\ \A x \in {4, 5, 9, 12, 13, 72, 73, 76, 81} : Bit(x, 1) = 0
<1>1. 2^1 = 2 /\ 2^6 = 64 /\ 2^7 = 128
  OBVIOUS
<1>2. /\ \A x \in 64..127 : (x \div 64) % 2 = 1
      /\ \A x \in 0..63 : (x \div 64) % 2 = 0
      /\ \A x \in 0..127 : (x \div 128) % 2 = 0
  OBVIOUS
<1>3. /\ (4 \div 2) % 2 = 0 /\ (5 \div 2) % 2 = 0 /\ (9 \div 2) % 2 = 0 /\ (12 \div 2) % 2 = 0
      /\ (13 \div 2) % 2 = 0 /\ (72 \div 2) % 2 = 0 /\ (73 \div 2) % 2 = 0
      /\ (76 \div 2) % 2 = 0 /\ (81 \div 2) % 2 = 0
  OBVIOUS
<1>4. \A x \in {4, 5, 9, 12, 13, 72, 73, 76, 81} : (x \div 2) % 2 = 0
  BY <1>3
<1> QED
  BY <1>1, <1>2, <1>4 DEF Bit

\* A byte 7 more than an OBS: the last column of the checksum counts at least 13 ones.
LEMMA LongerObs ==
    ASSUME NEW n \in {0, 2}, NEW raw \in Bytes, Undamaged("OBS", n, raw),
           NEW d \in Bytes, Len(d) = 35 + n, d[35 + n] = 7,
           \A k \in 17..29 : d[k] = raw[k]
    PROVE  ~decode_raw(d).ok
<1> SUFFICES ASSUME decode_raw(d).ok PROVE FALSE
  OBVIOUS
<1>1. PICK m \in Nat, c \in Bytes : Sealed(d, m, c)
  BY AcceptedIsSealed
<1>2. m + 4 = 35 + n /\ Len(c) = m /\ \A i \in 1..m : c[i] = d[i]
  BY <1>1 DEF Sealed
<1>3. PICK x \in 0..m, y \in 0..m : /\ x = Cardinality(Ones(c, 6)) /\ y = Cardinality(Ones(c, 7))
                                    /\ d[m + 4] = (x + 3 * y) % 256
  <2>1. Sums(d[m + 4], c, m, 6, 7)
    BY <1>1, SealedColumns, Zenon
  <2> QED
    BY <2>1 DEF Sums
<1>4. (x + 3 * y) % 256 = 7
  BY <1>2, <1>3
<1>5. x >= 13
  <2>1. Positions(17, 29) \subseteq Ones(c, 6)
    <3> SUFFICES ASSUME NEW k \in 17..29 PROVE k \in Ones(c, 6)
      BY DEF Positions
    <3>1. k \in 1..m
      BY <1>2
    <3>2. raw[k] \in 64..127
      BY DEF Undamaged
    <3>3. c[k] \in 64..127
      BY <1>2, <3>1, <3>2
    <3>4. k \in DOMAIN c
      BY <1>2, <3>1 DEF Bytes
    <3> QED
      BY <3>3, <3>4, BitValues DEF Ones
  <2>2. Cardinality(Positions(17, 29)) = 13
    BY Span
  <2>3. IsFiniteSet(Ones(c, 6))
    BY CrcColumns
  <2>4. Cardinality(Positions(17, 29)) <= Cardinality(Ones(c, 6))
    BY <2>1, <2>3, FS_Subset
  <2> QED
    BY <1>3, <2>2, <2>4
<1> QED
  BY <1>2, <1>4, <1>5, SMTT(30)

\* A byte less than an OBS of two: what is left of the pack stands where the first column
\* of the checksum should, which is less.
LEMMA ShorterObs ==
    ASSUME NEW raw \in Bytes, Undamaged("OBS", 2, raw),
           NEW d \in Bytes, Len(d) = 35, \A k \in 1..35 : k # 30 => d[k] = raw[k]
    PROVE  ~decode_raw(d).ok
<1> SUFFICES ASSUME decode_raw(d).ok PROVE FALSE
  OBVIOUS
<1>1. PICK m \in Nat, c \in Bytes : Sealed(d, m, c)
  BY AcceptedIsSealed
<1>2. m = 31 /\ Len(c) = m /\ \A i \in 1..m : c[i] = d[i]
  <2>1. m + 4 = 35 /\ Len(c) = m /\ \A i \in 1..m : c[i] = d[i]
    BY <1>1 DEF Sealed
  <2> QED
    BY <2>1
<1>3. PICK x \in 0..m, y \in 0..m : /\ x = Cardinality(Ones(c, 0)) /\ y = Cardinality(Ones(c, 1))
                                    /\ d[m + 1] = (x + 3 * y) % 256
  <2>1. Sums(d[m + 1], c, m, 0, 1)
    BY <1>1, SealedColumns, Zenon
  <2> QED
    BY <2>1 DEF Sums
<1>4. (x + 3 * y) % 256 = 102
  <2>1. d[32] = raw[32] /\ raw[32] = 102
    BY DEF Undamaged
  <2> QED
    BY <1>2, <1>3, <2>1
<1>5. y <= 22
  <2> DEFINE A == Positions(1, 4)
             B == Positions(8, 9)
             C == Positions(12, 18)
             D == Positions(21, 22)
             E == Positions(25, 31)
  <2>1. /\ IsFiniteSet(A) /\ Cardinality(A) = 4 /\ IsFiniteSet(B) /\ Cardinality(B) = 2
        /\ IsFiniteSet(C) /\ Cardinality(C) = 7 /\ IsFiniteSet(D) /\ Cardinality(D) = 2
        /\ IsFiniteSet(E) /\ Cardinality(E) = 7
    BY Span
  <2>2. Ones(c, 1) \subseteq (A \cup B) \cup ((C \cup D) \cup E)
    <3> SUFFICES ASSUME NEW k \in Ones(c, 1), k \notin (A \cup B) \cup ((C \cup D) \cup E)
                 PROVE  FALSE
      OBVIOUS
    <3>1. k \in 1..31 /\ Bit(c[k], 1) = 1
      BY <1>2 DEF Ones, Bytes
    <3>2. \/ k = 5 \/ k = 6 \/ k = 7 \/ k = 10 \/ k = 11
          \/ k = 19 \/ k = 20 \/ k = 23 \/ k = 24
      BY <3>1 DEF Positions
    <3>3. c[k] = raw[k]
      BY <1>2, <3>1, <3>2
    <3>4. raw[k] \in {4, 5, 9, 12, 13, 72, 73, 76, 81}
      BY <3>2 DEF Undamaged
    <3> QED
      BY <3>1, <3>3, <3>4, BitValues
  <2> HIDE DEF A, B, C, D, E
  <2>3. IsFiniteSet(A \cup B) /\ Cardinality(A \cup B) <= Cardinality(A) + Cardinality(B)
    BY <2>1, CountParts, Zenon
  <2>4. IsFiniteSet(C \cup D) /\ Cardinality(C \cup D) <= Cardinality(C) + Cardinality(D)
    BY <2>1, CountParts, Zenon
  <2>5. /\ IsFiniteSet((C \cup D) \cup E)
        /\ Cardinality((C \cup D) \cup E) <= Cardinality(C \cup D) + Cardinality(E)
    BY <2>1, <2>4, CountParts, Zenon
  <2> DEFINE Open == (A \cup B) \cup ((C \cup D) \cup E)
  <2>6. /\ IsFiniteSet(Open)
        /\ Cardinality(Open) <= Cardinality(A \cup B) + Cardinality((C \cup D) \cup E)
    BY <2>3, <2>5, CountParts, Zenon
  <2>7. /\ Cardinality(A \cup B) \in Nat /\ Cardinality(C \cup D) \in Nat
        /\ Cardinality((C \cup D) \cup E) \in Nat /\ Cardinality(Open) \in Nat
    BY <2>3, <2>4, <2>5, <2>6, FS_CardinalityType, Zenon
  <2>8. Cardinality(Open) <= 22
    BY <2>1, <2>3, <2>4, <2>5, <2>6, <2>7
  <2>9. Cardinality(Ones(c, 1)) <= Cardinality(Open)
    BY <2>2, <2>6, FS_Subset
  <2> QED
    BY <1>3, <2>9, <2>7, <2>8
<1> QED
  BY <1>2, <1>4, <1>5

\* A byte 7 more than a LOG: only the text and what was the CRC can have ones in the last
\* column of the checksum, which is less than 7.
LEMMA LongerLog ==
    ASSUME NEW n \in {0, 2}, NEW raw \in Bytes, Undamaged("LOG", n, raw),
           NEW d \in Bytes, Len(d) = 21 + n, d[21 + n] = 7, d[16] \in 0..63,
           \A k \in 1..16 + n : k # 16 => d[k] = raw[k]
    PROVE  ~decode_raw(d).ok
<1> SUFFICES ASSUME decode_raw(d).ok PROVE FALSE
  OBVIOUS
<1>1. PICK m \in Nat, c \in Bytes : Sealed(d, m, c)
  BY AcceptedIsSealed
<1>2. m + 4 = 21 + n /\ Len(c) = m /\ \A i \in 1..m : c[i] = d[i]
  BY <1>1 DEF Sealed
<1>6. m = 17 + n /\ DOMAIN c = 1..m
  BY <1>2 DEF Bytes
<1>3. PICK x \in 0..m, y \in 0..m : /\ x = Cardinality(Ones(c, 6)) /\ y = Cardinality(Ones(c, 7))
                                    /\ d[m + 4] = (x + 3 * y) % 256
  <2>1. Sums(d[m + 4], c, m, 6, 7)
    BY <1>1, SealedColumns, Zenon
  <2> QED
    BY <2>1 DEF Sums
<1>4. (x + 3 * y) % 256 = 7
  BY <1>2, <1>3
<1>5. /\ \A k \in 1..16 : c[k] \in 0..63
      /\ \A k \in 1..16 + n : c[k] \in 0..127
  <2>1. \A k \in 1..15 : raw[k] \in 0..63
    BY DEF Undamaged
  <2>2. n = 2 => raw[17] = 101 /\ raw[18] = 102
    BY DEF Undamaged
  <2>3. \A k \in 1..16 + n : k \in 1..m
    BY <1>6
  <2>4. \A k \in 1..16 : c[k] \in 0..63
    <3> SUFFICES ASSUME NEW k \in 1..16 PROVE c[k] \in 0..63
      OBVIOUS
    <3>1. c[k] = d[k] /\ (k = 16 \/ (k \in 1..15 /\ d[k] = raw[k]))
      BY <1>2, <2>3
    <3> QED
      BY <2>1, <3>1
  <2>5. n = 2 => c[17] \in 0..127 /\ c[18] \in 0..127
    <3> SUFFICES ASSUME n = 2 PROVE c[17] \in 0..127 /\ c[18] \in 0..127
      OBVIOUS
    <3>1. c[17] = 101 /\ c[18] = 102
      BY <1>2, <2>2, <2>3
    <3> QED
      BY <3>1
  <2>6. \A k \in 1..16 + n : c[k] \in 0..127
    <3> SUFFICES ASSUME NEW k \in 1..16 + n PROVE c[k] \in 0..127
      OBVIOUS
    <3>1. k \in 1..16 \/ (n = 2 /\ (k = 17 \/ k = 18))
      OBVIOUS
    <3>2. c[k] \in 0..63 => c[k] \in 0..127
      OBVIOUS
    <3> QED
      BY <2>4, <2>5, <3>1, <3>2, ZenonT(30)
  <2> QED
    BY <2>4, <2>6
<1>7. x <= n + 1
  <2>1. Ones(c, 6) \subseteq Positions(17, m)
    <3> SUFFICES ASSUME NEW k \in Ones(c, 6), k \notin 17..m PROVE FALSE
      BY DEF Positions
    <3>1. k \in 1..m /\ Bit(c[k], 6) = 1
      BY <1>6 DEF Ones
    <3>2. k \in 1..16
      BY <1>6, <3>1
    <3>3. Bit(c[k], 6) = 0
      BY <1>5, <3>2, BitValues, Zenon
    <3> QED
      BY <3>1, <3>3
  <2>2. IsFiniteSet(Positions(17, m)) /\ Cardinality(Positions(17, m)) = n + 1
    <3>1. 17 \in Int /\ m \in Int /\ 17 <= m + 1 /\ m - 17 + 1 = n + 1
      BY <1>6
    <3> QED
      BY <3>1, Span
  <2>3. Cardinality(Ones(c, 6)) <= Cardinality(Positions(17, m))
    BY <2>1, <2>2, FS_Subset
  <2> QED
    BY <1>3, <2>2, <2>3
<1>8. y <= 1
  <2>1. Ones(c, 7) \subseteq Positions(m, m)
    <3> SUFFICES ASSUME NEW k \in Ones(c, 7), k \notin m..m PROVE FALSE
      BY DEF Positions
    <3>1. k \in 1..m /\ Bit(c[k], 7) = 1
      BY <1>6 DEF Ones
    <3>2. k \in 1..16 + n
      BY <1>6, <3>1
    <3>3. Bit(c[k], 7) = 0
      BY <1>5, <3>2, BitValues, Zenon
    <3> QED
      BY <3>1, <3>3
  <2>2. IsFiniteSet(Positions(m, m)) /\ Cardinality(Positions(m, m)) = 1
    <3>1. m \in Int /\ m <= m + 1 /\ m - m + 1 = 1
      OBVIOUS
    <3> QED
      BY <3>1, Span
  <2>3. Cardinality(Ones(c, 7)) <= Cardinality(Positions(m, m))
    BY <2>1, <2>2, FS_Subset
  <2> QED
    BY <1>3, <2>2, <2>3
<1> QED
  BY <1>4, <1>7, <1>8

\* A byte less than a LOG of two: its first column is less than what is left of the text.
LEMMA ShorterLog ==
    ASSUME NEW raw \in Bytes, Undamaged("LOG", 2, raw),
           NEW d \in Bytes, Len(d) = 21, d[18] = raw[18]
    PROVE  ~decode_raw(d).ok
<1> SUFFICES ASSUME decode_raw(d).ok PROVE FALSE
  OBVIOUS
<1>1. PICK m \in Nat, c \in Bytes : Sealed(d, m, c)
  BY AcceptedIsSealed
<1>2. m = 17
  <2>1. m + 4 = 21
    BY <1>1 DEF Sealed
  <2> QED
    BY <2>1
<1>3. PICK x \in 0..m, y \in 0..m : d[m + 1] = (x + 3 * y) % 256
  <2>1. Sums(d[m + 1], c, m, 0, 1)
    BY <1>1, SealedColumns, Zenon
  <2> QED
    BY <2>1 DEF Sums
<1>4. d[18] = 102
  BY DEF Undamaged
<1> QED
  BY <1>2, <1>3, <1>4

\* raw with byte p, if it is not one of the CRC's, changed to value.
Near(d, raw, p, value) ==
    \A k \in 1..Len(raw) - 1 : d[k] = raw[k] \/ (k = p /\ d[k] = value)

\* Numbers of the sizes below.
LEMMA SmallSizes ==
    /\ \A n \in {0, 2} : n + 1 \in 0..63
    /\ \A l \in Nat : l >= 34 => \A k \in 17..29 : k \in 1..l - 1 /\ k # 30
OBVIOUS

\* Cut by a byte or a byte 7 longer, none of the run's frames is accepted, whichever byte
\* before has changed.
LEMMA ResizedRejected ==
    ASSUME NEW ty \in {"HELLO", "OBS", "STATUS", "LOG"}, NEW n \in {0, 2}, NEW raw \in Bytes,
           Undamaged(ty, n, raw), NEW p \in Nat, NEW value \in U8,
           NEW longer \in {-1, 1}, NEW d \in Bytes, Len(d) = Len(raw) + longer,
           Near(d, raw, p, value), longer = 1 => d[Len(d)] = 7
    PROVE  ~decode_raw(d).ok
<1> SUFFICES ASSUME decode_raw(d).ok PROVE FALSE
  OBVIOUS
<1>1. PICK l \in Nat : l = Len(raw)
  BY DEF Bytes
<1>2. Measured(d, l + longer) /\ l + longer >= 18 /\ Len(d) = l + longer
  BY <1>1, AcceptedIsSealed
<1>8. \A k \in 1..l + longer : d[k] \in Nat
  BY <1>2 DEF Bytes
<1>3. /\ d[2] = raw[2] \/ p = 2
      /\ d[16] = raw[16] \/ p = 16
      /\ l >= 34 => d[30] = raw[30] \/ p = 30
  BY <1>1, <1>2 DEF Near
<1>9. n \in Nat /\ n <= 2 /\ longer \in Int /\ longer # 0 /\ longer <= 1
  OBVIOUS
<1>4. CASE ty = "HELLO"
  <2>1. l = 49 /\ raw[2] = 1 /\ raw[16] = 22 /\ raw[30] = 36
    BY <1>1, <1>4 DEF Undamaged
  <2>2. d[2] # 1
    BY <1>2, <2>1 DEF Measured
  <2>3. d[16] = 22 /\ d[30] = 36
    BY <1>3, <2>1, <2>2
  <2> QED
    BY <1>2, <2>1, <2>2, <2>3 DEF Measured
<1>5. CASE ty = "STATUS"
  <2>1. l = 66 /\ raw[2] = 3 /\ raw[16] = 22 /\ raw[30] = 54
    BY <1>1, <1>5 DEF Undamaged
  <2>2. d[2] # 3
    BY <1>2, <2>1 DEF Measured
  <2>3. d[16] = 22 /\ d[30] = 54
    BY <1>3, <2>1, <2>2
  <2> QED
    BY <1>2, <2>1, <2>2, <2>3 DEF Measured
<1>6. CASE ty = "OBS"
  <2>1. l = 34 + n /\ raw[2] = 2 /\ raw[16] = 63 /\ raw[30] = n
    BY <1>1, <1>6 DEF Undamaged
  <2>2. p = 30 /\ d[30] = n + longer /\ d[30] \in Nat
    <3>1. d[30] \in Nat
      <4>1. 30 \in 1..l + longer
        BY <1>2, <2>1
      <4> QED
        BY <1>8, <4>1
    <3>2. d[2] # 4
      <4> SUFFICES ASSUME d[2] = 4 PROVE FALSE
        OBVIOUS
      <4>1. d[16] = 63
        BY <1>3, <2>1
      <4>2. l + longer = 20 + d[16]
        BY <1>2 DEF Measured
      <4> QED
        BY <2>1, <4>1, <4>2
    <3>3. d[2] # 1 /\ d[2] # 3
      BY <1>2, <2>1 DEF Measured
    <3>4. l + longer = 34 + d[30]
      BY <1>2, <3>2, <3>3 DEF Measured
    <3>5. d[30] = n + longer /\ d[30] # n
      <4>1. PICK e \in Nat : e = d[30]
        BY <3>1
      <4>2. l + longer = 34 + e /\ l = 34 + n
        BY <2>1, <3>4, <4>1
      <4>3. e = n + longer /\ e # n
        BY <1>1, <1>9, <4>2
      <4> QED
        BY <4>1, <4>3
    <3> QED
      BY <1>3, <2>1, <3>1, <3>5
  <2>3. \A k \in 1..l - 1 : k # 30 => d[k] = raw[k]
    BY <1>1, <2>2 DEF Near
  <2>4. CASE longer = 1
    <3>1. Len(d) = 35 + n /\ d[35 + n] = 7
      BY <1>1, <2>1, <2>4
    <3>2. \A k \in 17..29 : d[k] = raw[k]
      <4>1. l >= 34
        BY <1>9, <2>1
      <4>2. \A k \in 17..29 : k \in 1..l - 1 /\ k # 30
        BY <1>1, <4>1, SmallSizes, Zenon
      <4> QED
        BY <2>3, <4>2
    <3> QED
      BY <1>6, <3>1, <3>2, LongerObs
  <2>5. CASE longer = -1
    <3>1. n = 2
      BY <2>2, <2>5
    <3>2. Len(d) = 35 /\ \A k \in 1..35 : k # 30 => d[k] = raw[k]
      BY <1>1, <2>1, <2>3, <2>5, <3>1
    <3> QED
      BY <1>6, <3>1, <3>2, ShorterObs
  <2> QED
    BY <2>4, <2>5
<1>7. CASE ty = "LOG"
  <2>1. l = 20 + n /\ raw[2] = 4 /\ raw[16] = n
    BY <1>1, <1>7 DEF Undamaged
  <2>2. p = 16 /\ d[16] = n + longer /\ d[16] \in Nat
    <3>1. d[16] \in Nat
      <4>1. 16 \in 1..l + longer
        BY <1>2, <2>1
      <4> QED
        BY <1>8, <4>1
    <3>2. d[2] # 1 /\ d[2] # 2 /\ d[2] # 3
      BY <1>2, <2>1 DEF Measured
    <3>3. l + longer = 20 + d[16]
      BY <1>2, <3>2 DEF Measured
    <3>4. d[16] = n + longer /\ d[16] # n
      <4>1. PICK e \in Nat : e = d[16]
        BY <3>1
      <4>2. l + longer = 20 + e /\ l = 20 + n
        BY <2>1, <3>3, <4>1
      <4>3. e = n + longer /\ e # n
        BY <1>1, <1>9, <4>2
      <4> QED
        BY <4>1, <4>3
    <3> QED
      BY <1>3, <2>1, <3>1, <3>4
  <2>3. \A k \in 1..l - 1 : k # 16 => d[k] = raw[k]
    BY <1>1, <2>2 DEF Near
  <2>4. CASE longer = 1
    <3>1. Len(d) = 21 + n /\ d[21 + n] = 7
      BY <1>1, <2>1, <2>4
    <3>3. d[16] \in 0..63
      <4>1. d[16] = n + 1
        BY <2>2, <2>4
      <4>2. n + 1 \in 0..63
        BY SmallSizes, Zenon
      <4> QED
        BY <4>1, <4>2
    <3>2. \A k \in 1..16 + n : k # 16 => d[k] = raw[k]
      BY <2>1, <2>3
    <3> QED
      BY <1>7, <3>1, <3>2, <3>3, LongerLog
  <2>5. CASE longer = -1
    <3>1. n = 2
      BY <2>2, <2>5
    <3>2. Len(d) = 21 /\ d[18] = raw[18]
      BY <1>1, <2>1, <2>3, <2>5, <3>1
    <3> QED
      BY <1>7, <3>1, <3>2, ShorterLog
  <2> QED
    BY <2>4, <2>5
<1> QED
  BY <1>4, <1>5, <1>6, <1>7

\* The frames of octets are octets.
LEMMA RawOctets ==
    ASSUME NEW f \in DeviceFrames,
           f.ty = "OBS" => f.payload.pack \in Seq(U8), f.ty = "LOG" => f.payload.text \in Seq(U8),
           NEW raw, encode_raw(f, MAX_RAW) = Some(raw)
    PROVE  raw \in Seq(U8)
<1>1. \A x, y \in Seq(U8) : x \o y \in Seq(U8)
  BY ConcatProperties
<1>2. \A n \in Nat : Octets(n) \subseteq Seq(U8)
  <2> SUFFICES ASSUME NEW n \in Nat, NEW x \in [1..n -> U8] PROVE x \in Seq(U8)
    BY DEF Octets
  <2> QED
    OBVIOUS
<1>3. \A b \in U8 : <<b>> \in Seq(U8)
  OBVIOUS
<1>4. /\ f.ty \in DOMAIN Types /\ f.seq \in Seq(U8) /\ f.t_dev_us \in Seq(U8)
  BY <1>2 DEF DeviceFrames, FramesOf, Types
<1> DEFINE opt == PayloadBytes(f.ty, f.payload)
           p == opt[1]
           head == <<VERSION, Types[f.ty]>> \o f.seq \o f.t_dev_us
<1>5. opt # None /\ raw = WithCrc(head \o p)
  <2> DEFINE made == WithCrc(head \o p)
  <2>1. encode_raw(f, MAX_RAW) = IF opt = None THEN None
                                 ELSE IF Len(made) <= MAX_RAW THEN Some(made) ELSE None
    BY DEF encode_raw
  <2> HIDE DEF opt, made
  <2>2. opt # None /\ Some(made) = Some(raw)
    BY <2>1 DEF Some, None
  <2>3. made = raw
    BY <2>2 DEF Some
  <2> QED
    BY <2>2, <2>3 DEF made
<1>6. p \in Seq(U8)
  <2>1. CASE f \in FramesOf("HELLO", HelloPayload)
    <3> DEFINE P == f.payload
    <3>1. f.ty = "HELLO" /\ P \in HelloPayload
      BY <2>1 DEF FramesOf
    <3>2. p = P.fw_version \o P.git_sha \o P.device_mac \o P.boot_channel
      <4>1. opt = Some(P.fw_version \o P.git_sha \o P.device_mac \o P.boot_channel)
        BY <3>1 DEF PayloadBytes
      <4> HIDE DEF opt
      <4> QED
        BY <4>1 DEF Some
    <3>3. /\ P.fw_version \in Seq(U8) /\ P.git_sha \in Seq(U8) /\ P.device_mac \in Seq(U8)
          /\ P.boot_channel \in Seq(U8)
      BY <1>2, <3>1 DEF HelloPayload
    <3> HIDE DEF P, p
    <3> QED
      BY <1>1, <3>2, <3>3
  <2>2. CASE f \in FramesOf("OBS", ObsPayload)
    <3> DEFINE P == f.payload
    <3>1. f.ty = "OBS" /\ P \in ObsPayload
      BY <2>2, SMTT(30) DEF FramesOf
    <3>2. /\ Len(P.pack) <= PACK_CAP
          /\ p = P.channel \o P.rssi_dbm \o P.source \o P.src_mac \o P.msg_counter
                 \o P.t_mac_us \o P.ie_len \o <<Len(P.pack)>> \o P.pack
      <4> DEFINE made == P.channel \o P.rssi_dbm \o P.source \o P.src_mac \o P.msg_counter
                         \o P.t_mac_us \o P.ie_len \o <<Len(P.pack)>> \o P.pack
      <4>1. opt = IF Len(P.pack) > PACK_CAP THEN None ELSE Some(made)
        BY <3>1 DEF PayloadBytes
      <4>2. Len(P.pack) \in Nat
        BY <3>1 DEF ObsPayload, Bytes
      <4> HIDE DEF opt, made
      <4>3. Len(P.pack) <= PACK_CAP /\ opt = Some(made)
        BY <1>5, <4>1, <4>2 DEF PACK_CAP
      <4> QED
        BY <4>3 DEF Some, made
    <3>3. /\ P.channel \in Seq(U8) /\ P.rssi_dbm \in Seq(U8) /\ P.source \in Seq(U8)
          /\ P.src_mac \in Seq(U8) /\ P.msg_counter \in Seq(U8) /\ P.t_mac_us \in Seq(U8)
          /\ P.ie_len \in Seq(U8)
      BY <1>2, <3>1 DEF ObsPayload
    <3>4. P.pack \in Seq(U8) /\ <<Len(P.pack)>> \in Seq(U8)
      <4>1. Len(P.pack) \in U8
        <5>1. Len(P.pack) \in Nat
          BY <3>1 DEF ObsPayload, Bytes
        <5>2. \A m \in Nat : m <= PACK_CAP => m \in U8
          BY DEF PACK_CAP, U8
        <5> HIDE DEF P
        <5> QED
          BY <3>2, <5>1, <5>2, Zenon
      <4> QED
        BY <1>3, <3>1, <4>1
    <3> HIDE DEF P, p
    <3> QED
      BY <1>1, <3>2, <3>3, <3>4
  <2>3. CASE f \in FramesOf("STATUS", StatusPayload)
    <3> DEFINE P == f.payload
    <3>1. f.ty = "STATUS" /\ P \in StatusPayload
      BY <2>3, SMTT(30) DEF FramesOf
    <3>2. p = P.uptime_s \o P.channel \o P.mode \o P.tracks_active \o <<0>>
              \o P.heap_free \o P.counters
      <4>1. opt = Some(P.uptime_s \o P.channel \o P.mode \o P.tracks_active \o <<0>>
                       \o P.heap_free \o P.counters)
        BY <3>1 DEF PayloadBytes
      <4> HIDE DEF opt
      <4> QED
        BY <4>1 DEF Some
    <3>3. /\ P.uptime_s \in Seq(U8) /\ P.channel \in Seq(U8) /\ P.mode \in Seq(U8)
          /\ P.tracks_active \in Seq(U8) /\ P.heap_free \in Seq(U8) /\ P.counters \in Seq(U8)
      BY <1>2, <3>1 DEF StatusPayload
    <3>4. <<0>> \in Seq(U8)
      BY <1>3 DEF U8
    <3> HIDE DEF P, p
    <3> QED
      BY <1>1, <3>2, <3>3, <3>4
  <2>4. CASE f \in FramesOf("LOG", LogPayload)
    <3> DEFINE P == f.payload
    <3>1. f.ty = "LOG" /\ P \in LogPayload
      BY <2>4 DEF FramesOf
    <3>2. Len(P.text) <= LOG_TEXT_CAP /\ p = P.level \o <<Len(P.text)>> \o P.text
      <4> DEFINE made == P.level \o <<Len(P.text)>> \o P.text
      <4>1. opt = IF Len(P.text) > LOG_TEXT_CAP THEN None ELSE Some(made)
        BY <3>1 DEF PayloadBytes
      <4>2. Len(P.text) \in Nat
        BY <3>1 DEF LogPayload, Bytes
      <4> HIDE DEF opt, made
      <4>3. Len(P.text) <= LOG_TEXT_CAP /\ opt = Some(made)
        BY <1>5, <4>1, <4>2 DEF LOG_TEXT_CAP
      <4> QED
        BY <4>3 DEF Some, made
    <3>3. P.level \in Seq(U8)
      BY <1>2, <3>1 DEF LogPayload
    <3>4. P.text \in Seq(U8) /\ <<Len(P.text)>> \in Seq(U8)
      <4>1. Len(P.text) \in U8
        <5>1. Len(P.text) \in Nat
          BY <3>1 DEF LogPayload, Bytes
        <5>2. \A m \in Nat : m <= LOG_TEXT_CAP => m \in U8
          BY DEF LOG_TEXT_CAP, U8
        <5> HIDE DEF P
        <5> QED
          BY <3>2, <5>1, <5>2, Zenon
      <4> QED
        BY <1>3, <3>1, <4>1
    <3> HIDE DEF P, p
    <3> QED
      BY <1>1, <3>2, <3>3, <3>4
  <2> QED
    BY <2>1, <2>2, <2>3, <2>4 DEF DeviceFrames
<1>7. <<VERSION, Types[f.ty]>> \in Seq(U8)
  <2>1. VERSION \in U8
    BY DEF VERSION, U8
  <2>2. Types[f.ty] \in U8
    <3>1. \A ty \in DOMAIN Types : Types[ty] \in 1..4
      BY DEF Types
    <3>2. 1..4 \subseteq U8
      BY DEF U8
    <3> QED
      BY <1>4, <3>1, <3>2
  <2> QED
    BY <2>1, <2>2
<1> DEFINE body == head \o p
<1>8. body \in Seq(U8)
  BY <1>1, <1>4, <1>6, <1>7
<1>9. crc32(body) \in Seq(U8)
  <2> HIDE DEF body
  <2>1. body \in Bytes
    BY <1>8, OctetBytes
  <2> QED
    BY <1>2, <2>1, CrcBytes
<1> QED
  BY <1>1, <1>5, <1>8, <1>9 DEF WithCrc

\* The first n bytes of a string and one byte 7.
LEMMA CutOrLonger ==
    ASSUME NEW h \in Bytes, NEW n \in Nat, n <= Len(h) + 1
    PROVE  LET d == SubSeq(h \o <<7>>, 1, n) IN
           /\ d \in Bytes /\ Len(d) = n
           /\ \A k \in 1..n : d[k] = IF k <= Len(h) THEN h[k] ELSE 7
<1> DEFINE s == h \o <<7>>
           d == SubSeq(s, 1, n)
<1>1. Len(h) \in Nat
  BY DEF Bytes
<1>2. /\ s \in Bytes /\ Len(s) = Len(h) + 1
      /\ \A k \in 1..Len(h) + 1 : s[k] = IF k <= Len(h) THEN h[k] ELSE 7
  <2>1. h \in Seq(Nat) /\ <<7>> \in Seq(Nat) /\ Len(<<7>>) = 1 /\ <<7>>[1] = 7
    BY DEF Bytes
  <2>2. /\ s \in Seq(Nat) /\ Len(s) = Len(h) + 1
        /\ \A k \in 1..Len(h) + 1 : s[k] = IF k <= Len(h) THEN h[k] ELSE <<7>>[k - Len(h)]
    BY <2>1, ConcatProperties
  <2>3. \A k \in 1..Len(h) + 1 : k <= Len(h) \/ k - Len(h) = 1
    BY <1>1
  <2> QED
    BY <2>1, <2>2, <2>3 DEF Bytes
<1> HIDE DEF s
<1>3. /\ d \in Bytes /\ Len(d) = n - 1 + 1
      /\ \A k \in 1..n - 1 + 1 : d[k] = s[1 + k - 1]
  BY <1>1, <1>2, CutBytes
<1>4. n - 1 + 1 = n /\ \A k \in 1..n : 1 + k - 1 = k /\ k \in 1..Len(h) + 1
  BY <1>1
<1> HIDE DEF d
<1>5. d \in Bytes /\ Len(d) = n /\ \A k \in 1..n : d[k] = IF k <= Len(h) THEN h[k] ELSE 7
  BY <1>2, <1>3, <1>4
<1> QED
  BY <1>5 DEF d, s

\* What the run makes of a frame: bytes, and no frame unless it is the one encoded.
LEMMA DamageSeen ==
    ASSUME NEW i \in DamageInputs
    PROVE  /\ DamagedRaw(i) \in Bytes
           /\ ~i.crc /\ decode_raw(DamagedRaw(i)).ok
                  => DamagedRaw(i) = encode_raw(FrameFor(i), MAX_RAW)[1]
<1>1. /\ i.n \in {0, 2} /\ i.ty \in {"HELLO", "OBS", "STATUS", "LOG"} /\ i.style = "rising"
      /\ i.at \in Nat /\ i.at >= 1 /\ i.value \in U8 /\ i.longer \in {-1, 0, 1} /\ i.crc \in BOOLEAN
  BY DEF DamageInputs, Types, U8
<1> DEFINE f == FrameFor(i)
<1>2. f \in DeviceFrames
  <2>1. i.n \in Nat
    BY <1>1
  <2> QED
    BY <1>1, <2>1, FramesAreFrames
<1>3. f.ty = i.ty /\ f.payload = Payload(i.ty, i.style, i.n)
  BY DEF FrameFor
<1>4. /\ f.ty = "OBS" => f.payload.pack = Fill(i.style, i.n, 100)
      /\ f.ty = "LOG" => f.payload.text = Fill(i.style, i.n, 100)
  <2> HIDE DEF f
  <2> QED
    BY <1>3 DEF Payload
<1>5. Fill(i.style, i.n, 100) \in Seq(U8) /\ Len(Fill(i.style, i.n, 100)) <= 2
  <2>1. i.n \in Nat /\ i.n <= 2
    BY <1>1
  <2>2. Fill(i.style, i.n, 100) \in [1..i.n -> U8]
    BY <2>1 DEF Fill, U8
  <2> HIDE DEF Fill
  <2> QED
    BY <2>1, <2>2
<1> HIDE DEF f
<1>6. ~Capped(f)
  BY <1>4, <1>5 DEF Capped, PACK_CAP, LOG_TEXT_CAP
<1>7. PICK raw \in Bytes : /\ encode_raw(f, MAX_RAW) = Some(raw)
                           /\ Len(raw) \in HEADER_LEN + 4..MAX_RAW
                           /\ decode_raw(raw) = Ok(f)
                           /\ LaidOut(f, raw)
  BY <1>2, <1>6, RawSurvives
<1>8. raw \in Seq(U8)
  BY <1>2, <1>4, <1>5, <1>7, RawOctets
<1>9. PICK l \in Nat : l = Len(raw) /\ l >= 18
  <2>1. Len(raw) \in Nat
    BY DEF Bytes
  <2> QED
    BY <1>7, <2>1 DEF HEADER_LEN
<1> DEFINE hit == IF i.at <= Len(raw) - 4 THEN [raw EXCEPT ![i.at] = i.value] ELSE raw
           n == l - 4 + i.longer
           d == SubSeq(hit \o <<7>>, 1, n + 4)
           body == SubSeq(hit \o <<7>>, 1, n)
<1>10. DamagedRaw(i) = IF i.crc THEN WithCrc(body) ELSE d
  <2>1. encode_raw(FrameFor(i), MAX_RAW)[1] = raw
    BY <1>7 DEF Some, f
  <2> QED
    BY <1>9, <2>1 DEF DamagedRaw
<1>11. hit \in Bytes /\ Len(hit) = l /\ \A k \in 1..l : hit[k] = IF k = i.at /\ k <= l - 4 THEN i.value ELSE raw[k]
  <2>1. i.value \in Nat
    BY <1>1 DEF U8
  <2> QED
    BY <1>1, <1>9, <2>1 DEF Bytes
<1>12. i.at <= l - 4 /\ i.value # raw[i.at] => ~decode_raw(hit).ok
  <2> SUFFICES ASSUME i.at <= l - 4, i.value # raw[i.at]
               PROVE  ~decode_raw([raw EXCEPT ![i.at] = i.value]).ok
    BY <1>9
  <2>1. i.at \in DOMAIN raw /\ raw[i.at] \in U8
    BY <1>1, <1>8, <1>9
  <2>2. decode_raw(raw).ok
    BY <1>7 DEF Ok
  <2> QED
    BY <1>1, <2>1, <2>2, ChangeRejected
<1>13. i.at > l - 4 \/ i.value = raw[i.at] => hit = raw
  BY <1>1, <1>9 DEF Bytes
<1> HIDE DEF hit
<1>14. n \in Nat /\ n + 4 \in Nat /\ n + 4 = l + i.longer /\ n + 4 <= l + 1 /\ n <= l + 1
  BY <1>1, <1>9
<1>15. /\ d \in Bytes /\ Len(d) = l + i.longer
       /\ \A k \in 1..l + i.longer : d[k] = IF k <= l THEN hit[k] ELSE 7
  <2> HIDE DEF n
  <2> QED
    BY <1>11, <1>14, CutOrLonger
<1>16. body \in Bytes
  <2> HIDE DEF n
  <2> QED
    BY <1>11, <1>14, CutOrLonger
<1> HIDE DEF d, body, n
<1>17. DamagedRaw(i) \in Bytes
  BY <1>10, <1>15, <1>16, CrcRead
<1>18. ASSUME ~i.crc, decode_raw(d).ok PROVE d = raw
  <2>1. CASE i.longer = 0
    <3>1. d = hit
      <4>1. d \in Bytes /\ hit \in Bytes /\ Len(d) = l /\ Len(hit) = l
            /\ \A k \in 1..l : d[k] = hit[k]
        BY <1>9, <1>11, <1>15, <2>1
      <4> QED
        BY <4>1 DEF Bytes
    <3>2. i.at <= l - 4 => i.value = raw[i.at]
      BY <1>12, <1>18, <3>1
    <3>3. i.at > l - 4 \/ i.value = raw[i.at]
      BY <1>1, <1>9, <3>2
    <3> QED
      BY <1>13, <3>1, <3>3
  <2>2. CASE i.longer # 0
    <3>1. i.longer \in {-1, 1}
      BY <1>1, <2>2
    <3>2. Undamaged(i.ty, i.n, raw)
      BY <1>7, DamageUndamaged DEF f
    <3>3. Near(d, raw, i.at, i.value)
      <4>1. \A k \in 1..l - 1 : k \in 1..l /\ k \in 1..l + i.longer /\ k <= l
        BY <1>9, <3>1
      <4>2. \A k \in 1..l - 1 : d[k] = raw[k] \/ (k = i.at /\ d[k] = i.value)
        BY <1>11, <1>15, <4>1
      <4> QED
        BY <1>9, <4>2 DEF Near
    <3>4. i.longer = 1 => d[Len(d)] = 7
      <4>1. i.longer = 1 => /\ l + i.longer \in 1..l + i.longer /\ ~(l + i.longer <= l)
        BY <1>9
      <4> QED
        BY <1>15, <4>1
    <3>5. Len(d) = Len(raw) + i.longer
      BY <1>9, <1>15
    <3>6. ~decode_raw(d).ok
      BY <1>1, <1>15, <3>1, <3>2, <3>3, <3>4, <3>5, ResizedRejected
    <3> QED
      BY <1>18, <3>6
  <2> QED
    BY <2>1, <2>2
<1>19. encode_raw(FrameFor(i), MAX_RAW)[1] = raw
  BY <1>7 DEF Some, f
<1> QED
  BY <1>10, <1>17, <1>18, <1>19

\* Whatever bytes arrive, decode_raw accepts frames only, and of the run's damaged frames it
\* accepts those whose damage changed nothing.
THEOREM FormatsDamage ==
    (\A raw \in Bytes : OnlyFramesDecode(raw)) /\ (FormatSpec => []DecodesOnlyFrames)
<1>1. InputOK => DecodesOnlyFrames
  <2> SUFFICES ASSUME InputOK, input.of = "damage" PROVE DecodesOnlyFrames
    BY DEF DecodesOnlyFrames
  <2>1. input \in DamageInputs
    BY DEF InputOK, NoInput, Inputs, FrameInputs, MessageInputs, BeaconInputs, PackInputs, SentInputs
  <2>2. OnlyFramesDecode(DamagedRaw(input))
    BY <2>1, DamageSeen, DecodesOnlyEncoded
  <2> QED
    BY <2>1, <2>2, DamageSeen DEF DecodesOnlyFrames
<1> QED
  BY <1>1, FormatInductive, DecodesOnlyEncoded, PTL DEF FormatSpec
=====================================================================================
