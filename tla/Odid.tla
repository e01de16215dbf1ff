------------------------------------ MODULE Odid ------------------------------------
(***************************************************************************)
(* Remote ID in a beacon (crates/odid/src: beacon.rs, pack.rs, encode.rs): *)
(* the walk over the information elements of a management frame, and the   *)
(* pack of messages in the first Remote ID element.                        *)
(*                                                                         *)
(* AnyOuiType and AnyType are wrong variants of the definitions that       *)
(* follow them.                                                            *)
(***************************************************************************)
EXTENDS Integers, SequencesExt, Option

MESSAGE_SIZE == 25
MAX_PACK_MESSAGES == 9
ASTM_OUI == <<250, 11, 188>>
ODID_OUI_TYPE == 13
VENDOR == 221
BEACON == 128
HEAD == 36    \* the bytes of a beacon before its elements

Failed(e) == [ok |-> FALSE, err |-> e]

AnyOuiType(id, body) ==
    id = VENDOR /\ Len(body) >= 5 /\ SubSeq(body, 1, 3) = ASTM_OUI
IsRid(id, body) ==
    id = VENDOR /\ Len(body) >= 5 /\ SubSeq(body, 1, 3) = ASTM_OUI /\ body[4] = ODID_OUI_TYPE

parse_beacon(mpdu) ==
    LET n == Len(mpdu)
        body(i) == SubSeq(mpdu, i + 2, i + 1 + mpdu[i + 1])
        from[i \in HEAD + 1..n + 1] ==
            IF i > n THEN Failed("NotRemoteId")
            ELSE IF i = n \/ i + 1 + mpdu[i + 1] > n THEN Failed("TruncatedIe")
            ELSE IF IsRid(mpdu[i], body(i))
            THEN [ok |-> TRUE, src_mac |-> SubSeq(mpdu, 11, 16), msg_counter |-> body(i)[5],
                  pack |-> SubSeq(body(i), 6, Len(body(i)))]
            ELSE from[i + 2 + mpdu[i + 1]]
    IN  IF n < HEAD THEN Failed("TooShort")
        ELSE IF mpdu[1] # BEACON THEN Failed("NotBeacon")
        ELSE from[HEAD + 1]

\* MAX_PER_TYPE: Basic ID, Location, Authentication, Self-ID, System, Operator ID.
MaxPerType == [t \in 0..5 |-> CASE t = 0 -> 2 [] t = 2 -> 16 [] OTHER -> 1]

TypeOf(msg) == msg[1] \div 16

AnyType(msgs) ==
    \A t \in DOMAIN MaxPerType :
        Cardinality({k \in DOMAIN msgs : TypeOf(msgs[k]) = t}) <= MaxPerType[t]
\* Every message is of a known type and none comes too often.
ContentOK(msgs) ==
    /\ \A k \in DOMAIN msgs : TypeOf(msgs[k]) \in DOMAIN MaxPerType
    /\ \A t \in DOMAIN MaxPerType :
           Cardinality({k \in DOMAIN msgs : TypeOf(msgs[k]) = t}) <= MaxPerType[t]

parse_pack(pack) ==
    LET msgs == [k \in 1..pack[3] |->
                    SubSeq(pack, MESSAGE_SIZE * (k - 1) + 4, MESSAGE_SIZE * k + 3)]
    IN  IF Len(pack) < 3 THEN Failed("TooShort")
        ELSE IF pack[1] \div 16 # 15 THEN Failed("NotAPack")
        ELSE IF pack[2] # MESSAGE_SIZE THEN Failed("BadMessageSize")
        ELSE IF pack[3] > MAX_PACK_MESSAGES THEN Failed("TooManyMessages")
        ELSE IF pack[3] = 0 THEN Failed("Empty")
        ELSE IF Len(pack) < 3 + MESSAGE_SIZE * pack[3] THEN Failed("Truncated")
        ELSE IF ContentOK(msgs) THEN [ok |-> TRUE, msgs |-> msgs]
        ELSE Failed("InvalidContent")

\* The encoder's side, with room enough in its buffers.
build_pack(msgs) ==
    IF Len(msgs) > MAX_PACK_MESSAGES THEN None
    ELSE Some(<<242, MESSAGE_SIZE, Len(msgs)>> \o FlattenSeq(msgs))

Of(n, b) == [i \in 1..n |-> b]

build_beacon(mac, counter, pack) ==
    IF Len(pack) + 5 > 255 THEN None
    ELSE Some(<<BEACON>> \o Of(3, 0) \o Of(6, 255) \o mac \o mac \o Of(14, 0)
           \o <<VENDOR, Len(pack) + 5>> \o ASTM_OUI \o <<ODID_OUI_TYPE, counter>> \o pack)

-----------------------------------------------------------------------------
(* Properties *)

ElementBytes(e) == <<e.id, Len(e.body)>> \o e.body

\* A beacon made of a head, elements and a tail that is no whole element: the
\* first Remote ID element decides, and nothing after it can reject it.
WalkFindsFirst(head, elements, tail) ==
    LET rids == {k \in DOMAIN elements :
                    /\ elements[k].id = VENDOR
                    /\ IsPrefix(Append(ASTM_OUI, ODID_OUI_TYPE), elements[k].body)
                    /\ Len(elements[k].body) > 4}
        first == elements[CHOOSE k \in rids : \A j \in rids : k <= j].body
        got == parse_beacon(head \o FlattenSeq([k \in DOMAIN elements |-> ElementBytes(elements[k])])
                                 \o tail)
    IN  IF rids # {}
        THEN got = [ok |-> TRUE, src_mac |-> SubSeq(head, 11, 16), msg_counter |-> first[5],
                    pack |-> SubSeq(first, 6, Len(first))]
        ELSE got = Failed(IF tail = <<>> THEN "NotRemoteId" ELSE "TruncatedIe")
=============================================================================
