-------------------------------- MODULE ReportProofs --------------------------------
(***************************************************************************)
(* Proofs about the way of a beacon from the antenna to the host's line,   *)
(* for every beacon: the walk over its elements, the pack it carries, and  *)
(* what the host says of it, whoever encoded the messages.                 *)
(*                                                                         *)
(* Induction runs as in FormatProofs, or from the first position on: a set *)
(* of positions that is closed upward from the start is all of them        *)
(* (Ascend).                                                               *)
(***************************************************************************)
EXTENDS FormatProofs

-----------------------------------------------------------------------------
(* Beacons: strings joined, and where each lies *)

\* From the beginning on: what holds of i if it holds of all that precede.
ClosedOn(S, N) == \A i \in 1..N : (\A j \in 1..i - 1 : j \in S) => i \in S

LEMMA Ascend ==
    ASSUME NEW N \in Nat, NEW S, ClosedOn(S, N)
    PROVE  1..N \subseteq S
<1> DEFINE Missing == {i \in Nat : i \in 1..N /\ i \notin S}
<1> SUFFICES ASSUME NEW i0 \in 1..N, i0 \notin S PROVE FALSE
  OBVIOUS
<1>1. PICK m \in Missing : \A x \in Missing : m <= x
  <2>1. Missing \in SUBSET Nat /\ i0 \in Missing
    OBVIOUS
  <2> HIDE DEF Missing
  <2> QED
    BY <2>1, Least
<1>2. \A j \in 1..m - 1 : j \in S
  <2> SUFFICES ASSUME NEW j \in 1..m - 1, j \notin S PROVE FALSE
    OBVIOUS
  <2>1. j \in Missing /\ ~(m <= j)
    OBVIOUS
  <2> QED
    BY <1>1, <2>1
<1> QED
  BY <1>2 DEF ClosedOn

FlatAt(seqs, g, i) == IF i = 1 THEN seqs[i] ELSE g[i - 1] \o seqs[i]

\* The strings up to each position joined, as FlattenSeq has it.
Flat(seqs) == CHOOSE g : g = [i \in 1..Len(seqs) |-> FlatAt(seqs, g, i)]

LEMMA FlatDefined ==
    ASSUME NEW seqs, Len(seqs) \in Nat, NEW i \in 1..Len(seqs)
    PROVE  Flat(seqs)[i] = FlatAt(seqs, Flat(seqs), i)
<1> DEFINE N == Len(seqs)
           Fun(l, g) == g = [j \in 1..l |-> FlatAt(seqs, g, j)]
           S == {l \in 1..N : \E g : Fun(l, g)}
<1>1. ASSUME NEW l \in 1..N, \A j \in 1..l - 1 : j \in S PROVE l \in S
  <2>1. PICK g : l > 1 => Fun(l - 1, g)
    <3>1. CASE l > 1
      <4>1. l - 1 \in S
        BY <1>1, <3>1
      <4> QED
        BY <4>1
    <3>2. CASE ~(l > 1)
      BY <3>2
    <3> QED
      BY <3>1, <3>2
  <2> DEFINE h == [j \in 1..l |-> IF j = l THEN FlatAt(seqs, g, l) ELSE g[j]]
  <2>2. \A j \in 1..l - 1 : h[j] = g[j] /\ g[j] = FlatAt(seqs, g, j)
    BY <2>1
  <2>3. \A j \in 1..l : h[j] = FlatAt(seqs, g, j)
    <3> TAKE j \in 1..l
    <3>1. CASE j = l
      BY <3>1
    <3>2. CASE j # l
      <4>1. j \in 1..l - 1
        BY <3>2
      <4> QED
        BY <2>2, <4>1
    <3> QED
      BY <3>1, <3>2
  <2> HIDE DEF h
  <2>4. \A j \in 1..l : FlatAt(seqs, g, j) = FlatAt(seqs, h, j)
    <3> TAKE j \in 1..l
    <3>1. j # 1 => j - 1 \in 1..l - 1
      OBVIOUS
    <3> QED
      BY <2>2, <3>1 DEF FlatAt
  <2>5. h = [j \in 1..l |-> FlatAt(seqs, h, j)]
    <3>1. h = [j \in 1..l |-> h[j]]
      BY DEF h
    <3> QED
      BY <2>3, <2>4, <3>1
  <2> QED
    BY <2>5
<1>2. N \in S
  <2>1. N \in 1..N
    OBVIOUS
  <2> HIDE DEF S
  <2>2. ClosedOn(S, N)
    BY <1>1 DEF ClosedOn
  <2> HIDE DEF N
  <2>3. 1..N \subseteq S
    BY <2>2, Ascend DEF N
  <2> QED
    BY <2>1, <2>3
<1>3. PICK g : Fun(N, g)
  BY <1>2
<1>4. Fun(N, Flat(seqs))
  BY <1>3 DEF Flat
<1> QED
  BY <1>4

\* The strings lie in s one after another, the kth from off[k] on.
Laid(seqs, s, off) ==
    /\ off \in [1..Len(seqs) + 1 -> Nat]
    /\ off[1] = 0 /\ off[Len(seqs) + 1] = Len(s)
    /\ \A k \in 1..Len(seqs) : off[k + 1] = off[k] + Len(seqs[k]) /\ Holds(s, off[k], seqs[k])

LEMMA FlattenLays ==
    ASSUME NEW seqs \in Seq(Bytes)
    PROVE  FlattenSeq(seqs) \in Bytes /\ \E off : Laid(seqs, FlattenSeq(seqs), off)
<1>1. PICK N \in Nat : N = Len(seqs)
  OBVIOUS
<1>2. \A i \in 1..N : seqs[i] \in Bytes /\ Len(seqs[i]) \in Nat
  BY <1>1 DEF Bytes
<1>3. CASE N = 0
  <2>1. FlattenSeq(seqs) = seqs /\ seqs = <<>>
    <3>1. Len(seqs) = 0
      BY <1>1, <1>3
    <3>2. FlattenSeq(seqs) = seqs
      BY <3>1, Zenon DEF FlattenSeq
    <3> QED
      BY <3>1, <3>2, EmptySeq
  <2>2. Laid(seqs, seqs, [k \in 1..1 |-> 0])
    BY <2>1 DEF Laid
  <2> QED
    BY <2>1, <2>2 DEF Bytes
<1>4. CASE N # 0
  <2> DEFINE g == Flat(seqs)
             off == [k \in 1..N + 1 |-> IF k = 1 THEN 0 ELSE Len(g[k - 1])]
             S == {i \in 1..N : /\ g[i] \in Bytes
                                /\ off[i + 1] = off[i] + Len(seqs[i])
                                /\ \A k \in 1..i : Holds(g[i], off[k], seqs[k])}
  <2>1. \A i \in 1..N : g[i] = IF i = 1 THEN seqs[i] ELSE g[i - 1] \o seqs[i]
    BY <1>1, FlatDefined DEF FlatAt
  <2>2. FlattenSeq(seqs) = g[N]
    BY <1>1, <1>4 DEF FlattenSeq, Flat, FlatAt
  <2> HIDE DEF g
  <2>3. /\ off[1] = 0 /\ \A k \in 1..N : off[k + 1] = Len(g[k])
    <3>1. off[1] = 0
      OBVIOUS
    <3>2. ASSUME NEW k \in 1..N PROVE off[k + 1] = Len(g[k])
      <4>1. k + 1 \in 1..N + 1 /\ k + 1 # 1 /\ k + 1 - 1 = k
        OBVIOUS
      <4> QED
        BY <4>1
    <3> QED
      BY <3>1, <3>2
  <2> HIDE DEF off
  <2>4. ASSUME NEW i \in 1..N, \A j \in 1..i - 1 : j \in S PROVE i \in S
    <3>1. CASE i = 1
      <4>1. g[1] = seqs[1] /\ seqs[1] \in Bytes /\ Len(seqs[1]) \in Nat
        BY <1>2, <2>1, <3>1
      <4>2. Holds(g[1], 0, seqs[1]) /\ off[1 + 1] = 0 + Len(seqs[1])
        <5>1. off[1 + 1] = Len(g[1])
          BY <2>3, <3>1
        <5> QED
          BY <4>1, <5>1, HoldsItself
      <4> QED
        BY <2>3, <3>1, <4>1, <4>2
    <3>2. CASE i # 1
      <4>1. PICK j \in 1..N : j = i - 1 /\ j \in S
        BY <2>4, <3>2
      <4>2. g[i] = g[j] \o seqs[i] /\ seqs[i] \in Bytes /\ g[j] \in Bytes
        BY <1>2, <2>1, <3>2, <4>1
      <4>3. Joins(g[j], seqs[i], g[i])
        BY <4>2, Joined
      <4>4. off[i] = Len(g[j]) /\ off[i + 1] = Len(g[i])
        <5>1. off[j + 1] = Len(g[j]) /\ off[i + 1] = Len(g[i]) /\ j + 1 = i
          BY <2>3, <4>1
        <5> QED
          BY <5>1
      <4>5. g[i] \in Bytes /\ off[i + 1] = off[i] + Len(seqs[i])
        BY <4>3, <4>4 DEF Joins
      <4>6. ASSUME NEW k \in 1..i PROVE Holds(g[i], off[k], seqs[k])
        <5>1. CASE k = i
          BY <4>3, <4>4, <5>1 DEF Joins
        <5>2. CASE k # i
          <6>1. k \in 1..j /\ k \in 1..N
            BY <4>1, <5>2
          <6>2. Holds(g[j], off[k], seqs[k]) /\ seqs[k] \in Bytes
            BY <1>2, <4>1, <6>1
          <6> QED
            BY <4>3, <6>2 DEF Joins
        <5> QED
          BY <5>1, <5>2
      <4> QED
        BY <4>5, <4>6
    <3> QED
      BY <3>1, <3>2
  <2>5. \A i \in 1..N : i \in S
    <3> HIDE DEF S
    <3>1. ClosedOn(S, N)
      BY <2>4 DEF ClosedOn
    <3> QED
      BY <3>1, Ascend
  <2>6. /\ g[N] \in Bytes /\ off[N + 1] = Len(g[N])
        /\ \A k \in 1..N : Holds(g[N], off[k], seqs[k]) /\ off[k + 1] = off[k] + Len(seqs[k])
    <3>1. N \in 1..N
      BY <1>4
    <3>2. N \in S
      BY <2>5, <3>1
    <3> QED
      BY <2>3, <2>5, <3>1, <3>2
  <2>7. off \in [1..N + 1 -> Nat]
    <3>1. \A k \in 1..N : Len(g[k]) \in Nat
      BY <2>5 DEF Bytes
    <3>2. ASSUME NEW k \in 1..N + 1, k # 1 PROVE Len(g[k - 1]) \in Nat
      <4>1. k - 1 \in 1..N
        BY <3>2
      <4> QED
        BY <3>1, <4>1
    <3> QED
      BY <3>2 DEF off
  <2> HIDE DEF S
  <2>8. Laid(seqs, g[N], off)
    BY <1>1, <2>3, <2>6, <2>7 DEF Laid
  <2> QED
    BY <2>2, <2>6, <2>8
<1> QED
  BY <1>3, <1>4

-----------------------------------------------------------------------------
(* Beacons: the walk over the elements *)

Body(mpdu, i) == SubSeq(mpdu, i + 2, i + 1 + mpdu[i + 1])

Found(mpdu, i) ==
    [ok |-> TRUE, src_mac |-> SubSeq(mpdu, 11, 16), msg_counter |-> Body(mpdu, i)[5],
     pack |-> SubSeq(Body(mpdu, i), 6, Len(Body(mpdu, i)))]

WalkAt(mpdu, g, i) ==
    IF i > Len(mpdu) THEN Failed("NotRemoteId")
    ELSE IF i = Len(mpdu) \/ i + 1 + mpdu[i + 1] > Len(mpdu) THEN Failed("TruncatedIe")
    ELSE IF IsRid(mpdu[i], Body(mpdu, i)) THEN Found(mpdu, i)
    ELSE g[i + 2 + mpdu[i + 1]]

\* What the walk finds from each position on, as parse_beacon has it.
Walk(mpdu) == CHOOSE g : g = [i \in HEAD + 1..Len(mpdu) + 1 |-> WalkAt(mpdu, g, i)]

LEMMA ParseIs ==
    ASSUME NEW mpdu
    PROVE  parse_beacon(mpdu) =
               IF Len(mpdu) < HEAD THEN Failed("TooShort")
               ELSE IF mpdu[1] # BEACON THEN Failed("NotBeacon")
               ELSE Walk(mpdu)[HEAD + 1]
BY DEF parse_beacon, Walk, WalkAt, Found, Body

LEMMA WalkIsLocal ==
    ASSUME NEW mpdu \in Bytes, NEW i \in 1..Len(mpdu) + 1, NEW g, NEW h,
           \A j \in i + 1..Len(mpdu) + 1 : g[j] = h[j]
    PROVE  WalkAt(mpdu, g, i) = WalkAt(mpdu, h, i)
<1>1. PICK n \in Nat : n = Len(mpdu)
  BY DEF Bytes
<1>2. CASE i > n \/ i = n \/ i + 1 + mpdu[i + 1] > n
  BY <1>1, <1>2 DEF WalkAt
<1>3. CASE ~(i > n \/ i = n \/ i + 1 + mpdu[i + 1] > n)
  <2>1. i + 1 \in 1..Len(mpdu)
    BY <1>1, <1>3
  <2>2. mpdu[i + 1] \in Nat
    BY <2>1 DEF Bytes
  <2>3. i + 2 + mpdu[i + 1] \in i + 1..Len(mpdu) + 1
    BY <1>1, <1>3, <2>2
  <2>4. g[i + 2 + mpdu[i + 1]] = h[i + 2 + mpdu[i + 1]]
    BY <2>3
  <2> QED
    BY <2>4 DEF WalkAt
<1> QED
  BY <1>2, <1>3

LEMMA WalkDefined ==
    ASSUME NEW mpdu \in Bytes, HEAD <= Len(mpdu), NEW i \in HEAD + 1..Len(mpdu) + 1
    PROVE  Walk(mpdu)[i] = WalkAt(mpdu, Walk(mpdu), i)
<1> DEFINE N == Len(mpdu) + 1
           first == HEAD + 1
           Fun(l, g) == g = [j \in l..N |-> WalkAt(mpdu, g, j)]
           S == {l \in 1..N : l >= first => \E g : Fun(l, g)}
<1>1. N \in Nat /\ N >= first /\ first \in Nat /\ first >= 1
  BY DEF Bytes, HEAD
<1> HIDE DEF first
<1>2. ASSUME NEW l \in 1..N, \A j \in l + 1..N : j \in S PROVE l \in S
  <2> SUFFICES ASSUME l >= first PROVE \E g : Fun(l, g)
    OBVIOUS
  <2>1. PICK g : l < N => Fun(l + 1, g)
    <3>1. CASE l < N
      <4>1. l + 1 \in l + 1..N /\ l + 1 >= first
        BY <1>1, <3>1
      <4> QED
        BY <1>2, <4>1
    <3>2. CASE ~(l < N)
      BY <3>2
    <3> QED
      BY <3>1, <3>2
  <2> DEFINE h == [j \in l..N |-> IF j = l THEN WalkAt(mpdu, g, l) ELSE g[j]]
  <2>2. \A j \in l + 1..N : h[j] = g[j] /\ g[j] = WalkAt(mpdu, g, j)
    BY <1>1, <2>1
  <2>3. \A j \in l..N : h[j] = WalkAt(mpdu, g, j)
    <3> TAKE j \in l..N
    <3>1. CASE j = l
      BY <3>1
    <3>2. CASE j # l
      <4>1. j \in l + 1..N
        BY <1>1, <3>2
      <4> QED
        BY <2>2, <4>1
    <3> QED
      BY <3>1, <3>2
  <2> HIDE DEF h
  <2>4. \A j \in l..N : WalkAt(mpdu, g, j) = WalkAt(mpdu, h, j)
    BY <1>1, <2>2, WalkIsLocal
  <2>5. h = [j \in l..N |-> WalkAt(mpdu, h, j)]
    <3>1. h = [j \in l..N |-> h[j]]
      BY DEF h
    <3> QED
      BY <2>3, <2>4, <3>1
  <2> QED
    BY <2>5
<1>3. first \in S
  <2> HIDE DEF S
  <2>1. ClosedBack(S, N)
    BY <1>2 DEF ClosedBack
  <2> HIDE DEF N
  <2> QED
    BY <1>1, <2>1, Descend
<1>4. PICK g : Fun(first, g)
  BY <1>1, <1>3
<1>5. Fun(first, Walk(mpdu))
  BY <1>4 DEF Walk, first
<1> QED
  BY <1>5 DEF first

\* What a part of a part holds, the whole holds.
LEMMA HoldsWithin ==
    ASSUME NEW x \in Bytes, NEW o, NEW y \in Bytes, NEW i, NEW b \in Bytes, Holds(x, o, y), Holds(y, i, b)
    PROVE  Holds(x, o + i, b)
<1>1. /\ o \in Nat /\ i \in Nat /\ Len(b) \in Nat /\ Len(x) \in Nat /\ Len(y) \in Nat
      /\ o + Len(y) <= Len(x) /\ i + Len(b) <= Len(y)
  BY DEF Holds, Bytes
<1>2. ASSUME NEW j \in 1..Len(b) PROVE x[o + i + j] = b[j]
  <2>1. i + j \in 1..Len(y) /\ o + (i + j) = o + i + j
    BY <1>1
  <2>2. x[o + (i + j)] = y[i + j] /\ y[i + j] = b[j]
    BY <2>1 DEF Holds
  <2> QED
    BY <2>1, <2>2
<1> QED
  BY <1>1, <1>2 DEF Holds

Element == [id : Nat, body : Bytes]

\* A whole element at position i + 1.
LEMMA ElementRead ==
    ASSUME NEW s \in Bytes, NEW i \in Nat, NEW e \in Element, Holds(s, i, ElementBytes(e))
    PROVE  /\ s[i + 1] = e.id /\ s[i + 2] = Len(e.body)
           /\ i + 2 + Len(e.body) <= Len(s)
           /\ Body(s, i + 1) = e.body
<1> DEFINE h == <<e.id, Len(e.body)>>
           x == h \o e.body
<1>1. e.body \in Bytes /\ Len(e.body) \in Nat /\ e.id \in Nat
  BY DEF Element, Bytes
<1>2. h \in Bytes /\ Len(h) = 2 /\ h[1] = e.id /\ h[2] = Len(e.body)
  BY <1>1 DEF Bytes
<1> HIDE DEF h
<1>3. x \in Bytes /\ Len(x) = 2 + Len(e.body) /\ Holds(x, 0, h) /\ Holds(x, 2, e.body)
  <2>1. Joins(h, e.body, x) /\ Holds(h, 0, h)
    BY <1>1, <1>2, Joined, HoldsItself
  <2> HIDE DEF x
  <2> QED
    BY <1>2, <2>1 DEF Joins
<1> HIDE DEF x
<1>4. Holds(s, i, x)
  BY DEF x, h, ElementBytes
<1>5. Holds(s, i + 0, h) /\ Holds(s, i + 2, e.body)
  BY <1>1, <1>2, <1>3, <1>4, HoldsWithin
<1>6. s[i + 1] = e.id /\ s[i + 2] = Len(e.body)
  <2>1. i + 0 = i
    OBVIOUS
  <2>2. Holds(s, i, h)
    BY <1>5, <2>1
  <2> QED
    BY <1>2, <2>2 DEF Holds
<1>7. i + 2 + Len(e.body) <= Len(s)
  BY <1>3, <1>4 DEF Holds
<1>8. arr(s, i + 2, Len(e.body)) = e.body
  BY <1>1, <1>5, HeldIsCut DEF IsField
<1>9. Body(s, i + 1) = arr(s, i + 2, Len(e.body))
  <2>1. i + 1 + 2 = i + 2 + 1 /\ i + 1 + 1 + Len(e.body) = i + 2 + Len(e.body) /\ i + 1 + 1 = i + 2
    BY <1>1
  <2> QED
    BY <1>6, <2>1 DEF Body, arr
<1> QED
  BY <1>6, <1>7, <1>8, <1>9

\* No whole element: none begins, or one that would go beyond the end.
IsTail(tail) == tail \in Bytes /\ (Len(tail) > 1 => tail[2] + 2 > Len(tail))
IsHead(head) == head \in Bytes /\ Len(head) = HEAD /\ head[1] = BEACON

Rids(elements) ==
    {k \in DOMAIN elements :
        /\ elements[k].id = VENDOR
        /\ IsPrefix(Append(ASTM_OUI, ODID_OUI_TYPE), elements[k].body)
        /\ Len(elements[k].body) > 4}

LEMMA RidsAreRid ==
    ASSUME NEW elements \in Seq(Element), NEW k \in 1..Len(elements)
    PROVE  k \in Rids(elements) <=> IsRid(elements[k].id, elements[k].body)
<1> DEFINE b == elements[k].body
           mark == Append(ASTM_OUI, ODID_OUI_TYPE)
<1>1. elements[k] \in Element /\ k \in DOMAIN elements
  OBVIOUS
<1>2. b \in Bytes /\ Len(b) \in Nat
  BY <1>1 DEF Element, Bytes
<1>3. mark \in Bytes /\ Len(mark) = 4 /\ mark = <<250, 11, 188, 13>>
  <2> DEFINE t == <<250, 11, 188>>
             u == <<250, 11, 188, 13>>
             m == Append(t, 13)
  <2>1. t \in Bytes /\ u \in Bytes /\ Len(u) = 4
    BY DEF Bytes
  <2>2. m \in Bytes /\ Len(m) = 4
    BY DEF Bytes
  <2>3. \A j \in 1..4 : m[j] = u[j]
    OBVIOUS
  <2> HIDE DEF m, u
  <2>4. m = u
    BY <2>1, <2>2, <2>3, SeqEqual DEF Bytes
  <2> QED
    BY <2>2, <2>4 DEF m, u, ASTM_OUI, ODID_OUI_TYPE
<1>4. ASTM_OUI \in Bytes /\ Len(ASTM_OUI) = 3 /\ \A j \in 1..3 : ASTM_OUI[j] = mark[j]
  BY DEF Bytes, ASTM_OUI
<1>5. mark[4] = ODID_OUI_TYPE
  BY <1>3 DEF ODID_OUI_TYPE
<1> HIDE DEF b, mark
<1>6. ASSUME Len(b) > 4
      PROVE  IsPrefix(mark, b) <=> SubSeq(b, 1, 3) = ASTM_OUI /\ b[4] = ODID_OUI_TYPE
  <2>1. /\ SubSeq(b, 1, 3) \in Bytes /\ Len(SubSeq(b, 1, 3)) = 3
        /\ \A j \in 1..3 : SubSeq(b, 1, 3)[j] = b[j]
    <3>1. /\ SubSeq(b, 1, 3) \in Bytes /\ Len(SubSeq(b, 1, 3)) = 3 - 1 + 1
          /\ \A j \in 1..3 - 1 + 1 : SubSeq(b, 1, 3)[j] = b[1 + j - 1]
      BY <1>2, <1>6, CutBytes
    <3> QED
      BY <3>1
  <2>2. /\ SubSeq(b, 1, 4) \in Bytes /\ Len(SubSeq(b, 1, 4)) = 4
        /\ \A j \in 1..4 : SubSeq(b, 1, 4)[j] = b[j]
    <3>1. /\ SubSeq(b, 1, 4) \in Bytes /\ Len(SubSeq(b, 1, 4)) = 4 - 1 + 1
          /\ \A j \in 1..4 - 1 + 1 : SubSeq(b, 1, 4)[j] = b[1 + j - 1]
      BY <1>2, <1>6, CutBytes
    <3> QED
      BY <3>1
  <2>3. SubSeq(mark, 1, 4) = mark
    BY <1>3, SubSeqFull DEF Bytes
  <2>4. IsPrefix(mark, b) <=> mark = SubSeq(b, 1, 4)
    BY <1>2, <1>3, <1>6, <2>3 DEF IsPrefix
  <2>5. mark = SubSeq(b, 1, 4) <=> \A j \in 1..4 : mark[j] = b[j]
    <3>1. ASSUME \A j \in 1..4 : mark[j] = b[j] PROVE mark = SubSeq(b, 1, 4)
      BY <1>3, <2>2, <3>1, SeqEqual DEF Bytes
    <3>2. ASSUME mark = SubSeq(b, 1, 4) PROVE \A j \in 1..4 : mark[j] = b[j]
      BY <2>2, <3>2
    <3> QED
      BY <3>1, <3>2
  <2>6. ASTM_OUI = SubSeq(b, 1, 3) <=> \A j \in 1..3 : mark[j] = b[j]
    <3>1. ASSUME \A j \in 1..3 : mark[j] = b[j] PROVE ASTM_OUI = SubSeq(b, 1, 3)
      BY <1>4, <2>1, <3>1, SeqEqual DEF Bytes
    <3>2. ASSUME ASTM_OUI = SubSeq(b, 1, 3) PROVE \A j \in 1..3 : mark[j] = b[j]
      BY <1>4, <2>1, <3>2
    <3> QED
      BY <3>1, <3>2
  <2>7. (\A j \in 1..4 : mark[j] = b[j]) <=> (\A j \in 1..3 : mark[j] = b[j]) /\ mark[4] = b[4]
    OBVIOUS
  <2> QED
    BY <1>5, <2>4, <2>5, <2>6, <2>7
<1>7. Len(b) >= 5 <=> Len(b) > 4
  BY <1>2
<1> QED
  BY <1>1, <1>6, <1>7 DEF Rids, IsRid, b, mark

\* Where the elements begin in a beacon of a head, elements and a tail.
Beacon(head, elements, tail) ==
    head \o FlattenSeq([k \in DOMAIN elements |-> ElementBytes(elements[k])]) \o tail

ElementsAt(head, elements, tail, s, off) ==
    LET N == Len(elements) IN
    /\ s \in Bytes /\ Holds(s, 0, head) /\ Len(head) = HEAD
    /\ off \in [1..N + 1 -> Nat] /\ off[1] = HEAD
    /\ \A k \in 1..N : /\ off[k + 1] = off[k] + 2 + Len(elements[k].body)
                       /\ Holds(s, off[k], ElementBytes(elements[k]))
    /\ Holds(s, off[N + 1], tail) /\ Len(s) = off[N + 1] + Len(tail)

LEMMA BeaconLays ==
    ASSUME NEW head \in Bytes, Len(head) = HEAD, NEW elements \in Seq(Element), NEW tail \in Bytes
    PROVE  \E off : ElementsAt(head, elements, tail, Beacon(head, elements, tail), off)
<1> DEFINE E == [k \in DOMAIN elements |-> ElementBytes(elements[k])]
           flat == FlattenSeq(E)
           x == head \o flat
           s == x \o tail
<1>1. PICK N \in Nat : N = Len(elements) /\ DOMAIN elements = 1..N
  OBVIOUS
<1>2. ASSUME NEW k \in 1..N
      PROVE /\ E[k] = ElementBytes(elements[k])
            /\ ElementBytes(elements[k]) \in Bytes
            /\ Len(ElementBytes(elements[k])) = 2 + Len(elements[k].body)
  <2> DEFINE e == elements[k]
             h == <<e.id, Len(e.body)>>
  <2>1. e \in Element
    BY <1>1
  <2>2. e.body \in Bytes /\ h \in Bytes /\ Len(h) = 2
    BY <2>1 DEF Element, Bytes
  <2>3. Joins(h, e.body, ElementBytes(e))
    BY <2>2, Joined DEF ElementBytes
  <2> HIDE DEF e, h
  <2>4. ElementBytes(e) \in Bytes /\ Len(ElementBytes(e)) = 2 + Len(e.body)
    BY <2>2, <2>3 DEF Joins
  <2> QED
    BY <1>1, <2>4 DEF e
<1>3. E \in Seq(Bytes) /\ Len(E) = N
  BY <1>1, <1>2
<1> HIDE DEF E
<1>4. flat \in Bytes
  BY <1>3, FlattenLays
<1>5. PICK o : Laid(E, flat, o)
  BY <1>3, FlattenLays
<1> HIDE DEF flat
<1>6. Joins(head, flat, x)
  BY <1>4, Joined
<1>7. x \in Bytes /\ Len(x) = 36 + Len(flat) /\ Holds(x, 36, flat) /\ Holds(x, 0, head)
  BY <1>6, HoldsItself DEF Joins, HEAD
<1> HIDE DEF x
<1>8. Joins(x, tail, s)
  BY <1>7, Joined
<1>9. /\ s \in Bytes /\ Len(s) = 36 + Len(flat) + Len(tail)
      /\ Holds(s, 36, flat) /\ Holds(s, 0, head) /\ Holds(s, 36 + Len(flat), tail)
  BY <1>4, <1>7, <1>8 DEF Joins
<1> HIDE DEF s
<1> DEFINE off == [k \in 1..N + 1 |-> 36 + o[k]]
<1>10. /\ o \in [1..N + 1 -> Nat] /\ o[1] = 0 /\ o[N + 1] = Len(flat)
       /\ \A k \in 1..N : o[k + 1] = o[k] + Len(E[k]) /\ Holds(flat, o[k], E[k])
  BY <1>3, <1>5 DEF Laid
<1>11. off \in [1..N + 1 -> Nat] /\ off[1] = 36 /\ off[N + 1] = 36 + Len(flat)
  BY <1>10
<1>12. ASSUME NEW k \in 1..N
       PROVE  /\ off[k + 1] = off[k] + 2 + Len(elements[k].body)
              /\ Holds(s, off[k], ElementBytes(elements[k]))
  <2>1. off[k] = 36 + o[k] /\ off[k + 1] = 36 + o[k + 1] /\ o[k] \in Nat
    BY <1>10
  <2>2. Len(elements[k].body) \in Nat
    BY <1>1 DEF Element, Bytes
  <2>3. off[k + 1] = off[k] + 2 + Len(elements[k].body)
    <3>1. o[k + 1] = o[k] + (2 + Len(elements[k].body))
      BY <1>2, <1>10
    <3>2. PICK n \in Nat : n = Len(elements[k].body)
      BY <2>2
    <3>3. PICK a \in Nat : a = o[k]
      BY <2>1
    <3>4. off[k] = 36 + a /\ off[k + 1] = 36 + (a + (2 + n))
      BY <2>1, <3>1, <3>2, <3>3
    <3>5. 36 + (a + (2 + n)) = (36 + a) + 2 + n
      OBVIOUS
    <3>6. off[k + 1] = off[k] + 2 + n
      BY <3>4, <3>5, Zenon
    <3> QED
      BY <3>2, <3>6
  <2>4. Holds(flat, o[k], ElementBytes(elements[k])) /\ ElementBytes(elements[k]) \in Bytes
    BY <1>2, <1>10
  <2> QED
    BY <1>4, <1>9, <2>1, <2>3, <2>4, HoldsWithin
<1> HIDE DEF off
<1>13. ElementsAt(head, elements, tail, s, off)
  BY <1>1, <1>9, <1>11, <1>12 DEF ElementsAt, HEAD
<1> QED
  BY <1>13 DEF s, x, flat, E, Beacon

LEMMA ElementPlaced ==
    ASSUME NEW head, NEW elements \in Seq(Element), NEW tail, NEW s, NEW off,
           ElementsAt(head, elements, tail, s, off), NEW k \in 1..Len(elements)
    PROVE  /\ s \in Bytes /\ Len(s) \in Nat /\ off[k] \in Nat
           /\ elements[k] \in Element /\ Len(elements[k].body) \in Nat
           /\ off[k + 1] = off[k] + 2 + Len(elements[k].body)
           /\ Holds(s, off[k], ElementBytes(elements[k]))
<1>1. s \in Bytes /\ Len(s) \in Nat
  BY DEF ElementsAt, Bytes
<1>2. elements[k] \in Element
  OBVIOUS
<1>3. Len(elements[k].body) \in Nat
  BY <1>2 DEF Element, Bytes
<1>4. off[k] \in Nat
  <2>1. off \in [1..Len(elements) + 1 -> Nat] /\ Len(elements) \in Nat
    BY DEF ElementsAt
  <2>2. k \in 1..Len(elements) + 1
    BY <2>1
  <2> QED
    BY <2>1, <2>2
<1>5. /\ off[k + 1] = off[k] + 2 + Len(elements[k].body)
      /\ Holds(s, off[k], ElementBytes(elements[k]))
  BY DEF ElementsAt
<1> QED
  BY <1>1, <1>2, <1>3, <1>4, <1>5

\* The walk at an element.
StepsAt(elements, s, off, k) ==
    Walk(s)[off[k] + 1] =
        IF k \in Rids(elements) THEN Found(s, off[k] + 1) ELSE Walk(s)[off[k + 1] + 1]

LEMMA WalkStep ==
    ASSUME NEW head, NEW elements \in Seq(Element), NEW tail \in Bytes, NEW s, NEW off,
           ElementsAt(head, elements, tail, s, off), NEW k \in 1..Len(elements)
    PROVE  StepsAt(elements, s, off, k)
<1> DEFINE e == elements[k]
<1>1. /\ s \in Bytes /\ Len(s) \in Nat /\ Len(elements) \in Nat
      /\ off[k] \in Nat /\ e \in Element /\ Len(e.body) \in Nat
      /\ off[k + 1] = off[k] + 2 + Len(e.body) /\ Holds(s, off[k], ElementBytes(e))
  BY ElementPlaced
<1>2. HEAD <= off[k]
  <2> DEFINE S == {j \in 1..Len(elements) : HEAD <= off[j]}
  <2>1. ASSUME NEW i \in 1..Len(elements), \A j \in 1..i - 1 : j \in S PROVE i \in S
    <3>1. CASE i = 1
      BY <3>1 DEF ElementsAt, HEAD
    <3>2. CASE i # 1
      <4>1. PICK j \in 1..Len(elements) : j + 1 = i /\ j \in S
        <5>1. i - 1 \in 1..i - 1 /\ i - 1 \in 1..Len(elements) /\ i - 1 + 1 = i
          BY <1>1, <3>2
        <5> QED
          BY <2>1, <5>1
      <4>2. off[j] \in Nat /\ Len(elements[j].body) \in Nat /\ HEAD <= off[j] /\ HEAD \in Nat
        BY <4>1, ElementPlaced DEF HEAD
      <4>3. off[i] = off[j] + 2 + Len(elements[j].body)
        BY <4>1 DEF ElementsAt
      <4> QED
        BY <4>2, <4>3
    <3> QED
      BY <3>1, <3>2
  <2> HIDE DEF S
  <2>2. ClosedOn(S, Len(elements))
    BY <2>1 DEF ClosedOn
  <2>3. k \in S
    BY <1>1, <2>2, Ascend
  <2> QED
    BY <2>3 DEF S
<1> HIDE DEF e
<1>3. /\ s[off[k] + 1] = e.id /\ s[off[k] + 2] = Len(e.body)
      /\ off[k] + 2 + Len(e.body) <= Len(s) /\ Body(s, off[k] + 1) = e.body
  BY <1>1, ElementRead
<1>4. PICK i \in Nat : i = off[k] + 1
  BY <1>1
<1>5. i \in HEAD + 1..Len(s) + 1 /\ HEAD <= Len(s) /\ i + 1 = off[k] + 2
      /\ ~(i > Len(s)) /\ i # Len(s) /\ ~(i + 1 + Len(e.body) > Len(s))
      /\ i + 2 + Len(e.body) = off[k + 1] + 1
  <2>1. PICK n \in Nat, m \in Nat, h \in Nat, q \in Nat :
            n = Len(s) /\ m = Len(e.body) /\ h = HEAD /\ q = off[k]
    BY <1>1 DEF HEAD
  <2>2. h <= q /\ q + 2 + m <= n /\ i = q + 1 /\ off[k + 1] = q + 2 + m
    BY <1>1, <1>2, <1>3, <1>4, <2>1
  <2>3. i \in h + 1..n + 1 /\ h <= n /\ i + 1 = q + 2
    BY <2>2
  <2>4. ~(i > n) /\ i # n /\ ~(i + 1 + m > n) /\ i + 2 + m = q + 2 + m + 1
    BY <2>2
  <2> QED
    BY <2>1, <2>2, <2>3, <2>4
<1>6. Walk(s)[i] = WalkAt(s, Walk(s), i)
  BY <1>1, <1>5, WalkDefined
<1>7. s[i] = e.id /\ s[i + 1] = Len(e.body) /\ Body(s, i) = e.body
  BY <1>3, <1>4, <1>5
<1>8. WalkAt(s, Walk(s), i) = IF IsRid(e.id, e.body) THEN Found(s, i) ELSE Walk(s)[off[k + 1] + 1]
  BY <1>5, <1>7 DEF WalkAt
<1>9. k \in Rids(elements) <=> IsRid(e.id, e.body)
  BY RidsAreRid DEF e
<1> QED
  BY <1>4, <1>6, <1>8, <1>9 DEF StepsAt

\* The walk at the tail.
LEMMA WalkEnds ==
    ASSUME NEW head, NEW elements \in Seq(Element), NEW tail, IsTail(tail), NEW s, NEW off,
           ElementsAt(head, elements, tail, s, off), off[Len(elements) + 1] >= HEAD
    PROVE  Walk(s)[off[Len(elements) + 1] + 1] =
               Failed(IF tail = <<>> THEN "NotRemoteId" ELSE "TruncatedIe")
<1>1. PICK q \in Nat : q = off[Len(elements) + 1] /\ q >= 36
  <2>1. off \in [1..Len(elements) + 1 -> Nat] /\ Len(elements) \in Nat
    BY DEF ElementsAt
  <2>2. Len(elements) + 1 \in 1..Len(elements) + 1
    BY <2>1
  <2> QED
    BY <2>1, <2>2 DEF HEAD
<1>2. /\ s \in Bytes /\ Holds(s, q, tail) /\ Len(s) = q + Len(tail) /\ tail \in Bytes
  BY <1>1 DEF ElementsAt, IsTail
<1>3. PICK n \in Nat, m \in Nat : n = Len(s) /\ m = Len(tail) /\ n = q + m
  BY <1>2 DEF Bytes
<1>4. Walk(s)[q + 1] = WalkAt(s, Walk(s), q + 1)
  <2>1. HEAD <= Len(s) /\ q + 1 \in HEAD + 1..Len(s) + 1
    BY <1>1, <1>3, SMTT(30) DEF HEAD
  <2> QED
    BY <1>2, <2>1, WalkDefined
<1>5. CASE m = 0
  <2>1. tail = <<>>
    BY <1>2, <1>3, <1>5, EmptySeq DEF Bytes
  <2>2. q + 1 > Len(s)
    BY <1>3, <1>5
  <2> QED
    BY <1>1, <1>4, <2>1, <2>2 DEF WalkAt
<1>6. CASE m = 1
  <2>1. tail # <<>>
    <3> SUFFICES ASSUME tail = <<>> PROVE FALSE
      OBVIOUS
    <3>1. Len(tail) = 0
      OBVIOUS
    <3> QED
      BY <1>3, <1>6, <3>1
  <2>2. ~(q + 1 > Len(s)) /\ q + 1 = Len(s)
    BY <1>3, <1>6
  <2> QED
    BY <1>1, <1>4, <2>1, <2>2 DEF WalkAt
<1>7. CASE m > 1
  <2>1. tail # <<>>
    BY <1>3, <1>7
  <2>2. 2 \in 1..Len(tail)
    BY <1>3, <1>7
  <2>3. tail[2] \in Nat /\ tail[2] + 2 > m
    BY <1>2, <1>3, <1>7, <2>2 DEF Bytes, IsTail
  <2>4. s[q + 2] = tail[2]
    BY <1>2, <2>2 DEF Holds
  <2>5. q + 1 + 1 = q + 2
    OBVIOUS
  <2>6. s[q + 1 + 1] = tail[2]
    BY <2>4, <2>5
  <2>7. ~(q + 1 > Len(s)) /\ q + 1 + 1 + tail[2] > Len(s)
    BY <1>3, <1>7, <2>3
  <2>8. q + 1 + 1 + s[q + 1 + 1] > Len(s)
    BY <2>6, <2>7
  <2> QED
    BY <1>1, <1>4, <2>1, <2>7, <2>8 DEF WalkAt
<1> QED
  BY <1>3, <1>5, <1>6, <1>7

\* The first Remote ID element decides, and nothing after it can reject it.
LEMMA WalkFinds ==
    ASSUME NEW head, IsHead(head), NEW elements \in Seq(Element), NEW tail, IsTail(tail)
    PROVE  WalkFindsFirst(head, elements, tail)
<1> DEFINE s == Beacon(head, elements, tail)
           rids == Rids(elements)
           N == Len(elements)
           got == parse_beacon(s)
<1>1. head \in Bytes /\ Len(head) = 36 /\ head[1] = BEACON /\ tail \in Bytes
  BY DEF IsHead, IsTail, HEAD
<1>2. PICK off : ElementsAt(head, elements, tail, s, off)
  BY <1>1, BeaconLays DEF HEAD
<1>3. /\ s \in Bytes /\ Holds(s, 0, head) /\ off \in [1..N + 1 -> Nat] /\ off[1] = 36
      /\ N \in Nat /\ DOMAIN elements = 1..N
  BY <1>2 DEF ElementsAt, HEAD
<1> HIDE DEF s
<1>4. s[1] = BEACON /\ Len(s) >= 36
  <2>1. 0 + 1 = 1 /\ 1 \in 1..Len(head) /\ s[0 + 1] = head[1] /\ 0 + Len(head) <= Len(s)
    BY <1>1, <1>3 DEF Holds
  <2> QED
    BY <1>1, <2>1
<1>5. SubSeq(s, 11, 16) = SubSeq(head, 11, 16)
  <2>1. /\ SubSeq(s, 11, 16) \in Bytes /\ Len(SubSeq(s, 11, 16)) = 16 - 11 + 1
        /\ \A j \in 1..16 - 11 + 1 : SubSeq(s, 11, 16)[j] = s[11 + j - 1]
    <3>1. 16 <= Len(s)
      BY <1>3, <1>4 DEF Bytes
    <3> QED
      BY <1>3, <3>1, CutBytes
  <2>2. /\ SubSeq(head, 11, 16) \in Bytes /\ Len(SubSeq(head, 11, 16)) = 16 - 11 + 1
        /\ \A j \in 1..16 - 11 + 1 : SubSeq(head, 11, 16)[j] = head[11 + j - 1]
    <3>1. head \in Bytes /\ 16 <= Len(head) /\ 11 \in Nat /\ 16 \in Nat /\ 11 >= 1 /\ 11 <= 16 + 1
      BY <1>1
    <3> QED
      BY <3>1, CutBytes, Zenon
  <2>3. ASSUME NEW j \in 1..6 PROVE s[11 + j - 1] = head[11 + j - 1]
    <3>1. PICK i \in 1..36 : i = 11 + j - 1
      OBVIOUS
    <3>2. i \in 1..Len(head) /\ 0 + i = i
      BY <1>1, <3>1
    <3>3. s[0 + i] = head[i]
      BY <1>3, <3>2 DEF Holds
    <3> QED
      BY <3>1, <3>2, <3>3
  <2>4. 16 - 11 + 1 = 6
    OBVIOUS
  <2> QED
    BY <2>1, <2>2, <2>3, <2>4, SeqEqual DEF Bytes
<1>6. got = Walk(s)[off[1] + 1]
  <2>1. ~(Len(s) < HEAD) /\ HEAD + 1 = off[1] + 1
    BY <1>3, <1>4 DEF HEAD, Bytes
  <2> QED
    BY <1>4, <2>1, ParseIs
<1> HIDE DEF got
<1>9. ASSUME NEW k \in 1..N PROVE StepsAt(elements, s, off, k)
  <2>1. ElementsAt(head, elements, tail, s, off) /\ tail \in Bytes /\ k \in 1..Len(elements)
    BY <1>1, <1>2, SMTT(30)
  <2> QED
    BY <2>1, WalkStep
<1>7. CASE rids # {}
  <2> DEFINE m == CHOOSE k \in rids : \A j \in rids : k <= j
  <2>1. m \in rids /\ \A j \in rids : m <= j
    <3>1. rids \in SUBSET Nat
      BY <1>3 DEF Rids
    <3> HIDE DEF rids
    <3>2. \E k \in rids : \A j \in rids : k <= j
      BY <1>7, <3>1, Least
    <3> QED
      BY <3>2
  <2> HIDE DEF m
  <2>2. m \in 1..N
    BY <1>3, <2>1 DEF Rids
  <2> DEFINE S == {k \in 1..m : Walk(s)[off[k] + 1] = Found(s, off[m] + 1)}
  <2>3. ASSUME NEW k \in 1..m, \A j \in k + 1..m : j \in S PROVE k \in S
    <3>1. k \in 1..N
      BY <1>3, <2>2
    <3>2. Walk(s)[off[k] + 1] =
              IF k \in rids THEN Found(s, off[k] + 1) ELSE Walk(s)[off[k + 1] + 1]
      BY <1>9, <3>1 DEF StepsAt
    <3>3. CASE k = m
      BY <2>1, <3>2, <3>3
    <3>4. CASE k # m
      <4>1. k \notin rids
        <5>1. ~(m <= k)
          BY <2>2, <3>4
        <5> QED
          BY <2>1, <5>1
      <4>2. k + 1 \in S
        <5>1. k + 1 \in k + 1..m
          BY <2>2, <3>4
        <5> QED
          BY <2>3, <5>1
      <4> QED
        BY <3>2, <4>1, <4>2
    <3> QED
      BY <3>3, <3>4
  <2>4. 1 \in S
    <3> HIDE DEF S
    <3>1. ClosedBack(S, m) /\ m \in Nat /\ 1 \in 1..m
      BY <1>3, <2>2, <2>3 DEF ClosedBack
    <3> QED
      BY <3>1, Descend
  <2>5. got = Found(s, off[m] + 1)
    BY <1>6, <2>4
  <2>6. Body(s, off[m] + 1) = elements[m].body
    <3>1. off[m] \in Nat /\ elements[m] \in Element /\ Holds(s, off[m], ElementBytes(elements[m]))
      BY <1>2, <2>2, ElementPlaced
    <3> QED
      BY <1>3, <3>1, ElementRead
  <2>7. got = [ok |-> TRUE, src_mac |-> SubSeq(head, 11, 16), msg_counter |-> elements[m].body[5],
               pack |-> SubSeq(elements[m].body, 6, Len(elements[m].body))]
    BY <1>5, <2>5, <2>6 DEF Found
  <2> QED
    BY <1>7, <2>7 DEF WalkFindsFirst, Rids, m, got, s, Beacon
<1>8. CASE rids = {}
  <2> DEFINE fail == Failed(IF tail = <<>> THEN "NotRemoteId" ELSE "TruncatedIe")
             S == {k \in 1..N + 1 : Walk(s)[off[k] + 1] = fail}
             A == {k \in 1..N + 1 : off[k] >= 36}
  <2>1. N + 1 \in A
    <3>1. ASSUME NEW k \in 1..N + 1, \A j \in 1..k - 1 : j \in A PROVE k \in A
      <4>1. CASE k = 1
        BY <1>3, <4>1
      <4>2. CASE k # 1
        <5>1. PICK j \in 1..N : j + 1 = k /\ j \in A
          <6>1. k - 1 \in 1..N /\ k - 1 \in 1..k - 1 /\ k - 1 + 1 = k
            BY <1>3, <4>2
          <6> QED
            BY <3>1, <6>1
        <5>2. off[j] \in Nat /\ off[j] >= 36 /\ Len(elements[j].body) \in Nat
          BY <1>2, <5>1, ElementPlaced
        <5>3. off[k] = off[j] + 2 + Len(elements[j].body)
          BY <1>2, <5>1, ElementPlaced, SMTT(30)
        <5> QED
          BY <5>2, <5>3
      <4> QED
        BY <4>1, <4>2
    <3> HIDE DEF A
    <3>2. ClosedOn(A, N + 1) /\ N + 1 \in Nat /\ N + 1 \in 1..N + 1
      BY <1>3, <3>1 DEF ClosedOn
    <3> QED
      BY <3>2, Ascend
  <2>2. Walk(s)[off[N + 1] + 1] = fail
    <3>1. off[N + 1] >= HEAD
      BY <2>1 DEF HEAD
    <3> QED
      BY <1>2, <3>1, WalkEnds
  <2> HIDE DEF fail
  <2>3. ASSUME NEW k \in 1..N + 1, \A j \in k + 1..N + 1 : j \in S PROVE k \in S
    <3>1. CASE k = N + 1
      BY <2>2, <3>1
    <3>2. CASE k # N + 1
      <4>1. k \in 1..N /\ k \notin rids /\ k + 1 \in k + 1..N + 1
        BY <1>3, <1>8, <3>2
      <4>2. Walk(s)[off[k] + 1] = Walk(s)[off[k + 1] + 1]
        BY <1>9, <4>1 DEF StepsAt
      <4>3. k + 1 \in S
        BY <2>3, <4>1
      <4> QED
        BY <4>2, <4>3
    <3> QED
      BY <3>1, <3>2
  <2>4. 1 \in S
    <3> HIDE DEF S
    <3>1. ClosedBack(S, N + 1) /\ N + 1 \in Nat /\ 1 \in 1..N + 1
      BY <1>3, <2>3 DEF ClosedBack
    <3> QED
      BY <3>1, Descend
  <2>5. got = fail
    BY <1>6, <2>4
  <2> QED
    BY <1>8, <2>5 DEF WalkFindsFirst, Rids, fail, got, s, Beacon
<1> QED
  BY <1>7, <1>8

-----------------------------------------------------------------------------
(* Packs: what RawObs cuts off, no verdict depends on *)

\* A cut of the first n bytes is a cut of the whole.
LEMMA CutOfPrefix ==
    ASSUME NEW s \in Bytes, NEW n \in Nat, NEW i \in Nat, NEW j \in Nat,
           i >= 1, i <= j + 1, j <= n, n <= Len(s)
    PROVE  SubSeq(SubSeq(s, 1, n), i, j) = SubSeq(s, i, j)
<1> DEFINE c == SubSeq(s, 1, n)
<1>1. Len(s) \in Nat
  BY DEF Bytes
<1>2. c \in Bytes /\ Len(c) = n /\ \A k \in 1..n : c[k] = s[k]
  <2>1. /\ SubSeq(s, 1, n) \in Bytes /\ Len(SubSeq(s, 1, n)) = n - 1 + 1
        /\ \A k \in 1..n - 1 + 1 : SubSeq(s, 1, n)[k] = s[1 + k - 1]
    BY CutBytes
  <2>2. n - 1 + 1 = n /\ \A k \in 1..n : 1 + k - 1 = k
    OBVIOUS
  <2> QED
    BY <2>1, <2>2
<1> HIDE DEF c
<1>3. PICK m \in Nat : m = j - i + 1
  OBVIOUS
<1>4. /\ SubSeq(c, i, j) \in Bytes /\ Len(SubSeq(c, i, j)) = m
      /\ \A k \in 1..m : SubSeq(c, i, j)[k] = c[i + k - 1]
  BY <1>2, <1>3, CutBytes
<1>5. /\ SubSeq(s, i, j) \in Bytes /\ Len(SubSeq(s, i, j)) = m
      /\ \A k \in 1..m : SubSeq(s, i, j)[k] = s[i + k - 1]
  <2>1. j <= Len(s)
    BY <1>1
  <2> QED
    BY <1>3, <2>1, CutBytes
<1>6. \A k \in 1..m : i + k - 1 \in 1..n
  BY <1>3
<1>7. \A k \in 1..m : SubSeq(c, i, j)[k] = SubSeq(s, i, j)[k]
  BY <1>2, <1>4, <1>5, <1>6
<1>8. SubSeq(c, i, j) = SubSeq(s, i, j)
  BY <1>4, <1>5, <1>7, SeqEqual DEF Bytes
<1> QED
  BY <1>8 DEF c

LEMMA CapturedIs ==
    ASSUME NEW pack \in Bytes
    PROVE  /\ Captured(pack) \in Bytes /\ Len(Captured(pack)) <= PACK_CAP
           /\ Len(pack) < PACK_CAP => Captured(pack) = pack
           /\ Len(pack) >= PACK_CAP => Captured(pack) = SubSeq(pack, 1, 228) /\ Len(Captured(pack)) = 228
<1>1. PICK n \in Nat : n = Len(pack)
  BY DEF Bytes
<1>2. CASE n < 228
  <2>1. Captured(pack) = SubSeq(pack, 1, Len(pack))
    BY <1>1, <1>2 DEF Captured, PACK_CAP
  <2>2. Captured(pack) = pack
    BY <2>1, SubSeqFull DEF Bytes
  <2> QED
    BY <1>1, <1>2, <2>2 DEF PACK_CAP
<1>3. CASE ~(n < 228)
  <2>1. Captured(pack) = SubSeq(pack, 1, 228)
    BY <1>1, <1>3 DEF Captured, PACK_CAP
  <2>2. 228 <= Len(pack) /\ 228 - 1 + 1 = 228 /\ 1 >= 1 /\ 1 <= 228 + 1 /\ 1 \in Nat /\ 228 \in Nat
    BY <1>1, <1>3
  <2>3. SubSeq(pack, 1, 228) \in Bytes /\ Len(SubSeq(pack, 1, 228)) = 228 - 1 + 1
    BY <2>2, CutBytes
  <2> QED
    BY <1>1, <1>3, <2>1, <2>2, <2>3 DEF PACK_CAP
<1> QED
  BY <1>2, <1>3

Msgs(pack) ==
    [k \in 1..pack[3] |-> SubSeq(pack, MESSAGE_SIZE * (k - 1) + 4, MESSAGE_SIZE * k + 3)]

LEMMA ParsePackIs ==
    ASSUME NEW pack
    PROVE  parse_pack(pack) =
               IF Len(pack) < 3 THEN Failed("TooShort")
               ELSE IF pack[1] \div 16 # 15 THEN Failed("NotAPack")
               ELSE IF pack[2] # MESSAGE_SIZE THEN Failed("BadMessageSize")
               ELSE IF pack[3] > MAX_PACK_MESSAGES THEN Failed("TooManyMessages")
               ELSE IF pack[3] = 0 THEN Failed("Empty")
               ELSE IF Len(pack) < 3 + MESSAGE_SIZE * pack[3] THEN Failed("Truncated")
               ELSE IF ContentOK(Msgs(pack)) THEN [ok |-> TRUE, msgs |-> Msgs(pack)]
               ELSE Failed("InvalidContent")
BY DEF parse_pack, Msgs

\* No verdict on a pack depends on what RawObs cuts off.
LEMMA VerdictKept ==
    ASSUME NEW pack \in Bytes
    PROVE  parse_pack(Captured(pack)) = parse_pack(pack)
<1>1. PICK n \in Nat : n = Len(pack)
  BY DEF Bytes
<1>2. CASE n < 228
  BY <1>1, <1>2, CapturedIs DEF PACK_CAP
<1>3. CASE ~(n < 228)
  <2> DEFINE c == Captured(pack)
  <2>1. c = SubSeq(pack, 1, 228) /\ Len(c) = 228
    <3>1. Len(pack) >= PACK_CAP
      BY <1>1, <1>3 DEF PACK_CAP
    <3> QED
      BY <3>1, CapturedIs
  <2> HIDE DEF c
  <2>2. c[1] = pack[1] /\ c[2] = pack[2] /\ c[3] = pack[3]
    <3>1. 228 <= Len(pack) /\ 228 - 1 + 1 = 228 /\ 1 >= 1 /\ 1 <= 228 + 1 /\ 1 \in Nat /\ 228 \in Nat
      BY <1>1, <1>3
    <3>2. \A k \in 1..228 - 1 + 1 : SubSeq(pack, 1, 228)[k] = pack[1 + k - 1]
      BY <3>1, CutBytes
    <3>3. \A k \in 1..228 : c[k] = pack[1 + k - 1]
      BY <2>1, <3>1, <3>2
    <3>4. c[1] = pack[1 + 1 - 1] /\ c[2] = pack[1 + 2 - 1] /\ c[3] = pack[1 + 3 - 1]
      BY <3>3
    <3> QED
      BY <3>4
  <2>3. pack[3] \in Nat
    <3>1. 3 \in 1..Len(pack)
      BY <1>1, <1>3
    <3> QED
      BY <3>1 DEF Bytes
  <2>4. ASSUME pack[3] <= 9 PROVE Msgs(c) = Msgs(pack)
    <3>1. PICK q \in 0..9 : q = pack[3]
      BY <2>3, <2>4
    <3>2. ASSUME NEW k \in 1..q
          PROVE SubSeq(c, 25 * (k - 1) + 4, 25 * k + 3) = SubSeq(pack, 25 * (k - 1) + 4, 25 * k + 3)
      <4>1. PICK i \in Nat, j \in Nat : i = 25 * (k - 1) + 4 /\ j = 25 * k + 3
        OBVIOUS
      <4>2. i >= 1 /\ i <= j + 1 /\ j <= 228 /\ 228 <= Len(pack) /\ 228 \in Nat
        BY <1>1, <1>3, <4>1
      <4>3. SubSeq(SubSeq(pack, 1, 228), i, j) = SubSeq(pack, i, j)
        BY <4>2, CutOfPrefix
      <4> QED
        BY <2>1, <4>1, <4>3
    <3> QED
      BY <2>2, <3>1, <3>2 DEF Msgs, MESSAGE_SIZE
  <2>5. /\ ~(Len(c) < 3) /\ ~(Len(pack) < 3)
        /\ pack[3] <= 9 => ~(Len(c) < 3 + 25 * pack[3]) /\ ~(Len(pack) < 3 + 25 * pack[3])
    <3>1. PICK q \in Nat : q = pack[3]
      BY <2>3
    <3>2. \A m \in Nat : m >= 228 => ~(m < 3) /\ (q <= 9 => ~(m < 3 + 25 * q))
      OBVIOUS
    <3>3. n >= 228 /\ 228 \in Nat /\ 228 >= 228
      BY <1>3
    <3> QED
      BY <1>1, <2>1, <3>1, <3>2, <3>3, ZenonT(30)
  <2>6. pack[3] > 9 <=> ~(pack[3] <= 9)
    BY <2>3
  <2> HIDE DEF c
  <2>7. parse_pack(c) = parse_pack(pack)
    BY <2>2, <2>4, <2>5, <2>6, ParsePackIs DEF MESSAGE_SIZE, MAX_PACK_MESSAGES
  <2> QED
    BY <2>7 DEF c
<1> QED
  BY <1>2, <1>3

\* What parse_beacon hands on: a source address, a counter and a pack that is not too
\* long for the length byte of its element.
IsRidFound(r) ==
    r.ok => /\ r.src_mac \in Octets(6) /\ r.msg_counter \in U8
            /\ r.pack \in Bytes /\ Len(r.pack) <= 250

LEMMA BeaconParsed == ASSUME NEW mpdu \in Seq(U8) PROVE IsRidFound(parse_beacon(mpdu))
<1>1. PICK n \in Nat : n = Len(mpdu)
  OBVIOUS
<1>2. mpdu \in Bytes /\ \A i \in 1..n : mpdu[i] \in U8
  BY <1>1, OctetBytes
<1>3. \A e : IsRidFound(Failed(e))
  BY DEF IsRidFound, Failed
<1>4. CASE n < 36
  BY <1>1, <1>3, <1>4, ParseIs DEF HEAD
<1>5. CASE n >= 36
  <2>1. SubSeq(mpdu, 11, 16) \in Octets(6)
    <3>1. /\ SubSeq(mpdu, 11, 16) \in Bytes /\ Len(SubSeq(mpdu, 11, 16)) = 6
          /\ \A j \in 1..6 : SubSeq(mpdu, 11, 16)[j] = mpdu[11 + j - 1]
      <4>1. 16 <= Len(mpdu) /\ 16 - 11 + 1 = 6 /\ 11 >= 1 /\ 11 <= 16 + 1 /\ 11 \in Nat /\ 16 \in Nat
        BY <1>1, <1>5
      <4>2. /\ SubSeq(mpdu, 11, 16) \in Bytes /\ Len(SubSeq(mpdu, 11, 16)) = 16 - 11 + 1
            /\ \A j \in 1..16 - 11 + 1 : SubSeq(mpdu, 11, 16)[j] = mpdu[11 + j - 1]
        BY <1>2, <4>1, CutBytes
      <4> QED
        BY <4>1, <4>2
    <3>2. \A j \in 1..6 : 11 + j - 1 \in 1..n
      BY <1>5
    <3>3. \A j \in 1..6 : SubSeq(mpdu, 11, 16)[j] \in U8
      BY <1>2, <3>1, <3>2
    <3> DEFINE x == SubSeq(mpdu, 11, 16)
    <3>4. x \in Seq(Nat) /\ Len(x) = 6 /\ \A j \in 1..6 : x[j] \in U8
      BY <3>1, <3>3 DEF Bytes
    <3> HIDE DEF x
    <3>5. x \in Octets(6)
      BY <3>4 DEF Octets
    <3> QED
      BY <3>5 DEF x
  <2>2. ASSUME NEW i \in 37..n, i # n, ~(i + 1 + mpdu[i + 1] > n), IsRid(mpdu[i], Body(mpdu, i))
        PROVE  IsRidFound(Found(mpdu, i))
    <3>1. i + 1 \in 1..n
      BY <2>2
    <3>2. PICK len \in U8 : len = mpdu[i + 1] /\ i + 1 + len <= n /\ len <= 255 /\ len \in Nat
      <4>1. mpdu[i + 1] \in U8
        BY <1>2, <3>1
      <4>2. \A len \in U8 : len \in Nat /\ len <= 255
        BY DEF U8
      <4>3. ~(i + 1 + mpdu[i + 1] > n) => i + 1 + mpdu[i + 1] <= n
        BY <4>1, <4>2
      <4> QED
        BY <2>2, <4>1, <4>2, <4>3
    <3> DEFINE b == Body(mpdu, i)
    <3>3. /\ b \in Bytes /\ Len(b) = len
          /\ \A j \in 1..len : b[j] = mpdu[i + 1 + j]
      <4>0. len \in Nat /\ i \in Nat
        BY <3>2
      <4>1. PICK a \in Nat, z \in Nat : a = i + 2 /\ z = i + 1 + len
        BY <4>0
      <4>2. a >= 1 /\ z <= Len(mpdu) /\ a <= z + 1 /\ z - a + 1 = len
        BY <1>1, <3>2, <4>1
      <4>3. /\ SubSeq(mpdu, a, z) \in Bytes /\ Len(SubSeq(mpdu, a, z)) = z - a + 1
            /\ \A j \in 1..z - a + 1 : SubSeq(mpdu, a, z)[j] = mpdu[a + j - 1]
        BY <1>2, <4>2, CutBytes
      <4>4. b = SubSeq(mpdu, a, z)
        BY <3>2, <4>1 DEF Body
      <4>5. \A j \in 1..len : a + j - 1 = i + 1 + j
        BY <4>1
      <4> QED
        BY <4>2, <4>3, <4>4, <4>5
    <3> HIDE DEF b
    <3>4. len >= 5
      BY <2>2, <3>3 DEF IsRid, b
    <3>5. b[5] \in U8
      <4>1. 5 \in 1..len /\ i + 1 + 5 \in 1..n
        BY <3>2, <3>4
      <4> QED
        BY <1>2, <3>3, <4>1
    <3>6. SubSeq(b, 6, Len(b)) \in Bytes /\ Len(SubSeq(b, 6, Len(b))) <= 250
      <4>1. 6 >= 1 /\ len <= Len(b) /\ 6 <= len + 1 /\ len - 6 + 1 <= 250 /\ 6 \in Nat
        BY <3>2, <3>3, <3>4
      <4>2. SubSeq(b, 6, len) \in Bytes /\ Len(SubSeq(b, 6, len)) = len - 6 + 1
        BY <3>2, <3>3, <4>1, CutBytes
      <4> QED
        BY <3>3, <4>1, <4>2
    <3> QED
      BY <2>1, <3>5, <3>6 DEF Found, IsRidFound, b
  <2> DEFINE S == {i \in 1..n + 1 : i >= 37 => IsRidFound(Walk(mpdu)[i])}
  <2>3. ASSUME NEW i \in 1..n + 1, \A j \in i + 1..n + 1 : j \in S PROVE i \in S
    <3> SUFFICES ASSUME i >= 37 PROVE IsRidFound(Walk(mpdu)[i])
      OBVIOUS
    <3>1. Walk(mpdu)[i] = WalkAt(mpdu, Walk(mpdu), i)
      <4>1. HEAD <= Len(mpdu) /\ i \in HEAD + 1..Len(mpdu) + 1
        BY <1>1, <1>5 DEF HEAD
      <4> QED
        BY <1>2, <4>1, WalkDefined
    <3>2. CASE i > n \/ i = n \/ i + 1 + mpdu[i + 1] > n
      BY <1>1, <1>3, <3>1, <3>2 DEF WalkAt
    <3>3. CASE ~(i > n \/ i = n \/ i + 1 + mpdu[i + 1] > n) /\ IsRid(mpdu[i], Body(mpdu, i))
      <4>1. i \in 37..n
        BY <3>3
      <4>2. IsRidFound(Found(mpdu, i))
        BY <2>2, <3>3, <4>1
      <4> QED
        BY <1>1, <3>1, <3>3, <4>2 DEF WalkAt
    <3>4. CASE ~(i > n \/ i = n \/ i + 1 + mpdu[i + 1] > n) /\ ~IsRid(mpdu[i], Body(mpdu, i))
      <4>1. i + 1 \in 1..n
        BY <3>4
      <4>2. mpdu[i + 1] \in Nat
        <5>1. mpdu[i + 1] \in U8 /\ U8 \subseteq Nat
          BY <1>2, <4>1 DEF U8
        <5> QED
          BY <5>1
      <4>3. i + 2 + mpdu[i + 1] \in i + 1..n + 1 /\ i + 2 + mpdu[i + 1] >= 37
        BY <3>4, <4>2, SMTT(30)
      <4>4. IsRidFound(Walk(mpdu)[i + 2 + mpdu[i + 1]])
        BY <2>3, <4>3
      <4> QED
        BY <1>1, <3>1, <3>4, <4>4 DEF WalkAt
    <3> QED
      BY <3>2, <3>3, <3>4
  <2>4. IsRidFound(Walk(mpdu)[37])
    <3> HIDE DEF S
    <3>1. ClosedBack(S, n + 1) /\ n + 1 \in Nat /\ 37 \in 1..n + 1
      BY <1>5, <2>3 DEF ClosedBack
    <3>2. 37 \in S
      BY <3>1, Descend
    <3> QED
      BY <3>2 DEF S
  <2>5. HEAD + 1 = 37
    BY DEF HEAD
  <2> QED
    BY <1>3, <2>4, <2>5, ParseIs
<1> QED
  BY <1>4, <1>5

\* Nothing is left out where all are messages.
LEMMA AllKept ==
    ASSUME NEW T, NEW values \in Seq(T), \A k \in 1..Len(values) : IsMessage(values[k])
    PROVE  Kept(values) = values
<1> DEFINE N == Len(values)
           cut(k) == [i \in 1..k |-> values[i]]
           At(g, k) == IF k = 0 THEN <<>>
                       ELSE IF IsMessage(values[k]) THEN Append(g[k - 1], values[k]) ELSE g[k - 1]
           Fun(g) == g = [k \in 0..N |-> At(g, k)]
           h == [k \in 0..N |-> cut(k)]
<1>1. N \in Nat /\ \A k \in 1..N : values[k] \in T
  OBVIOUS
<1>2. cut(0) = <<>>
  OBVIOUS
<1>3. ASSUME NEW k \in 1..N PROVE Append(cut(k - 1), values[k]) = cut(k)
  <2>1. PICK j \in Nat : j = k - 1 /\ j <= N
    BY <1>1
  <2>2. cut(j) \in Seq(T) /\ Len(cut(j)) = j /\ cut(k) \in Seq(T) /\ Len(cut(k)) = k
    BY <1>1, <2>1
  <2>3. \A i \in 1..j : cut(j)[i] = values[i]
    OBVIOUS
  <2>4. \A i \in 1..k : cut(k)[i] = values[i]
    OBVIOUS
  <2> HIDE DEF cut
  <2>5. /\ Append(cut(j), values[k]) \in Seq(T) /\ Len(Append(cut(j), values[k])) = k
        /\ \A i \in 1..k : Append(cut(j), values[k])[i] = values[i]
    BY <1>1, <2>1, <2>2, <2>3
  <2> QED
    BY <2>1, <2>2, <2>4, <2>5, SeqEqual
<1>4. Fun(h)
  <2>1. ASSUME NEW k \in 0..N PROVE At(h, k) = cut(k)
    <3>1. CASE k = 0
      BY <1>2, <3>1
    <3>2. CASE k # 0
      <4>1. k \in 1..N /\ k - 1 \in 0..N
        BY <1>1, <3>2
      <4>2. h[k - 1] = cut(k - 1) /\ IsMessage(values[k])
        BY <4>1, SMTT(30)
      <4> HIDE DEF h, cut
      <4> QED
        BY <1>3, <3>2, <4>1, <4>2
    <3> QED
      BY <3>1, <3>2
  <2> HIDE DEF At, cut
  <2> QED
    BY <2>1
<1> HIDE DEF h
<1> DEFINE g == CHOOSE g : Fun(g)
<1>5. Fun(g) /\ Kept(values) = g[N]
  BY <1>4 DEF Kept
<1> HIDE DEF g
<1>6. g[0] = cut(0) /\ \A k \in 1..N : g[k] = Append(g[k - 1], values[k])
  <2>1. \A k \in 0..N : g[k] = At(g, k)
    <3> HIDE DEF At
    <3> QED
      BY <1>5
  <2>2. 0 \in 0..N /\ \A k \in 1..N : k \in 0..N /\ k # 0
    BY <1>1
  <2> QED
    BY <1>2, <2>1, <2>2
<1> DEFINE S == {k \in 1..N : g[k] = cut(k)}
<1>7. ASSUME NEW k \in 1..N, \A j \in 1..k - 1 : j \in S PROVE k \in S
  <2>1. g[k - 1] = cut(k - 1)
    <3>1. CASE k = 1
      BY <1>6, <3>1
    <3>2. CASE k # 1
      <4>1. k - 1 \in 1..k - 1
        BY <3>2
      <4> QED
        BY <1>7, <4>1
    <3> QED
      BY <3>1, <3>2
  <2> HIDE DEF cut
  <2> QED
    BY <1>3, <1>6, <2>1
<1>8. g[N] = cut(N)
  <2>1. CASE N = 0
    BY <1>6, <2>1
  <2>2. CASE N # 0
    <3> HIDE DEF S
    <3>1. ClosedOn(S, N) /\ N \in 1..N
      BY <1>1, <1>7, <2>2 DEF ClosedOn
    <3>2. N \in S
      BY <1>1, <3>1, Ascend
    <3> QED
      BY <3>2 DEF S
  <2> QED
    BY <2>1, <2>2
<1>9. cut(N) = values
  OBVIOUS
<1> QED
  BY <1>5, <1>8, <1>9

-----------------------------------------------------------------------------
(* The host's line: what it says of a beacon *)

\* What the radio says of a beacon, and the numbers of its frame.
Reception == [channel : Octets(1), rssi : Octets(1), t_mac_us : Octets(4), seq : Octets(4),
              t_dev_us : Octets(8)]

\* The observation of a beacon reaches the host as it was made.
Arrives(rid, rx) ==
    LET wire == FrameBuf(ObsFrame(rid, rx)) IN
    wire # None /\ HostFrame(Front(wire[1])) = Ok(ObsFrame(rid, rx))

LEMMA ObsArrives ==
    ASSUME NEW rid, IsRidFound(rid), rid.ok, NEW rx \in Reception
    PROVE  Arrives(rid, rx) /\ (Len(rid.pack) + 5) % 256 = Len(rid.pack) + 5
<1> DEFINE f == ObsFrame(rid, rx)
           o == ObsOf(rid, rx)
<1>1. /\ rid.src_mac \in Octets(6) /\ rid.msg_counter \in U8 /\ rid.pack \in Bytes
      /\ Len(rid.pack) <= 250 /\ Len(rid.pack) \in Nat
  BY DEF IsRidFound, Bytes
<1>2. Captured(rid.pack) \in Bytes /\ Len(Captured(rid.pack)) <= PACK_CAP
  BY <1>1, CapturedIs
<1>3. (Len(rid.pack) + 5) % 256 = Len(rid.pack) + 5 /\ (Len(rid.pack) + 5) % 256 \in U8
  <2>1. PICK n \in Nat : n = Len(rid.pack) /\ n <= 250
    BY <1>1
  <2>2. n + 5 \in 0..255 /\ \A j \in 0..255 : j % 256 = j
    <3>1. n + 5 \in 0..255
      <4>1. \A m \in Nat : m <= 250 => m + 5 \in 0..255
        OBVIOUS
      <4> QED
        BY <2>1, <4>1, Zenon
    <3>2. \A j \in 0..255 : j % 256 = j
      OBVIOUS
    <3> QED
      BY <3>1, <3>2
  <2>3. (n + 5) % 256 = n + 5 /\ (n + 5) % 256 \in U8
    BY <2>2 DEF U8
  <2> QED
    BY <2>1, <2>3
<1>4. \A b \in U8 : <<b>> \in Octets(1)
  BY DEF Octets
<1>5. o \in ObsPayload
  <2>1. <<1>> \in Octets(1) /\ <<rid.msg_counter>> \in Octets(1)
        /\ <<(Len(rid.pack) + 5) % 256>> \in Octets(1)
    <3>1. 1 \in U8
      BY DEF U8
    <3> QED
      BY <1>1, <1>3, <1>4, <3>1
  <2>2. rx.channel \in Octets(1) /\ rx.rssi \in Octets(1) /\ rx.t_mac_us \in Octets(4)
    BY DEF Reception
  <2> QED
    BY <1>1, <1>2, <2>1, <2>2 DEF ObsOf, ObsPayload
<1>6. f \in DeviceFrames /\ f.ty = "OBS" /\ f.payload = o
  <2>1. f = [ty |-> "OBS", seq |-> rx.seq, t_dev_us |-> rx.t_dev_us, payload |-> o]
    BY DEF ObsFrame
  <2>2. rx.seq \in Octets(4) /\ rx.t_dev_us \in Octets(8)
    BY DEF Reception
  <2> HIDE DEF o, f
  <2> QED
    BY <1>5, <2>1, <2>2 DEF DeviceFrames, FramesOf
<1>7. o.pack = Captured(rid.pack)
  BY DEF ObsOf
<1> HIDE DEF f, o
<1>8. Len(f.payload.pack) \in Nat /\ Len(f.payload.pack) <= PACK_CAP /\ PACK_CAP \in Nat
  BY <1>2, <1>6, <1>7 DEF Bytes, PACK_CAP
<1>9. ~(f.ty = "OBS" /\ Len(f.payload.pack) > PACK_CAP)
  BY <1>8
<1>10. ~(f.ty = "LOG")
  BY <1>6
<1>11. FrameSurvives(f)
  BY <1>6, FrameRoundTrips
<1>12. FrameBuf(f) # None /\ HostFrame(Front(FrameBuf(f)[1])) = Ok(f)
  BY <1>9, <1>10, <1>11 DEF FrameSurvives
<1> QED
  BY <1>3, <1>12 DEF Arrives, f

LEMMA TypesDecode ==
    ASSUME NEW m, Hi(m[0]) \in 0..5
    PROVE  /\ IsMessage(decode_message(m))
<1>1. CASE Hi(m[0]) = 0
  BY <1>1 DEF decode_message, IsMessage
<1>2. CASE Hi(m[0]) = 1
  BY <1>2 DEF decode_message, IsMessage
<1>3. CASE Hi(m[0]) = 2
  BY <1>3 DEF decode_message, IsMessage
<1>4. CASE Hi(m[0]) = 3
  BY <1>4 DEF decode_message, IsMessage
<1>5. CASE Hi(m[0]) = 4
  BY <1>5 DEF decode_message, IsMessage
<1>6. CASE Hi(m[0]) = 5
  BY <1>6 DEF decode_message, IsMessage
<1> QED
  BY <1>1, <1>2, <1>3, <1>4, <1>5, <1>6

\* Every message of a pack that is accepted decodes.
LEMMA AcceptedDecode ==
    ASSUME NEW pack \in Bytes, parse_pack(pack).ok
    PROVE  Kept(Decoded(parse_pack(pack).msgs)) = Decoded(parse_pack(pack).msgs)
<1> DEFINE msgs == Msgs(pack)
           values == Decoded(msgs)
<1>1. /\ ~(Len(pack) < 3) /\ ContentOK(msgs) /\ parse_pack(pack) = [ok |-> TRUE, msgs |-> msgs]
  <2> HIDE DEF msgs
  <2>1. \A e : Failed(e).ok = FALSE
    BY DEF Failed
  <2> QED
    BY <2>1, ParsePackIs DEF msgs
<1>2. PICK n \in Nat : n = pack[3]
  <2>1. 3 \in 1..Len(pack)
    BY <1>1 DEF Bytes
  <2> QED
    BY <2>1 DEF Bytes
<1>3. DOMAIN msgs = 1..n
  BY <1>2 DEF Msgs
<1> HIDE DEF msgs
<1>4. ASSUME NEW k \in 1..n PROVE IsMessage(decode_message(AsOffsets(msgs[k])))
  <2>1. TypeOf(msgs[k]) \in 0..5
    BY <1>1, <1>3 DEF ContentOK, MaxPerType
  <2>2. AsOffsets(msgs[k])[0] = msgs[k][0 + 1] /\ 0 + 1 = 1
    BY DEF AsOffsets, Offsets
  <2>3. Hi(AsOffsets(msgs[k])[0]) \in 0..5
    BY <2>1, <2>2 DEF Hi, TypeOf
  <2> QED
    BY <2>3, TypesDecode
<1>5. values = [k \in 1..n |-> decode_message(AsOffsets(msgs[k]))]
  BY <1>3 DEF Decoded
<1> HIDE DEF values
<1>6. values \in Seq({values[k] : k \in 1..n}) /\ Len(values) = n
  BY <1>5
<1>7. \A k \in 1..Len(values) : IsMessage(values[k])
  BY <1>4, <1>5, <1>6
<1>8. Kept(values) = values
  BY <1>6, <1>7, AllKept
<1>9. parse_pack(pack).msgs = msgs
  BY <1>1
<1> QED
  BY <1>8, <1>9 DEF values

\* What the host reports of a beacon is what its element holds, whatever was found in it.
LEMMA FoundReported ==
    ASSUME NEW mpdu, IsRidFound(parse_beacon(mpdu)), NEW rx \in Reception
    PROVE  HostReports(mpdu, rx)
<1> DEFINE rid == parse_beacon(mpdu)
           whole == parse_pack(rid.pack)
           f == ObsFrame(rid, rx)
           o == ObsOf(rid, rx)
<1> SUFFICES ASSUME rid.ok PROVE HostReports(mpdu, rx)
  BY DEF HostReports
<1>1. IsRidFound(rid)
  OBVIOUS
<1> HIDE DEF rid
<1>2. Arrives(rid, rx) /\ (Len(rid.pack) + 5) % 256 = Len(rid.pack) + 5
  BY <1>1, ObsArrives
<1>3. FrameBuf(f) # None /\ HostFrame(Front(FrameBuf(f)[1])) = Ok(f)
  BY <1>2 DEF Arrives
<1>4. /\ f.seq = rx.seq /\ f.t_dev_us = rx.t_dev_us /\ f.payload = o
      /\ o.rssi_dbm = rx.rssi /\ o.ie_len[1] = Len(rid.pack) + 5 /\ o.pack = Captured(rid.pack)
  BY <1>2 DEF ObsFrame, ObsOf
<1>5. Ok(f).ok /\ Ok(f).frame = f
  BY DEF Ok
<1>6. parse_pack(o.pack) = whole
  <2>1. rid.pack \in Bytes
    BY <1>1 DEF IsRidFound
  <2> QED
    BY <1>4, <2>1, VerdictKept
<1> HIDE DEF f, o
<1>7. CASE whole.ok
  <2>1. Kept(Decoded(whole.msgs)) = Decoded(whole.msgs)
    <3>1. rid.pack \in Bytes
      BY <1>1 DEF IsRidFound
    <3> QED
      BY <1>7, <3>1, AcceptedDecode
  <2> HIDE DEF whole
  <2>2. HostLine(o) = [pack_error |-> None, messages |-> Decoded(whole.msgs)]
    BY <1>6, <1>7, <2>1 DEF HostLine
  <2> QED
    BY <1>3, <1>4, <1>5, <1>7, <2>2 DEF HostReports, f, rid, whole
<1>8. CASE ~whole.ok
  <2> HIDE DEF whole
  <2>2. HostLine(o) = [pack_error |-> Some(whole.err), messages |-> <<>>]
    BY <1>6, <1>8 DEF HostLine
  <2> QED
    BY <1>3, <1>4, <1>5, <1>8, <2>2 DEF HostReports, f, rid, whole
<1> QED
  BY <1>7, <1>8

-----------------------------------------------------------------------------
(* The host's line: what an encoder sends *)

\* The parts of a message are bytes.
ByteParts(parts, n) ==
    /\ DOMAIN parts = 1..n
    /\ \A k \in 1..n : \A j \in DOMAIN parts[k][2] : parts[k][2][j] \in U8

LEMMA PutOctets ==
    ASSUME NEW n \in Nat, NEW parts, ByteParts(parts, n)
    PROVE  put(parts) \in [Offsets -> U8]
<1> SUFFICES ASSUME NEW i \in Offsets PROVE ByteAt(parts, i) \in U8
  BY DEF put
<1> DEFINE covering == Covering(parts, i)
           top(l) == \A m \in covering : m <= l
<1>1. covering \subseteq 1..n
  BY DEF Covering, ByteParts
<1>2. CASE covering = {}
  BY <1>2 DEF ByteAt, U8
<1>3. CASE covering # {}
  <2> DEFINE Left == {m \in Nat : \E l \in covering : m = n - l}
  <2>1. PICK l \in covering : top(l)
    <3>1. Left \in SUBSET Nat
      OBVIOUS
    <3>2. Left # {}
      <4>1. PICK l \in covering : TRUE
        BY <1>3
      <4>2. n - l \in Left
        BY <1>1, <4>1
      <4> QED
        BY <4>2
    <3> HIDE DEF Left, covering
    <3>3. PICK m \in Left : \A x \in Left : m <= x
      BY <3>1, <3>2, Least
    <3>4. PICK l \in covering : m = n - l
      BY <3>3 DEF Left
    <3>5. ASSUME NEW k \in covering PROVE k <= l
      <4>1. n - k \in Left
        BY <1>1 DEF Left
      <4>2. m <= n - k
        BY <3>3, <4>1
      <4> QED
        BY <1>1, <3>4, <4>2
    <3> QED
      BY <3>4, <3>5
  <2> DEFINE c == CHOOSE k \in covering : top(k)
  <2>2. c \in covering
    BY <2>1
  <2> HIDE DEF c
  <2>3. c \in 1..n /\ i - parts[c][1] + 1 \in DOMAIN parts[c][2]
    BY <1>1, <2>2 DEF Covering
  <2>4. parts[c][2][i - parts[c][1] + 1] \in U8
    BY <2>3 DEF ByteParts
  <2>5. ByteAt(parts, i) = parts[c][2][i - parts[c][1] + 1]
    BY <1>3 DEF ByteAt, c
  <2> QED
    BY <2>4, <2>5
<1> QED
  BY <1>2, <1>3

\* A byte, and a string of bytes, as parts.
IsPart(b) == \A j \in DOMAIN b : b[j] \in U8

LEMMA OnePart == ASSUME NEW b \in U8 PROVE IsPart(<<b>>)
<1>1. DOMAIN <<b>> = 1..1 /\ << b >>[1] = b
  OBVIOUS
<1>2. \A j \in 1..1 : j = 1
  OBVIOUS
<1> QED
  BY <1>1, <1>2 DEF IsPart

LEMMA OctetsPart == ASSUME NEW n \in Nat, NEW b \in Octets(n) PROVE IsPart(b)
BY DEF IsPart, Octets

LEMMA BasicIdBytes == ASSUME NEW v \in BasicId PROVE encode(v) \in [Offsets -> U8]
<1> DEFINE parts == <<header(0, v), <<1, <<Nibbles(v.id_type, v.ua_type)>>>>, <<2, v.uas_id>>>>
<1>1. /\ v.proto_version \in U8 /\ v.id_type \in U8 /\ v.ua_type \in U8 /\ v.uas_id \in Octets(20)
      /\ v.kind = "BasicId" /\ 0 \in U8
  BY DEF BasicId, U8
<1>2. IsPart(<<Nibbles(0, v.proto_version)>>) /\ IsPart(<<Nibbles(v.id_type, v.ua_type)>>)
  <2>1. Nibbles(0, v.proto_version) \in U8 /\ Nibbles(v.id_type, v.ua_type) \in U8
    BY <1>1, NibblesRead
  <2> QED
    BY <2>1, OnePart
<1>3. IsPart(v.uas_id)
  <2>1. 20 \in Nat
    OBVIOUS
  <2> QED
    BY <1>1, <2>1, OctetsPart
<1>4. ByteParts(parts, 3)
  BY <1>2, <1>3 DEF ByteParts, IsPart, header
<1>5. put(parts) \in [Offsets -> U8]
  <2> HIDE DEF parts
  <2> QED
    BY <1>4, PutOctets
<1> QED
  BY <1>1, <1>5 DEF encode, encode_basic_id

LEMMA AuthBytes == ASSUME NEW v \in AuthPage PROVE encode(v) \in [Offsets -> U8]
<1> DEFINE parts == <<header(2, v), <<1, <<Nibbles(v.auth_type, v.data_page)>>>>, <<2, v.data>>>>
<1>1. /\ v.proto_version \in U8 /\ v.auth_type \in U8 /\ v.data_page \in U8 /\ v.data \in Octets(23)
      /\ v.kind = "Auth" /\ 2 \in U8
  BY DEF AuthPage, U8
<1>2. IsPart(<<Nibbles(2, v.proto_version)>>) /\ IsPart(<<Nibbles(v.auth_type, v.data_page)>>)
  <2>1. Nibbles(2, v.proto_version) \in U8 /\ Nibbles(v.auth_type, v.data_page) \in U8
    BY <1>1, NibblesRead
  <2> QED
    BY <2>1, OnePart
<1>3. IsPart(v.data)
  <2>1. 23 \in Nat
    OBVIOUS
  <2> QED
    BY <1>1, <2>1, OctetsPart
<1>4. ByteParts(parts, 3)
  BY <1>2, <1>3 DEF ByteParts, IsPart, header
<1>5. put(parts) \in [Offsets -> U8]
  <2> HIDE DEF parts
  <2> QED
    BY <1>4, PutOctets
<1> QED
  BY <1>1, <1>5 DEF encode, encode_auth

LEMMA SelfIdBytes == ASSUME NEW v \in SelfId PROVE encode(v) \in [Offsets -> U8]
<1> DEFINE parts == <<header(3, v), <<1, <<v.desc_type>>>>, <<2, v.desc>>>>
<1>1. /\ v.proto_version \in U8 /\ v.desc_type \in U8 /\ v.desc \in Octets(23)
      /\ v.kind = "SelfId" /\ 3 \in U8
  BY DEF SelfId, U8
<1>2. IsPart(<<Nibbles(3, v.proto_version)>>) /\ IsPart(<<v.desc_type>>)
  <2>1. Nibbles(3, v.proto_version) \in U8 /\ v.desc_type \in U8
    BY <1>1, NibblesRead
  <2> QED
    BY <2>1, OnePart
<1>3. IsPart(v.desc)
  <2>1. 23 \in Nat
    OBVIOUS
  <2> QED
    BY <1>1, <2>1, OctetsPart
<1>4. ByteParts(parts, 3)
  BY <1>2, <1>3 DEF ByteParts, IsPart, header
<1>5. put(parts) \in [Offsets -> U8]
  <2> HIDE DEF parts
  <2> QED
    BY <1>4, PutOctets
<1> QED
  BY <1>1, <1>5 DEF encode, encode_self_id

LEMMA OperatorIdBytes == ASSUME NEW v \in OperatorId PROVE encode(v) \in [Offsets -> U8]
<1> DEFINE parts == <<header(5, v), <<1, <<v.operator_id_type>>>>, <<2, v.operator_id>>>>
<1>1. /\ v.proto_version \in U8 /\ v.operator_id_type \in U8 /\ v.operator_id \in Octets(20)
      /\ v.kind = "OperatorId" /\ 5 \in U8
  BY DEF OperatorId, U8
<1>2. IsPart(<<Nibbles(5, v.proto_version)>>) /\ IsPart(<<v.operator_id_type>>)
  <2>1. Nibbles(5, v.proto_version) \in U8 /\ v.operator_id_type \in U8
    BY <1>1, NibblesRead
  <2> QED
    BY <2>1, OnePart
<1>3. IsPart(v.operator_id)
  <2>1. 20 \in Nat
    OBVIOUS
  <2> QED
    BY <1>1, <2>1, OctetsPart
<1>4. ByteParts(parts, 3)
  BY <1>2, <1>3 DEF ByteParts, IsPart, header
<1>5. put(parts) \in [Offsets -> U8]
  <2> HIDE DEF parts
  <2> QED
    BY <1>4, PutOctets
<1> QED
  BY <1>1, <1>5 DEF encode, encode_operator_id

LEMMA LocationBytes == ASSUME NEW v \in Location PROVE encode(v) \in [Offsets -> U8]
<1> DEFINE flags == ((v.status * 16) % 256) + (v.height_type % 2) * 4
                        + (v.ew_direction % 2) * 2 + (v.speed_mult % 2)
           parts == <<header(1, v), <<1, <<flags>>>>,
                      <<2, <<v.direction_raw, v.speed_h_raw, v.speed_v_raw>>>>, <<5, v.lat_e7>>,
                      <<9, v.lon_e7>>, <<13, v.alt_baro_raw>>, <<15, v.alt_geo_raw>>,
                      <<17, v.height_raw>>,
                      <<19, <<Nibbles(v.vert_acc, v.horiz_acc), Nibbles(v.baro_acc, v.speed_acc)>>>>,
                      <<21, v.timestamp_raw>>, <<23, <<v.ts_acc % 16>>>>>>
<1>1. /\ v.proto_version \in U8 /\ v.status \in U8 /\ v.height_type \in U8 /\ v.ew_direction \in U8
      /\ v.speed_mult \in U8 /\ v.direction_raw \in U8 /\ v.speed_h_raw \in U8 /\ v.speed_v_raw \in U8
      /\ v.vert_acc \in U8 /\ v.horiz_acc \in U8 /\ v.baro_acc \in U8 /\ v.speed_acc \in U8
      /\ v.ts_acc \in U8 /\ v.kind = "Location" /\ 1 \in U8
  BY DEF Location, U8
<1>2. /\ v.lat_e7 \in Octets(4) /\ v.lon_e7 \in Octets(4) /\ v.alt_baro_raw \in Octets(2)
      /\ v.alt_geo_raw \in Octets(2) /\ v.height_raw \in Octets(2) /\ v.timestamp_raw \in Octets(2)
  BY DEF Location
<1>3. flags \in U8 /\ v.ts_acc % 16 \in U8
  <2>1. ASSUME NEW a \in U8, NEW b \in U8, NEW c \in U8, NEW d \in U8
        PROVE ((a * 16) % 256) + (b % 2) * 4 + (c % 2) * 2 + (d % 2) \in U8
    <3>1. (a * 16) % 256 = 16 * (a % 16) /\ a % 16 \in 0..15
      BY DEF U8
    <3>2. b % 2 \in 0..1 /\ c % 2 \in 0..1 /\ d % 2 \in 0..1
      BY DEF U8
    <3> QED
      BY <3>1, <3>2 DEF U8
  <2>2. \A a \in U8 : a % 16 \in U8
    BY DEF U8
  <2>3. flags \in U8
    <3>1. PICK a \in U8, b \in U8, c \in U8, d \in U8 :
              a = v.status /\ b = v.height_type /\ c = v.ew_direction /\ d = v.speed_mult
      BY <1>1
    <3>2. flags = ((a * 16) % 256) + (b % 2) * 4 + (c % 2) * 2 + (d % 2)
      BY <3>1, Zenon
    <3>3. ((a * 16) % 256) + (b % 2) * 4 + (c % 2) * 2 + (d % 2) \in U8
      BY <2>1
    <3> HIDE DEF flags
    <3> QED
      BY <3>2, <3>3, Zenon
  <2>4. v.ts_acc % 16 \in U8
    BY <1>1, <2>2, Zenon
  <2> QED
    BY <2>3, <2>4
<1> HIDE DEF flags
<1>4. IsPart(<<Nibbles(1, v.proto_version)>>) /\ IsPart(<<flags>>) /\ IsPart(<<v.ts_acc % 16>>)
  <2>1. Nibbles(1, v.proto_version) \in U8 /\ flags \in U8 /\ v.ts_acc % 16 \in U8
    BY <1>1, <1>3, NibblesRead
  <2> QED
    BY <2>1, OnePart
<1>5. IsPart(<<v.direction_raw, v.speed_h_raw, v.speed_v_raw>>)
  BY <1>1 DEF IsPart
<1>6. IsPart(<<Nibbles(v.vert_acc, v.horiz_acc), Nibbles(v.baro_acc, v.speed_acc)>>)
  <2>1. Nibbles(v.vert_acc, v.horiz_acc) \in U8 /\ Nibbles(v.baro_acc, v.speed_acc) \in U8
    BY <1>1, NibblesRead
  <2> QED
    BY <2>1 DEF IsPart
<1>7. /\ IsPart(v.lat_e7) /\ IsPart(v.lon_e7) /\ IsPart(v.alt_baro_raw) /\ IsPart(v.alt_geo_raw)
      /\ IsPart(v.height_raw) /\ IsPart(v.timestamp_raw)
  <2>1. 4 \in Nat /\ 2 \in Nat
    OBVIOUS
  <2> QED
    BY <1>2, <2>1, OctetsPart
<1>8. /\ parts[1][2] = <<Nibbles(1, v.proto_version)>> /\ parts[2][2] = <<flags>>
      /\ parts[3][2] = <<v.direction_raw, v.speed_h_raw, v.speed_v_raw>>
      /\ parts[4][2] = v.lat_e7 /\ parts[5][2] = v.lon_e7 /\ parts[6][2] = v.alt_baro_raw
      /\ parts[7][2] = v.alt_geo_raw /\ parts[8][2] = v.height_raw
      /\ parts[9][2] = <<Nibbles(v.vert_acc, v.horiz_acc), Nibbles(v.baro_acc, v.speed_acc)>>
      /\ parts[10][2] = v.timestamp_raw /\ parts[11][2] = <<v.ts_acc % 16>>
      /\ DOMAIN parts = 1..11
  BY DEF header
<1>9. put(parts) = encode(v)
  BY <1>1 DEF encode, encode_location, flags
<1> HIDE DEF parts
<1>10. \A k \in 1..11 : IsPart(parts[k][2])
  BY <1>4, <1>5, <1>6, <1>7, <1>8
<1>11. ByteParts(parts, 11)
  BY <1>8, <1>10 DEF ByteParts, IsPart
<1> QED
  BY <1>9, <1>11, PutOctets

LEMMA SystemBytes == ASSUME NEW v \in System PROVE encode(v) \in [Offsets -> U8]
<1> DEFINE flags == (v.classification_type % 8) * 4 + (v.operator_location_type % 4)
           parts == <<header(4, v), <<1, <<flags>>>>,
                      <<2, v.op_lat_e7>>, <<6, v.op_lon_e7>>, <<10, v.area_count>>,
                      <<12, <<v.area_radius_raw>>>>, <<13, v.area_ceiling_raw>>,
                      <<15, v.area_floor_raw>>, <<17, <<Nibbles(v.category_eu, v.class_eu)>>>>,
                      <<18, v.op_alt_geo_raw>>, <<20, v.timestamp>>>>
<1>1. /\ v.proto_version \in U8 /\ v.classification_type \in U8 /\ v.operator_location_type \in U8
      /\ v.area_radius_raw \in U8 /\ v.category_eu \in U8 /\ v.class_eu \in U8
      /\ v.kind = "System" /\ 4 \in U8
  BY DEF System, U8
<1>2. /\ v.op_lat_e7 \in Octets(4) /\ v.op_lon_e7 \in Octets(4) /\ v.area_count \in Octets(2)
      /\ v.area_ceiling_raw \in Octets(2) /\ v.area_floor_raw \in Octets(2)
      /\ v.op_alt_geo_raw \in Octets(2) /\ v.timestamp \in Octets(4)
  BY DEF System
<1>3. flags \in U8
  <2>1. ASSUME NEW a \in U8, NEW b \in U8 PROVE (a % 8) * 4 + (b % 4) \in U8
    BY DEF U8
  <2> QED
    BY <1>1, <2>1
<1> HIDE DEF flags
<1>4. /\ IsPart(<<Nibbles(4, v.proto_version)>>) /\ IsPart(<<flags>>) /\ IsPart(<<v.area_radius_raw>>)
      /\ IsPart(<<Nibbles(v.category_eu, v.class_eu)>>)
  <2>1. Nibbles(4, v.proto_version) \in U8 /\ flags \in U8 /\ v.area_radius_raw \in U8 /\ Nibbles(v.category_eu, v.class_eu) \in U8
    BY <1>1, <1>3, NibblesRead
  <2> QED
    BY <2>1, OnePart
<1>5. /\ IsPart(v.op_lat_e7) /\ IsPart(v.op_lon_e7) /\ IsPart(v.area_count)
      /\ IsPart(v.area_ceiling_raw) /\ IsPart(v.area_floor_raw) /\ IsPart(v.op_alt_geo_raw)
      /\ IsPart(v.timestamp)
  <2>1. 4 \in Nat /\ 2 \in Nat
    OBVIOUS
  <2> QED
    BY <1>2, <2>1, OctetsPart
<1>6. /\ parts[1][2] = <<Nibbles(4, v.proto_version)>> /\ parts[2][2] = <<flags>>
      /\ parts[3][2] = v.op_lat_e7 /\ parts[4][2] = v.op_lon_e7 /\ parts[5][2] = v.area_count
      /\ parts[6][2] = <<v.area_radius_raw>> /\ parts[7][2] = v.area_ceiling_raw
      /\ parts[8][2] = v.area_floor_raw /\ parts[9][2] = <<Nibbles(v.category_eu, v.class_eu)>>
      /\ parts[10][2] = v.op_alt_geo_raw /\ parts[11][2] = v.timestamp
      /\ DOMAIN parts = 1..11
  BY DEF header
<1>7. put(parts) = encode(v)
  BY <1>1 DEF encode, encode_system, flags
<1> HIDE DEF parts
<1>8. \A k \in 1..11 : IsPart(parts[k][2])
  BY <1>4, <1>5, <1>6
<1>9. ByteParts(parts, 11)
  BY <1>6, <1>8 DEF ByteParts, IsPart
<1> QED
  BY <1>7, <1>9, PutOctets

\* The type a message is sent as.
Number(v) ==
    CASE v.kind = "BasicId" -> 0
      [] v.kind = "Location" -> 1
      [] v.kind = "Auth" -> 2
      [] v.kind = "SelfId" -> 3
      [] v.kind = "System" -> 4
      [] v.kind = "OperatorId" -> 5

LEMMA KindRead == ASSUME NEW m, Hi(m[0]) \in 0..5 PROVE Number(decode_message(m)) = Hi(m[0])
<1>1. CASE Hi(m[0]) = 0
  <2>1. decode_message(m).kind = "BasicId"
    BY <1>1 DEF decode_message
  <2> QED
    BY <1>1, <2>1 DEF Number
<1>2. CASE Hi(m[0]) = 1
  <2>1. decode_message(m).kind = "Location"
    BY <1>2 DEF decode_message
  <2> QED
    BY <1>2, <2>1 DEF Number
<1>3. CASE Hi(m[0]) = 2
  <2>1. decode_message(m).kind = "Auth"
    BY <1>3 DEF decode_message
  <2> QED
    BY <1>3, <2>1 DEF Number
<1>4. CASE Hi(m[0]) = 3
  <2>1. decode_message(m).kind = "SelfId"
    BY <1>4 DEF decode_message
  <2> QED
    BY <1>4, <2>1 DEF Number
<1>5. CASE Hi(m[0]) = 4
  <2>1. decode_message(m).kind = "System"
    BY <1>5 DEF decode_message
  <2> QED
    BY <1>5, <2>1 DEF Number
<1>6. CASE Hi(m[0]) = 5
  <2>1. decode_message(m).kind = "OperatorId"
    BY <1>6 DEF decode_message
  <2> QED
    BY <1>6, <2>1 DEF Number
<1> QED
  BY <1>1, <1>2, <1>3, <1>4, <1>5, <1>6

\* An encoded message is 25 bytes, and its type is in the first of them.
LEMMA EncodedMessage ==
    ASSUME NEW v \in Message
    PROVE  /\ encode(v) \in [Offsets -> U8]
           /\ Hi(encode(v)[0]) \in 0..5 /\ Hi(encode(v)[0]) = Number(v)
<1> DEFINE m == encode(v)
<1>1. m \in [Offsets -> U8]
  BY BasicIdBytes, LocationBytes, AuthBytes, SelfIdBytes, SystemBytes, OperatorIdBytes DEF Message
<1>2. v.kind \in {"BasicId", "Location", "Auth", "SelfId", "System", "OperatorId"}
  BY DEF Message, BasicId, Location, AuthPage, SelfId, System, OperatorId
<1>3. decode_message(m).kind = v.kind
  <2>1. FieldsSurvive(v)
    BY EveryMessageSurvives
  <2>2. "kind" \in DOMAIN v
    BY DEF Message, BasicId, Location, AuthPage, SelfId, System, OperatorId
  <2>3. "kind" \notin Narrow
    BY DEF Narrow, Flags
  <2> QED
    BY <2>1, <2>2, <2>3 DEF FieldsSurvive
<1> HIDE DEF m
<1>4. Hi(m[0]) \in 0..15
  <2>1. m[0] \in U8
    BY <1>1 DEF Offsets
  <2> QED
    BY <2>1 DEF Hi, U8
<1>5. Hi(m[0]) # 15
  BY <1>2, <1>3 DEF decode_message
<1>6. Hi(m[0]) \notin 6..14
  BY <1>2, <1>3 DEF decode_message
<1>7. Hi(m[0]) \in 0..5
  <2>1. \A h \in 0..15 : h # 15 /\ h \notin 6..14 => h \in 0..5
    OBVIOUS
  <2> QED
    BY <1>4, <1>5, <1>6, <2>1, Zenon
<1>8. Number(decode_message(m)) = Number(v)
  BY <1>3 DEF Number
<1> QED
  BY <1>1, <1>7, <1>8, KindRead DEF m

\* No field is wider than it is sent.
Exact(v) == \A f \in DOMAIN v : f \in Narrow => v[f] \in 0..Values(f) - 1

LEMMA ExactSurvives ==
    ASSUME NEW v \in Message, Exact(v)
    PROVE  decode_message(encode(v)) = v
<1>1. v = [f \in DOMAIN v |-> v[f]]
  BY DEF Message, BasicId, Location, AuthPage, SelfId, System, OperatorId
<1>2. ASSUME NEW f \in DOMAIN v, f \in Narrow PROVE v[f] % Values(f) = v[f]
  <2>1. Values(f) \in {2, 4, 8, 16}
    BY DEF Values
  <2>2. \A n \in {2, 4, 8, 16} : \A x \in 0..n - 1 : x % n = x
    OBVIOUS
  <2> QED
    BY <1>2, <2>1, <2>2 DEF Exact
<1>3. FieldsSurvive(v)
  BY EveryMessageSurvives
<1> QED
  BY <1>1, <1>2, <1>3 DEF FieldsSurvive

\* A message as build_pack is given it.
Sent(v) == [i \in 1..MESSAGE_SIZE |-> encode(v)[i - 1]]

LEMMA SentBytes ==
    ASSUME NEW v \in Message
    PROVE  /\ Sent(v) \in Bytes /\ Len(Sent(v)) = 25
           /\ AsOffsets(Sent(v)) = encode(v)
           /\ TypeOf(Sent(v)) = Number(v) /\ Number(v) \in 0..5
<1>1. /\ encode(v) \in [0..24 -> U8]
      /\ Hi(encode(v)[0]) \in 0..5 /\ Hi(encode(v)[0]) = Number(v)
  BY EncodedMessage DEF Offsets
<1> DEFINE m == encode(v)
           s == [i \in 1..25 |-> m[i - 1]]
<1>2. Sent(v) = s
  BY DEF Sent, MESSAGE_SIZE
<1> HIDE DEF m
<1>3. \A i \in 1..25 : m[i - 1] \in Nat
  <2>1. \A i \in 1..25 : i - 1 \in 0..24
    OBVIOUS
  <2>2. U8 \subseteq Nat /\ \A j \in 0..24 : m[j] \in U8
    BY <1>1 DEF m, U8
  <2> QED
    BY <2>1, <2>2
<1>4. s \in Bytes /\ Len(s) = 25
  BY <1>3 DEF Bytes
<1>5. AsOffsets(s) = m
  <2>1. \A i \in 0..24 : s[i + 1] = m[i]
    <3>1. \A i \in 0..24 : i + 1 \in 1..25 /\ i + 1 - 1 = i
      OBVIOUS
    <3> QED
      BY <3>1
  <2>2. AsOffsets(s) = [i \in 0..24 |-> s[i + 1]]
    BY DEF AsOffsets, Offsets
  <2>3. m = [i \in 0..24 |-> m[i]]
    BY <1>1 DEF m
  <2> HIDE DEF s
  <2> QED
    BY <2>1, <2>2, <2>3
<1>6. s[1] = m[0]
  <2>1. 1 \in 1..25 /\ 1 - 1 = 0
    OBVIOUS
  <2> QED
    BY <2>1
<1> HIDE DEF s
<1> QED
  BY <1>1, <1>2, <1>4, <1>5, <1>6 DEF m, TypeOf, Hi

\* Strings of 25 bytes each lie 25 apart.
LEMMA LaidEvenly ==
    ASSUME NEW N \in Nat, NEW off, off[1] = 0, \A k \in 1..N : off[k + 1] = off[k] + 25
    PROVE  \A k \in 1..N + 1 : off[k] = 25 * (k - 1)
<1> DEFINE S == {k \in 1..N + 1 : off[k] = 25 * (k - 1)}
<1>1. ASSUME NEW k \in 1..N + 1, \A j \in 1..k - 1 : j \in S PROVE k \in S
  <2>1. CASE k = 1
    BY <2>1
  <2>2. CASE k # 1
    <3>1. PICK j \in 1..N : j + 1 = k /\ j \in 1..k - 1
      <4>1. k - 1 \in 1..N /\ k - 1 + 1 = k /\ k - 1 \in 1..k - 1
        BY <2>2
      <4> QED
        BY <4>1
    <3>2. off[j] = 25 * (j - 1)
      BY <1>1, <3>1
    <3>3. off[j + 1] = off[j] + 25
      OBVIOUS
    <3>4. off[k] = 25 * (j - 1) + 25
      BY <3>1, <3>2, <3>3
    <3>5. 25 * (j - 1) + 25 = 25 * (k - 1)
      BY <3>1
    <3>6. off[k] = 25 * (k - 1)
      BY <3>4, <3>5, Zenon
    <3> QED
      BY <3>6
  <2> QED
    BY <2>1, <2>2
<1> HIDE DEF S
<1>2. ClosedOn(S, N + 1) /\ N + 1 \in Nat
  BY <1>1 DEF ClosedOn
<1>3. 1..N + 1 \subseteq S
  BY <1>2, Ascend
<1> QED
  BY <1>3 DEF S

\* Messages of 25 bytes, joined: the kth begins 25 * (k - 1) on.
Messages25(msgs) == msgs \in Seq(Bytes) /\ \A k \in 1..Len(msgs) : Len(msgs[k]) = 25

LEMMA FlattenMessages ==
    ASSUME NEW msgs, Messages25(msgs), NEW N \in Nat, N = Len(msgs)
    PROVE  /\ FlattenSeq(msgs) \in Bytes /\ Len(FlattenSeq(msgs)) = 25 * N
           /\ \A k \in 1..N : Holds(FlattenSeq(msgs), 25 * (k - 1), msgs[k])
<1>1. msgs \in Seq(Bytes) /\ \A k \in 1..N : Len(msgs[k]) = 25
  BY DEF Messages25
<1> DEFINE flat == FlattenSeq(msgs)
<1>2. flat \in Bytes
  BY <1>1, FlattenLays
<1>3. PICK off : Laid(msgs, flat, off)
  BY <1>1, FlattenLays
<1> HIDE DEF flat
<1>4. /\ off[1] = 0 /\ off[N + 1] = Len(flat)
      /\ \A k \in 1..N : off[k + 1] = off[k] + Len(msgs[k]) /\ Holds(flat, off[k], msgs[k])
  BY <1>3 DEF Laid
<1>5. \A k \in 1..N : off[k + 1] = off[k] + 25
  BY <1>1, <1>4
<1>6. \A k \in 1..N + 1 : off[k] = 25 * (k - 1)
  BY <1>4, <1>5, LaidEvenly
<1>7. Len(flat) = 25 * N
  <2>1. N + 1 \in 1..N + 1 /\ N + 1 - 1 = N
    OBVIOUS
  <2> QED
    BY <1>4, <1>6, <2>1
<1>8. \A k \in 1..N : Holds(flat, 25 * (k - 1), msgs[k])
  <2>1. \A k \in 1..N : k \in 1..N + 1
    OBVIOUS
  <2> QED
    BY <1>4, <1>6, <2>1
<1> QED
  BY <1>2, <1>7, <1>8 DEF flat

\* What build_pack joins, parse_pack takes apart.
LEMMA PackTakenApart ==
    ASSUME NEW msgs, Messages25(msgs), NEW N \in 1..9, N = Len(msgs), ContentOK(msgs)
    PROVE  \E pack \in Bytes : /\ build_pack(msgs) = Some(pack) /\ Len(pack) = 3 + 25 * N
                               /\ parse_pack(pack) = [ok |-> TRUE, msgs |-> msgs]
<1> DEFINE h == <<242, 25, N>>
           flat == FlattenSeq(msgs)
           pack == h \o flat
<1>1. N \in Nat /\ N <= 9 /\ N # 0
  BY SMTT(30)
<1>2. /\ flat \in Bytes /\ Len(flat) = 25 * N
      /\ \A k \in 1..N : Holds(flat, 25 * (k - 1), msgs[k])
  BY <1>1, FlattenMessages
<1>3. h \in Bytes /\ Len(h) = 3 /\ h[1] = 242 /\ h[2] = 25 /\ h[3] = N
  BY DEF Bytes
<1>4. build_pack(msgs) = Some(pack)
  <2>1. ~(Len(msgs) > MAX_PACK_MESSAGES)
    BY <1>1 DEF MAX_PACK_MESSAGES
  <2> QED
    BY <2>1 DEF build_pack, MESSAGE_SIZE
<1> HIDE DEF h, flat
<1>5. Joins(h, flat, pack) /\ Holds(h, 0, h)
  BY <1>2, <1>3, Joined, HoldsItself
<1> HIDE DEF pack
<1>6. /\ pack \in Bytes /\ Len(pack) = 3 + 25 * N /\ Holds(pack, 0, h) /\ Holds(pack, 3, flat)
  BY <1>2, <1>3, <1>5 DEF Joins
<1>7. pack[1] = 242 /\ pack[2] = 25 /\ pack[3] = N
  <2>1. \A j \in 1..3 : pack[0 + j] = h[j]
    BY <1>3, <1>6 DEF Holds
  <2>2. 0 + 1 = 1 /\ 0 + 2 = 2 /\ 0 + 3 = 3 /\ 1 \in 1..3 /\ 2 \in 1..3 /\ 3 \in 1..3
    OBVIOUS
  <2> QED
    BY <1>3, <2>1, <2>2
<1>8. ASSUME NEW k \in 1..N
      PROVE  SubSeq(pack, MESSAGE_SIZE * (k - 1) + 4, MESSAGE_SIZE * k + 3) = msgs[k]
  <2>1. PICK o \in Nat : o = 25 * (k - 1)
    OBVIOUS
  <2>2. msgs[k] \in Bytes /\ Len(msgs[k]) = 25
    BY DEF Messages25
  <2>3. Holds(pack, 3 + o, msgs[k])
    BY <1>2, <1>6, <2>1, <2>2, HoldsWithin
  <2>4. arr(pack, 3 + o, 25) = msgs[k]
    <3>1. 25 \in Nat /\ IsField(msgs[k], 25)
      BY <2>2 DEF IsField
    <3> QED
      BY <1>6, <2>3, <3>1, HeldIsCut
  <2>5. 25 * (k - 1) + 4 = 3 + o + 1 /\ 25 * k + 3 = 3 + o + 25
    BY <2>1
  <2> QED
    BY <2>4, <2>5 DEF arr, MESSAGE_SIZE
<1>9. Msgs(pack) = msgs
  <2>1. msgs = [k \in 1..N |-> msgs[k]]
    BY DEF Messages25
  <2>2. Msgs(pack) = [k \in 1..N |-> SubSeq(pack, MESSAGE_SIZE * (k - 1) + 4, MESSAGE_SIZE * k + 3)]
    BY <1>7 DEF Msgs
  <2> QED
    BY <1>8, <2>1, <2>2
<1>10. parse_pack(pack) = [ok |-> TRUE, msgs |-> msgs]
  <2>1. ~(3 + 25 * N < 3) /\ ~(N > 9) /\ N # 0 /\ ~(3 + 25 * N < 3 + 25 * N)
    BY <1>1
  <2>2. 242 \div 16 = 15
    OBVIOUS
  <2> QED
    BY <1>6, <1>7, <1>9, <2>1, <2>2, ParsePackIs DEF MESSAGE_SIZE, MAX_PACK_MESSAGES
<1> QED
  BY <1>4, <1>6, <1>10

\* Values an encoder can put into one pack and get back: each is as wide as its fields,
\* and there are not more of a kind than a pack may hold.
Sendable(values) ==
    /\ values \in Seq(Message) /\ Len(values) \in 1..9
    /\ \A k \in 1..Len(values) : Exact(values[k])
    /\ \A t \in DOMAIN MaxPerType :
           Cardinality({k \in 1..Len(values) : Number(values[k]) = t}) <= MaxPerType[t]

SentAll(values) == [k \in DOMAIN values |-> Sent(values[k])]

LEMMA PackSent ==
    ASSUME NEW values, Sendable(values)
    PROVE  \E pack \in Bytes :
               /\ build_pack(SentAll(values)) = Some(pack) /\ Len(pack) <= 250
               /\ parse_pack(pack).ok
               /\ Decoded(parse_pack(pack).msgs) = values
<1> DEFINE msgs == SentAll(values)
<1>1. PICK N \in 1..9 : N = Len(values) /\ DOMAIN values = 1..N
  BY DEF Sendable
<1>2. ASSUME NEW k \in 1..N
      PROVE  /\ values[k] \in Message
             /\ msgs[k] = Sent(values[k]) /\ msgs[k] \in Bytes /\ Len(msgs[k]) = 25
             /\ AsOffsets(msgs[k]) = encode(values[k])
             /\ TypeOf(msgs[k]) = Number(values[k]) /\ Number(values[k]) \in 0..5
  <2>1. values[k] \in Message
    BY <1>1 DEF Sendable
  <2>2. msgs[k] = Sent(values[k])
    BY <1>1 DEF SentAll
  <2> HIDE DEF msgs
  <2> QED
    BY <2>1, <2>2, SentBytes
<1>3. msgs = [k \in 1..N |-> Sent(values[k])]
  BY <1>1 DEF SentAll
<1>4. DOMAIN msgs = 1..N /\ Len(msgs) = N
  BY <1>3
<1> HIDE DEF msgs
<1>5. Messages25(msgs)
  <2>1. \A k \in 1..N : Sent(values[k]) \in Bytes
    BY <1>2
  <2>2. msgs \in Seq(Bytes)
    BY <1>3, <2>1
  <2> QED
    BY <1>2, <1>4, <2>2 DEF Messages25
<1>6. ContentOK(msgs)
  <2>1. DOMAIN MaxPerType = 0..5
    BY DEF MaxPerType
  <2>2. \A k \in DOMAIN msgs : TypeOf(msgs[k]) \in DOMAIN MaxPerType
    BY <1>2, <1>4, <2>1
  <2>3. ASSUME NEW t \in DOMAIN MaxPerType
        PROVE  {k \in DOMAIN msgs : TypeOf(msgs[k]) = t} = {k \in 1..Len(values) : Number(values[k]) = t}
    BY <1>1, <1>2, <1>4
  <2>4. \A t \in DOMAIN MaxPerType :
            Cardinality({k \in DOMAIN msgs : TypeOf(msgs[k]) = t}) <= MaxPerType[t]
    BY <2>3 DEF Sendable
  <2> QED
    BY <2>2, <2>4 DEF ContentOK
<1>7. PICK pack \in Bytes : /\ build_pack(msgs) = Some(pack) /\ Len(pack) = 3 + 25 * N
                            /\ parse_pack(pack) = [ok |-> TRUE, msgs |-> msgs]
  BY <1>4, <1>5, <1>6, PackTakenApart
<1>8. Len(pack) <= 250
  <2>1. 3 + 25 * N <= 250
    OBVIOUS
  <2> QED
    BY <1>7, <2>1
<1>9. Decoded(msgs) = values
  <2>1. Decoded(msgs) = [k \in 1..N |-> decode_message(AsOffsets(msgs[k]))]
    BY <1>4 DEF Decoded
  <2>2. ASSUME NEW k \in 1..N PROVE decode_message(AsOffsets(msgs[k])) = values[k]
    <3>1. Exact(values[k])
      BY <1>1 DEF Sendable
    <3> QED
      BY <1>2, <3>1, ExactSurvives
  <2>3. values = [k \in 1..N |-> values[k]]
    BY <1>1 DEF Sendable
  <2> QED
    BY <2>1, <2>2, <2>3
<1> QED
  BY <1>7, <1>8, <1>9 DEF msgs

\* What build_beacon writes, parse_beacon finds.
LEMMA BeaconSent ==
    ASSUME NEW mac \in Octets(6), NEW counter \in U8, NEW pack \in Bytes, Len(pack) <= 250
    PROVE  \E mpdu : /\ build_beacon(mac, counter, pack) = Some(mpdu)
                     /\ parse_beacon(mpdu) = [ok |-> TRUE, src_mac |-> mac, msg_counter |-> counter,
                                              pack |-> pack]
<1> DEFINE a == <<BEACON>>
           b == Of(3, 0)
           c == Of(6, 255)
           d == Of(14, 0)
           ab == a \o b
           abc == ab \o c
           m == abc \o mac
           mm == m \o mac
           head == mm \o d
           h == <<VENDOR, Len(pack) + 5>>
           t == <<ODID_OUI_TYPE, counter>>
           ot == ASTM_OUI \o t
           body == ot \o pack
           element == h \o body
           s == head \o element
<1>1. PICK l \in Nat : l = Len(pack) /\ l <= 250
  BY DEF Bytes
<1>2. mac \in Bytes /\ Len(mac) = 6
  <2>1. 6 \in Nat
    OBVIOUS
  <2> QED
    BY <2>1, OctetsAreBytes DEF IsField
<1>3. /\ a \in Bytes /\ Len(a) = 1 /\ a[1] = BEACON /\ b \in Bytes /\ Len(b) = 3
      /\ c \in Bytes /\ Len(c) = 6 /\ d \in Bytes /\ Len(d) = 14
  BY DEF Bytes, BEACON, Of
<1>4. h \in Bytes /\ Len(h) = 2 /\ h[1] = VENDOR /\ h[2] = l + 5
  BY <1>1 DEF Bytes, VENDOR
<1>5. t \in Bytes /\ Len(t) = 2 /\ t[1] = ODID_OUI_TYPE /\ t[2] = counter
  BY DEF Bytes, ODID_OUI_TYPE, U8
<1>6. ASTM_OUI \in Bytes /\ Len(ASTM_OUI) = 3
  BY DEF ASTM_OUI, Bytes
<1>7. build_beacon(mac, counter, pack)
          = Some(a \o b \o c \o mac \o mac \o d \o h \o ASTM_OUI \o t \o pack)
  <2>1. ~(Len(pack) + 5 > 255)
    BY <1>1
  <2> QED
    BY <2>1 DEF build_beacon
<1> HIDE DEF a, b, c, d, h, t
<1>8. Joins(a, b, ab) /\ Holds(a, 0, a)
  BY <1>3, Joined, HoldsItself
<1> HIDE DEF ab
<1>9. ab \in Bytes /\ Len(ab) = 4 /\ Holds(ab, 0, a)
  BY <1>3, <1>8 DEF Joins
<1>10. Joins(ab, c, abc)
  BY <1>3, <1>9, Joined
<1> HIDE DEF abc
<1>11. abc \in Bytes /\ Len(abc) = 10 /\ Holds(abc, 0, a)
  BY <1>3, <1>9, <1>10 DEF Joins
<1>12. Joins(abc, mac, m)
  BY <1>2, <1>11, Joined
<1> HIDE DEF m
<1>13. m \in Bytes /\ Len(m) = 16 /\ Holds(m, 0, a) /\ Holds(m, 10, mac)
  BY <1>2, <1>3, <1>11, <1>12 DEF Joins
<1>14. Joins(m, mac, mm)
  BY <1>2, <1>13, Joined
<1> HIDE DEF mm
<1>15. mm \in Bytes /\ Len(mm) = 22 /\ Holds(mm, 0, a) /\ Holds(mm, 10, mac)
  BY <1>2, <1>3, <1>13, <1>14 DEF Joins
<1>16. Joins(mm, d, head)
  BY <1>3, <1>15, Joined
<1> HIDE DEF head
<1>17. head \in Bytes /\ Len(head) = 36 /\ Holds(head, 0, a) /\ Holds(head, 10, mac)
  BY <1>2, <1>3, <1>15, <1>16 DEF Joins
<1>18. Joins(ASTM_OUI, t, ot) /\ Holds(ASTM_OUI, 0, ASTM_OUI)
  BY <1>5, <1>6, Joined, HoldsItself
<1> HIDE DEF ot
<1>19. ot \in Bytes /\ Len(ot) = 5 /\ Holds(ot, 0, ASTM_OUI) /\ Holds(ot, 3, t)
  BY <1>5, <1>6, <1>18 DEF Joins
<1>20. Joins(ot, pack, body)
  BY <1>19, Joined
<1> HIDE DEF body
<1>21. /\ body \in Bytes /\ Len(body) = 5 + l /\ Holds(body, 0, ASTM_OUI) /\ Holds(body, 3, t)
       /\ Holds(body, 5, pack)
  BY <1>1, <1>5, <1>6, <1>19, <1>20 DEF Joins
<1>22. Joins(h, body, element)
  BY <1>4, <1>21, Joined
<1> HIDE DEF element
<1>23. element \in Bytes /\ Len(element) = 7 + l
  BY <1>4, <1>21, <1>22 DEF Joins
<1>24. Joins(head, element, s)
  BY <1>17, <1>23, Joined
<1> HIDE DEF s
<1>25. /\ s \in Bytes /\ Len(s) = 43 + l /\ Holds(s, 0, a) /\ Holds(s, 10, mac)
       /\ Holds(s, 36, element)
  BY <1>2, <1>3, <1>17, <1>23, <1>24 DEF Joins
<1>26. build_beacon(mac, counter, pack) = Some(s)
  <2>1. a \o b \o c \o mac \o mac \o d = head
    BY DEF ab, abc, m, mm, head
  <2>2. head \o h \in Bytes
    BY <1>4, <1>17, Joined DEF Joins
  <2>3. head \o h \o ASTM_OUI \o t = head \o h \o ot
    BY <1>5, <1>6, <2>2, Associative DEF ot
  <2>4. head \o h \o ot \o pack = head \o h \o body
    BY <1>19, <2>2, Associative DEF body
  <2>5. head \o h \o body = head \o element
    BY <1>4, <1>17, <1>21, Associative DEF element
  <2> QED
    BY <1>7, <2>1, <2>3, <2>4, <2>5 DEF s
<1> DEFINE e == [id |-> VENDOR, body |-> body]
<1>27. e \in Element /\ e.id = VENDOR /\ e.body = body /\ ElementBytes(e) = element
  <2>1. h = <<VENDOR, Len(body)>>
    <3>1. Len(pack) + 5 = Len(body)
      BY <1>1, <1>21
    <3> QED
      BY <3>1 DEF h
  <2> QED
    BY <1>21, <2>1 DEF Element, ElementBytes, element, VENDOR
<1>28. s[37] = VENDOR /\ s[38] = 5 + l /\ Body(s, 37) = body
  <2> HIDE DEF e
  <2>1. /\ s[36 + 1] = e.id /\ s[36 + 2] = Len(e.body) /\ Body(s, 36 + 1) = e.body
    <3>1. 36 \in Nat /\ Holds(s, 36, ElementBytes(e))
      BY <1>25, <1>27
    <3> QED
      BY <1>25, <1>27, <3>1, ElementRead
  <2>2. 36 + 1 = 37 /\ 36 + 2 = 38
    OBVIOUS
  <2> QED
    BY <1>21, <1>27, <2>1, <2>2
<1>29. body[4] = ODID_OUI_TYPE /\ body[5] = counter
  <2>1. \A j \in 1..2 : body[3 + j] = t[j]
    BY <1>5, <1>21 DEF Holds
  <2>2. 3 + 1 = 4 /\ 3 + 2 = 5 /\ 1 \in 1..2 /\ 2 \in 1..2
    OBVIOUS
  <2> QED
    BY <1>5, <2>1, <2>2
<1>30. SubSeq(body, 1, 3) = ASTM_OUI
  <2>1. arr(body, 0, 3) = ASTM_OUI
    <3>1. 3 \in Nat /\ IsField(ASTM_OUI, 3)
      BY <1>6 DEF IsField
    <3> QED
      BY <1>21, <3>1, HeldIsCut
  <2>2. 0 + 1 = 1 /\ 0 + 3 = 3
    OBVIOUS
  <2> QED
    BY <2>1, <2>2 DEF arr
<1>31. SubSeq(body, 6, Len(body)) = pack
  <2>1. arr(body, 5, l) = pack
    <3>1. IsField(pack, l)
      BY <1>1 DEF IsField
    <3> QED
      BY <1>21, <3>1, HeldIsCut
  <2>2. 5 + 1 = 6
    OBVIOUS
  <2> QED
    BY <1>21, <2>1, <2>2 DEF arr
<1>32. SubSeq(s, 11, 16) = mac
  <2>1. arr(s, 10, 6) = mac
    <3>1. 6 \in Nat /\ IsField(mac, 6)
      BY <1>2 DEF IsField
    <3> QED
      BY <1>25, <3>1, HeldIsCut
  <2>2. 10 + 1 = 11 /\ 10 + 6 = 16
    OBVIOUS
  <2> QED
    BY <2>1, <2>2 DEF arr
<1>33. s[1] = BEACON
  <2>1. s[0 + 1] = a[1] /\ 0 + 1 = 1
    BY <1>3, <1>25 DEF Holds
  <2> QED
    BY <1>3, <2>1
<1>34. IsRid(s[37], Body(s, 37))
  <2>1. Len(body) >= 5
    BY <1>21
  <2> QED
    BY <1>28, <1>29, <1>30, <2>1 DEF IsRid
<1>35. Walk(s)[37] = Found(s, 37)
  <2>1. Walk(s)[37] = WalkAt(s, Walk(s), 37)
    <3>1. HEAD <= Len(s) /\ 37 \in HEAD + 1..Len(s) + 1
      BY <1>25 DEF HEAD
    <3> QED
      BY <1>25, <3>1, WalkDefined
  <2>2. ~(37 > Len(s)) /\ ~(37 = Len(s) \/ 37 + 1 + s[37 + 1] > Len(s))
    <3>1. s[37 + 1] = 5 + l
      BY <1>28
    <3> QED
      BY <1>25, <3>1
  <2> QED
    BY <1>34, <2>1, <2>2 DEF WalkAt
<1>36. Found(s, 37) = [ok |-> TRUE, src_mac |-> mac, msg_counter |-> counter, pack |-> pack]
  BY <1>28, <1>29, <1>31, <1>32 DEF Found
<1>37. parse_beacon(s) = Found(s, 37)
  <2>1. ~(Len(s) < HEAD) /\ HEAD + 1 = 37
    BY <1>25 DEF HEAD
  <2> QED
    BY <1>33, <1>35, <2>1, ParseIs
<1> QED
  BY <1>26, <1>36, <1>37

\* Whatever the beacon, the host reports what its element holds.
LEMMA EveryBeaconReported ==
    ASSUME NEW mpdu \in Seq(U8), NEW rx \in Reception
    PROVE  HostReports(mpdu, rx)
BY BeaconParsed, FoundReported

\* Whatever an encoder puts into a beacon, the host reports.
LEMMA EveryMessageReported ==
    ASSUME NEW mac \in Octets(6), NEW counter \in U8, NEW values, Sendable(values), NEW rx \in Reception
    PROVE  HostReportsSent(mac, counter, values, rx)
<1>1. PICK pack \in Bytes :
          /\ build_pack(SentAll(values)) = Some(pack) /\ Len(pack) <= 250
          /\ parse_pack(pack).ok /\ Decoded(parse_pack(pack).msgs) = values
  BY PackSent
<1>2. PICK mpdu : /\ build_beacon(mac, counter, pack) = Some(mpdu)
                  /\ parse_beacon(mpdu) = [ok |-> TRUE, src_mac |-> mac, msg_counter |-> counter,
                                           pack |-> pack]
  BY <1>1, BeaconSent
<1>3. \A x : Some(x)[1] = x
  BY DEF Some
<1> DEFINE rid == parse_beacon(mpdu)
           f == ObsFrame(rid, rx)
           o == ObsOf(rid, rx)
           wire == FrameBuf(f)
<1>4. rid.ok /\ rid.src_mac = mac /\ rid.msg_counter = counter /\ rid.pack = pack
  BY <1>2
<1> HIDE DEF rid
<1>5. Arrives(rid, rx)
  <2>1. IsRidFound(rid)
    BY <1>1, <1>4 DEF IsRidFound
  <2> QED
    BY <1>4, <2>1, ObsArrives
<1>6. HostFrame(Front(wire[1])) = Ok(f)
  BY <1>5 DEF Arrives
<1>7. o.src_mac = mac /\ o.msg_counter = <<counter>> /\ o.pack = Captured(pack)
  BY <1>4 DEF ObsOf
<1>8. Ok(f).frame.payload = o
  BY DEF Ok, ObsFrame
<1> HIDE DEF o, f, wire
<1>9. HostFrame(Front(wire[1])).frame.payload = o
  BY <1>6, <1>8
<1>10. HostLine(o) = [pack_error |-> None, messages |-> values]
  <2>1. parse_pack(o.pack) = parse_pack(pack)
    BY <1>1, <1>7, VerdictKept
  <2>2. Kept(Decoded(parse_pack(pack).msgs)) = values
    BY <1>1, AcceptedDecode
  <2> QED
    BY <1>1, <2>1, <2>2 DEF HostLine
<1>11. SentAll(values)
           = [k \in DOMAIN values |-> [i \in 1..MESSAGE_SIZE |-> encode(values[k])[i - 1]]]
  BY DEF SentAll, Sent
<1>12. build_pack(SentAll(values))[1] = pack /\ build_beacon(mac, counter, pack)[1] = mpdu
  BY <1>1, <1>2, <1>3
<1>13. wire = FrameBuf(ObsFrame(parse_beacon(mpdu), rx))
  BY DEF wire, f, rid
<1> QED
  BY <1>7, <1>9, <1>10, <1>11, <1>12, <1>13, Zenon DEF HostReportsSent

-----------------------------------------------------------------------------
(* The run *)

\* The beacons of the run are such beacons.
LEMMA BeaconHeadIsHead == IsHead(BeaconHead)
<1> DEFINE a == <<BEACON>>
           b == Of(9, 255)
           c == Mac
           d == Of(20, 221)
           x == a \o b
           y == x \o c
           z == y \o d
<1>1. /\ a \in Bytes /\ Len(a) = 1 /\ a[1] = BEACON /\ b \in Bytes /\ Len(b) = 9
      /\ c \in Bytes /\ Len(c) = 6 /\ d \in Bytes /\ Len(d) = 20
  BY DEF Bytes, BEACON, Of, Mac
<1> HIDE DEF a, b, c, d
<1>2. x \in Bytes /\ Len(x) = 10 /\ Holds(x, 0, a)
  <2>1. Joins(a, b, x) /\ Holds(a, 0, a)
    BY <1>1, Joined, HoldsItself
  <2> HIDE DEF x
  <2> QED
    BY <1>1, <2>1 DEF Joins
<1> HIDE DEF x
<1>3. y \in Bytes /\ Len(y) = 16 /\ Holds(y, 0, a)
  <2>1. Joins(x, c, y)
    BY <1>1, <1>2, Joined
  <2> HIDE DEF y
  <2> QED
    BY <1>1, <1>2, <2>1 DEF Joins
<1> HIDE DEF y
<1>4. z \in Bytes /\ Len(z) = 36 /\ Holds(z, 0, a)
  <2>1. Joins(y, d, z)
    BY <1>1, <1>3, Joined
  <2> HIDE DEF z
  <2> QED
    BY <1>1, <1>3, <2>1 DEF Joins
<1>5. z = BeaconHead
  BY DEF z, y, x, d, c, b, a, BeaconHead
<1> HIDE DEF z
<1>6. z[1] = BEACON
  <2>1. z[0 + 1] = a[1] /\ 0 + 1 = 1
    BY <1>1, <1>4 DEF Holds
  <2> QED
    BY <1>1, <2>1
<1> QED
  BY <1>4, <1>5, <1>6 DEF IsHead, HEAD

\* The first Remote ID element of a beacon decides, whatever the elements and whatever
\* comes after the last whole one.
THEOREM FormatsWalk ==
    /\ \A head, tail \in Bytes : \A elements \in Seq(Element) :
          IsHead(head) /\ IsTail(tail) => WalkFindsFirst(head, elements, tail)
    /\ FormatSpec => []FirstMatchWins
<1>1. \A head, tail \in Bytes : \A elements \in Seq(Element) :
          IsHead(head) /\ IsTail(tail) => WalkFindsFirst(head, elements, tail)
  BY WalkFinds
<1>2. InputOK => FirstMatchWins
  <2> SUFFICES ASSUME InputOK, input.of = "beacon" PROVE FirstMatchWins
    BY DEF FirstMatchWins
  <2>1. input \in BeaconInputs
    BY DEF InputOK, NoInput, Inputs, FrameInputs, MessageInputs, DamageInputs, PackInputs, SentInputs
  <2>2. input.elements \in BoundedSeq(Elements, 3)
    BY <2>1 DEF BeaconInputs
  <2>3. Elements \subseteq Element
    <3>1. ASTM_OUI \in Bytes
      BY DEF ASTM_OUI, Bytes
    <3>2. ASSUME NEW b \in Bytes PROVE ASTM_OUI \o b \in Bytes
      BY <3>1, <3>2 DEF Bytes
    <3>3. /\ <<>> \in Bytes /\ <<221, 5>> \in Bytes /\ <<13>> \in Bytes /\ <<14, 1>> \in Bytes
          /\ <<106, 92, 53, 1, 1>> \in Bytes /\ <<13, 1>> \in Bytes /\ <<13, 7>> \in Bytes
          /\ <<13, 8, 242, 25>> \in Bytes
      BY DEF Bytes
    <3> QED
      BY <3>2, <3>3 DEF Elements, Element, VENDOR
  <2>4. input.elements \in Seq(Element)
    <3>1. input.elements \in Seq(Elements)
      <4>1. PICK m \in 0..3 : input.elements \in [1..m -> Elements]
        BY <2>2 DEF BoundedSeq, SeqOf
      <4> QED
        BY <4>1
    <3> QED
      BY <2>3, <3>1
  <2>5. IsTail(input.tail)
    <3>1. input.tail \in {<<>>, <<221>>, <<0, 1>>, <<221, 8, 250, 11, 188, 13, 1>>}
      BY <2>1 DEF BeaconInputs
    <3>2. IsTail(<<>>) /\ IsTail(<<221>>) /\ IsTail(<<0, 1>>)
      BY DEF IsTail, Bytes
    <3>3. IsTail(<<221, 8, 250, 11, 188, 13, 1>>)
      BY DEF IsTail, Bytes
    <3> QED
      BY <3>1, <3>2, <3>3
  <2> QED
    BY <2>4, <2>5, BeaconHeadIsHead, WalkFinds DEF FirstMatchWins
<1> QED
  BY <1>1, <1>2, FormatInductive, PTL DEF FormatSpec

LEMMA RxIsReception == Rx \in Reception /\ Mac \in Octets(6) /\ 9 \in U8
BY DEF Rx, Reception, Mac, Octets, U8

\* The packs of the run fit into an element.
LEMMA PacksFit ==
    ASSUME NEW i \in PackInputs
    PROVE  PackFor(i) \in Bytes /\ Len(PackFor(i)) <= 250
<1>1. /\ i.header \in Nat /\ i.size \in Nat /\ i.count \in Nat /\ i.extra \in Nat /\ i.extra <= 21
  BY DEF PackInputs
<1>2. i.types \in Seq(Nat) /\ Len(i.types) \in 0..9
  <2>1. ASSUME NEW types \in BoundedSeq({0, 1, 2, 6, 15}, 3)
        PROVE types \in Seq(Nat) /\ Len(types) \in 0..9
    <3>1. PICK m \in 0..3 : types \in [1..m -> {0, 1, 2, 6, 15}]
      BY DEF BoundedSeq, SeqOf
    <3>2. m \in Nat /\ m \in 0..9
      OBVIOUS
    <3>3. \A k \in 1..m : types[k] \in Nat
      BY <3>1
    <3>4. types = [k \in 1..m |-> types[k]]
      BY <3>1
    <3>5. types \in Seq(Nat) /\ Len(types) = m
      BY <3>2, <3>3, <3>4
    <3> QED
      BY <3>2, <3>5
  <2>2. ASSUME NEW n \in 0..4
        PROVE  LET types == <<0, 1, 3, 4, 5>> \o [k \in 1..n |-> 2]
               IN  types \in Seq(Nat) /\ Len(types) \in 0..9
    <3> DEFINE x == <<0, 1, 3, 4, 5>>
               y == [k \in 1..n |-> 2]
    <3>1. x \in Seq(Nat) /\ Len(x) = 5 /\ y \in Seq(Nat) /\ Len(y) = n
      OBVIOUS
    <3> HIDE DEF x, y
    <3>2. x \o y \in Seq(Nat) /\ Len(x \o y) = Len(x) + Len(y)
      BY <3>1, ConcatProperties
    <3>3. 5 + n \in 0..9
      OBVIOUS
    <3>4. Len(x \o y) \in 0..9
      BY <3>1, <3>2, <3>3
    <3> QED
      BY <3>2, <3>4 DEF x, y
  <2>3. ASSUME NEW n \in 4..9 PROVE [k \in 1..n |-> 2] \in Seq(Nat) /\ Len([k \in 1..n |-> 2]) \in 0..9
    OBVIOUS
  <2>4. <<1>> \in Seq(Nat) /\ Len(<<1>>) \in 0..9
    OBVIOUS
  <2>5. i.types \in PackTypes \/ i.types = <<1>>
    BY DEF PackInputs
  <2> QED
    BY <2>1, <2>2, <2>3, <2>4, <2>5 DEF PackTypes
<1>3. PICK N \in 0..9 : N = Len(i.types) /\ DOMAIN i.types = 1..N
  <2> DEFINE types == i.types
  <2>1. types \in Seq(Nat) /\ Len(types) \in 0..9
    BY <1>2
  <2> HIDE DEF types
  <2>2. DOMAIN types = 1..Len(types)
    BY <2>1
  <2> QED
    BY <2>1, <2>2 DEF types
<1>4. \A n, k \in Nat : Fill("rising", n, k) \in Bytes /\ Len(Fill("rising", n, k)) = n
  BY DEF Fill, Bytes
<1> DEFINE msg(k) == <<i.types[k] * 16 + 2>> \o Fill("rising", 24, k)
           msgs == [k \in DOMAIN i.types |-> msg(k)]
           h == <<i.header, i.size, i.count>>
           flat == FlattenSeq(msgs)
           rest == Fill("rising", i.extra, 240)
           x == h \o flat
           pack == x \o rest
<1>5. ASSUME NEW k \in 1..N PROVE msg(k) \in Bytes /\ Len(msg(k)) = 25
  <2> DEFINE a == <<i.types[k] * 16 + 2>>
             b == Fill("rising", 24, k)
  <2>1. i.types[k] \in Nat
    BY <1>2, <1>3
  <2>2. a \in Bytes /\ Len(a) = 1
    BY <2>1 DEF Bytes
  <2>3. b \in Bytes /\ Len(b) = 24
    <3>1. 24 \in Nat /\ k \in Nat
      OBVIOUS
    <3> QED
      BY <1>4, <3>1
  <2> HIDE DEF a, b
  <2>4. Joins(a, b, a \o b)
    BY <2>2, <2>3, Joined
  <2>5. a \o b \in Bytes /\ Len(a \o b) = 25
    BY <2>2, <2>3, <2>4 DEF Joins
  <2> QED
    BY <2>5 DEF a, b
<1> HIDE DEF msg
<1>6. msgs = [k \in 1..N |-> msg(k)]
  BY <1>3
<1> HIDE DEF msgs
<1>7. Messages25(msgs) /\ Len(msgs) = N
  <2>1. \A k \in 1..N : msg(k) \in Bytes
    BY <1>5
  <2>2. msgs \in Seq(Bytes) /\ Len(msgs) = N
    BY <1>6, <2>1
  <2> QED
    BY <1>5, <1>6, <2>2 DEF Messages25
<1>8. flat \in Bytes /\ Len(flat) = 25 * N
  <2>1. N \in Nat
    OBVIOUS
  <2> QED
    BY <1>7, <2>1, FlattenMessages
<1> HIDE DEF flat
<1>9. h \in Bytes /\ Len(h) = 3
  BY <1>1 DEF Bytes
<1> HIDE DEF h
<1>10. rest \in Bytes /\ Len(rest) = i.extra
  <2>1. 240 \in Nat
    OBVIOUS
  <2> QED
    BY <1>1, <1>4, <2>1
<1> HIDE DEF rest
<1>11. x \in Bytes /\ Len(x) = 3 + 25 * N
  <2>1. Joins(h, flat, x)
    BY <1>8, <1>9, Joined
  <2> HIDE DEF x
  <2> QED
    BY <1>8, <1>9, <2>1 DEF Joins
<1> HIDE DEF x
<1>12. pack \in Bytes /\ Len(pack) = 3 + 25 * N + i.extra
  <2>1. Joins(x, rest, pack)
    BY <1>10, <1>11, Joined
  <2> HIDE DEF pack
  <2> QED
    BY <1>10, <1>11, <2>1 DEF Joins
<1>13. Len(pack) <= 250
  <2>1. PICK e \in Nat : e = i.extra /\ e <= 21
    BY <1>1
  <2>2. 3 + 25 * N + e <= 250
    BY <2>1
  <2> QED
    BY <1>12, <2>1, <2>2
<1>14. pack = PackFor(i)
  BY DEF pack, x, rest, flat, msgs, msg, h, PackFor
<1> QED
  BY <1>12, <1>13, <1>14

\* The values of the run are such values.
LEMMA SentValue ==
    ASSUME NEW kind \in DOMAIN Fields, NEW base \in {0, 1}
    PROVE  LET v == ValueFor(kind, "rising", base, "kind", 0)
           IN  v \in Message /\ Exact(v) /\ v.kind = kind
<1> DEFINE v == ValueFor(kind, "rising", base, "kind", 0)
<1>1. v \in Message
  <2>1. base \in U8 /\ 0 \in U8
    BY DEF U8
  <2> QED
    BY <2>1, ValuesAreMessages
<1>2. v = [f \in {"kind"} \cup DOMAIN Fields[kind] |->
              IF f = "kind" THEN kind
              ELSE FieldFor("rising", Fields[kind][f], IF f = "kind" THEN 0 ELSE base)]
  BY DEF ValueFor
<1>3. ASSUME NEW f \in DOMAIN Fields[kind], f \in Narrow PROVE Fields[kind][f] = 0 /\ f # "kind"
  <2>1. f # "kind"
    BY <1>3 DEF Narrow, Flags
  <2>2. CASE kind = "BasicId"
    BY <1>3, <2>2 DEF Fields, Narrow, Flags
  <2>3. CASE kind = "Location"
    BY <1>3, <2>3 DEF Fields, Narrow, Flags
  <2>4. CASE kind = "Auth"
    BY <1>3, <2>4 DEF Fields, Narrow, Flags
  <2>5. CASE kind = "SelfId"
    BY <1>3, <2>5 DEF Fields, Narrow, Flags
  <2>6. CASE kind = "System"
    BY <1>3, <2>6 DEF Fields, Narrow, Flags
  <2>7. CASE kind = "OperatorId"
    BY <1>3, <2>7 DEF Fields, Narrow, Flags
  <2> QED
    BY <2>1, <2>2, <2>3, <2>4, <2>5, <2>6, <2>7 DEF Fields
<1> HIDE DEF v
<1>4. ASSUME NEW f \in DOMAIN v, f \in Narrow PROVE v[f] \in 0..Values(f) - 1
  <2>1. f # "kind"
    BY <1>4 DEF Narrow, Flags
  <2>2. f \in DOMAIN Fields[kind]
    BY <1>2, <2>1
  <2>3. Fields[kind][f] = 0
    BY <1>3, <1>4, <2>2
  <2>4. v[f] = base
    BY <1>2, <2>1, <2>2, <2>3 DEF FieldFor
  <2>5. Values(f) \in {2, 4, 8, 16}
    BY DEF Values
  <2>6. \A n \in {2, 4, 8, 16} : \A b \in {0, 1} : b \in 0..n - 1
    OBVIOUS
  <2> QED
    BY <2>4, <2>5, <2>6
<1>5. v.kind = kind
  BY <1>2
<1> QED
  BY <1>1, <1>4, <1>5 DEF Exact, v

SentKinds ==
    {<<kind>> : kind \in DOMAIN Fields} \cup
    {<<"BasicId", "Location", "System", "OperatorId", "SelfId">>,
     <<"BasicId", "BasicId", "Location", "Auth", "Auth", "Auth", "SelfId", "System", "OperatorId">>}

\* Of a type there is at most one, but for two Basic IDs and pages of authentication.
LEMMA FewOfAType ==
    ASSUME NEW t \in 0..5, NEW P, P \subseteq 1..9,
           (\E k : P \subseteq {k}) \/ (t = 0 /\ P \subseteq {1, 2}) \/ t = 2
    PROVE  Cardinality(P) <= MaxPerType[t]
<1>1. MaxPerType[t] = IF t = 0 THEN 2 ELSE IF t = 2 THEN 16 ELSE 1
  <2>1. CASE t = 0
    BY <2>1 DEF MaxPerType
  <2>2. CASE t = 2
    BY <2>2 DEF MaxPerType
  <2>3. CASE t # 0 /\ t # 2
    BY <2>3 DEF MaxPerType
  <2> QED
    BY <2>1, <2>2, <2>3
<1>2. IsFiniteSet(1..9) /\ Cardinality(1..9) = 9
  <2>1. 1 \in Int /\ 9 \in Int
    OBVIOUS
  <2>2. IsFiniteSet(1..9) /\ Cardinality(1..9) = IF 1 > 9 THEN 0 ELSE 9 - 1 + 1
    BY <2>1, FS_Interval
  <2> QED
    BY <2>2
<1>3. Cardinality(P) <= 9 /\ IsFiniteSet(P) /\ Cardinality(P) \in Nat
  BY <1>2, FS_Subset, FS_CardinalityType
<1>4. CASE \E k : P \subseteq {k}
  <2>1. PICK k : P \subseteq {k}
    BY <1>4
  <2>2. IsFiniteSet({k}) /\ Cardinality({k}) = 1
    BY FS_Singleton
  <2>3. Cardinality(P) <= 1
    BY <2>1, <2>2, FS_Subset
  <2> QED
    BY <1>1, <1>3, <2>3
<1>5. CASE t = 0 /\ P \subseteq {1, 2}
  <2>1. {1, 2} = 1..2
    OBVIOUS
  <2>2. IsFiniteSet(1..2) /\ Cardinality(1..2) = IF 1 > 2 THEN 0 ELSE 2 - 1 + 1
    <3>1. 1 \in Int /\ 2 \in Int
      OBVIOUS
    <3> QED
      BY <3>1, FS_Interval
  <2>3. Cardinality(P) <= Cardinality(1..2)
    BY <1>5, <2>1, <2>2, FS_Subset
  <2>4. Cardinality(1..2) = 2
    BY <2>2
  <2> QED
    BY <1>1, <1>5, <2>3, <2>4
<1>6. CASE t = 2
  BY <1>1, <1>3, <1>6
<1> QED
  BY <1>4, <1>5, <1>6

\* The type a kind is sent as.
KindNumber(kind) ==
    CASE kind = "BasicId" -> 0
      [] kind = "Location" -> 1
      [] kind = "Auth" -> 2
      [] kind = "SelfId" -> 3
      [] kind = "System" -> 4
      [] kind = "OperatorId" -> 5

LEMMA KindsFew ==
    ASSUME NEW kinds \in SentKinds, NEW t \in 0..5
    PROVE  /\ Len(kinds) \in 1..9 /\ \A k \in 1..Len(kinds) : kinds[k] \in DOMAIN Fields
           /\ Cardinality({k \in 1..Len(kinds) : KindNumber(kinds[k]) = t}) <= MaxPerType[t]
<1> DEFINE P == {k \in 1..Len(kinds) : KindNumber(kinds[k]) = t}
<1>1. CASE \E kind \in DOMAIN Fields : kinds = <<kind>>
  <2>1. Len(kinds) = 1 /\ \A k \in 1..Len(kinds) : kinds[k] \in DOMAIN Fields
    BY <1>1
  <2>2. P \subseteq {1} /\ P \subseteq 1..9
    BY <2>1
  <2> HIDE DEF P
  <2>3. Cardinality(P) <= MaxPerType[t]
    BY <2>2, FewOfAType
  <2> QED
    BY <2>1, <2>3 DEF P
<1>2. CASE kinds = <<"BasicId", "Location", "System", "OperatorId", "SelfId">>
  <2>1. Len(kinds) = 5 /\ \A k \in 1..Len(kinds) : kinds[k] \in DOMAIN Fields
    BY <1>2 DEF Fields
  <2>2. /\ KindNumber(kinds[1]) = 0 /\ KindNumber(kinds[2]) = 1 /\ KindNumber(kinds[3]) = 4
        /\ KindNumber(kinds[4]) = 5 /\ KindNumber(kinds[5]) = 3
    BY <1>2 DEF KindNumber
  <2>3. (\E k : P \subseteq {k}) /\ P \subseteq 1..9
    <3>1. P \subseteq 1..9
      BY <2>1
    <3>2. \A k \in 1..5 : k = 1 \/ k = 2 \/ k = 3 \/ k = 4 \/ k = 5
      OBVIOUS
    <3>3. \A j, k \in P : j = k
      BY <2>1, <2>2, <3>2
    <3> HIDE DEF P
    <3> QED
      BY <3>1, <3>3
  <2> HIDE DEF P
  <2>4. Cardinality(P) <= MaxPerType[t]
    BY <2>3, FewOfAType
  <2> QED
    BY <2>1, <2>4 DEF P
<1>3. CASE kinds = <<"BasicId", "BasicId", "Location", "Auth", "Auth", "Auth", "SelfId", "System", "OperatorId">>
  <2>1. Len(kinds) = 9 /\ \A k \in 1..Len(kinds) : kinds[k] \in DOMAIN Fields
    BY <1>3 DEF Fields
  <2>2. /\ KindNumber(kinds[1]) = 0 /\ KindNumber(kinds[2]) = 0 /\ KindNumber(kinds[3]) = 1
        /\ KindNumber(kinds[4]) = 2 /\ KindNumber(kinds[5]) = 2 /\ KindNumber(kinds[6]) = 2
        /\ KindNumber(kinds[7]) = 3 /\ KindNumber(kinds[8]) = 4 /\ KindNumber(kinds[9]) = 5
    BY <1>3 DEF KindNumber
  <2>3. \A k \in 1..9 : k = 1 \/ k = 2 \/ k = 3 \/ k = 4 \/ k = 5 \/ k = 6 \/ k = 7 \/ k = 8 \/ k = 9
    OBVIOUS
  <2>4. P \subseteq 1..9
    BY <2>1
  <2>5. CASE t = 0
    <3>1. P \subseteq {1, 2}
      BY <2>1, <2>2, <2>3, <2>5
    <3> HIDE DEF P
    <3>2. Cardinality(P) <= MaxPerType[t]
      BY <2>4, <2>5, <3>1, FewOfAType
    <3> QED
      BY <2>1, <3>2 DEF P
  <2>6. CASE t = 2
    <3> HIDE DEF P
    <3>2. Cardinality(P) <= MaxPerType[t]
      BY <2>4, <2>6, FewOfAType
    <3> QED
      BY <2>1, <3>2 DEF P
  <2>7. CASE t # 0 /\ t # 2
    <3>1. \A j, k \in P : j = k
      BY <2>1, <2>2, <2>3, <2>7
    <3> HIDE DEF P
    <3>2. \E k : P \subseteq {k}
      BY <3>1
    <3>3. Cardinality(P) <= MaxPerType[t]
      BY <2>4, <3>2, FewOfAType
    <3> QED
      BY <2>1, <3>3 DEF P
  <2> QED
    BY <2>5, <2>6, <2>7
<1> QED
  BY <1>1, <1>2, <1>3 DEF SentKinds

LEMMA SentSendable ==
    ASSUME NEW i \in SentInputs
    PROVE  Sendable(SentValues(i))
<1> DEFINE kinds == i.kinds
           values == SentValues(i)
<1>1. kinds \in SentKinds /\ i.base \in {0, 1}
  BY DEF SentInputs, SentKinds
<1>2. PICK N \in 1..9 : N = Len(kinds) /\ DOMAIN kinds = 1..N
  <2>1. 0 \in 0..5
    OBVIOUS
  <2>2. Len(kinds) \in 1..9
    BY <1>1, <2>1, KindsFew
  <2>3. DOMAIN kinds = 1..Len(kinds)
    BY <1>1 DEF SentKinds
  <2> QED
    BY <2>2, <2>3
<1>3. values = [k \in 1..N |-> ValueFor(kinds[k], "rising", i.base, "kind", 0)]
  BY <1>2 DEF SentValues
<1> HIDE DEF values, kinds
<1>4. ASSUME NEW k \in 1..N
      PROVE  values[k] \in Message /\ Exact(values[k]) /\ Number(values[k]) = KindNumber(kinds[k])
  <2>1. kinds[k] \in DOMAIN Fields
    <3>1. 0 \in 0..5
      OBVIOUS
    <3> QED
      BY <1>1, <1>2, <3>1, KindsFew
  <2>2. values[k] = ValueFor(kinds[k], "rising", i.base, "kind", 0)
    BY <1>3
  <2>3. values[k] \in Message /\ Exact(values[k]) /\ values[k].kind = kinds[k]
    BY <1>1, <2>1, <2>2, SentValue
  <2> QED
    BY <2>3 DEF Number, KindNumber
<1>5. values \in Seq(Message) /\ Len(values) = N
  <2>1. values = [k \in 1..N |-> values[k]]
    BY <1>3
  <2> QED
    BY <1>4, <2>1
<1>6. ASSUME NEW t \in DOMAIN MaxPerType
      PROVE  Cardinality({k \in 1..Len(values) : Number(values[k]) = t}) <= MaxPerType[t]
  <2>1. t \in 0..5
    BY DEF MaxPerType
  <2>2. {k \in 1..Len(values) : Number(values[k]) = t} = {k \in 1..Len(kinds) : KindNumber(kinds[k]) = t}
    BY <1>2, <1>4, <1>5
  <2> QED
    BY <1>1, <2>1, <2>2, KindsFew
<1> QED
  BY <1>4, <1>5, <1>6 DEF Sendable, values

\* Whatever the beacon, the host reports what its element holds, though RawObs cut it;
\* and whatever messages an encoder puts into a beacon, the host reports them.
THEOREM FormatsReports ==
    /\ \A mpdu \in Seq(U8), rx \in Reception : HostReports(mpdu, rx)
    /\ \A mac \in Octets(6), counter \in U8, rx \in Reception :
          \A values : Sendable(values) => HostReportsSent(mac, counter, values, rx)
    /\ FormatSpec => []HostReportsPack
<1>1. \A mpdu \in Seq(U8), rx \in Reception : HostReports(mpdu, rx)
  BY EveryBeaconReported
<1>2. \A mac \in Octets(6), counter \in U8, rx \in Reception :
          \A values : Sendable(values) => HostReportsSent(mac, counter, values, rx)
  BY EveryMessageReported
<1>3. InputOK => HostReportsPack
  <2> SUFFICES ASSUME InputOK PROVE HostReportsPack
    OBVIOUS
  <2>1. ASSUME input.of = "pack" PROVE HostReports(build_beacon(Mac, 9, PackFor(input))[1], Rx)
    <3>1. input \in PackInputs
      BY <2>1 DEF InputOK, NoInput, Inputs, FrameInputs, MessageInputs, DamageInputs, BeaconInputs, SentInputs
    <3>2. PICK pack \in Bytes : pack = PackFor(input) /\ Len(pack) <= 250
      BY <3>1, PacksFit
    <3>3. PICK mpdu : /\ build_beacon(Mac, 9, pack) = Some(mpdu)
                      /\ parse_beacon(mpdu) = [ok |-> TRUE, src_mac |-> Mac, msg_counter |-> 9, pack |-> pack]
      BY <3>2, RxIsReception, BeaconSent
    <3>4. IsRidFound(parse_beacon(mpdu))
      BY <3>2, <3>3, RxIsReception DEF IsRidFound
    <3>5. HostReports(mpdu, Rx)
      BY <3>4, RxIsReception, FoundReported
    <3>6. build_beacon(Mac, 9, PackFor(input))[1] = mpdu
      BY <3>2, <3>3 DEF Some
    <3> QED
      BY <3>5, <3>6
  <2>2. ASSUME input.of = "sent" PROVE HostReportsSent(Mac, 9, SentValues(input), Rx)
    <3>1. input \in SentInputs
      BY <2>2 DEF InputOK, NoInput, Inputs, FrameInputs, MessageInputs, DamageInputs, BeaconInputs, PackInputs
    <3> QED
      BY <3>1, SentSendable, RxIsReception, EveryMessageReported
  <2> QED
    BY <2>1, <2>2 DEF HostReportsPack
<1> QED
  BY <1>1, <1>2, <1>3, FormatInductive, PTL DEF FormatSpec
=====================================================================================
