-------------------------------- MODULE LinkProofs --------------------------------
(***************************************************************************)
(* Proofs about the USB link, for any set of contexts, any sequence-number *)
(* width, any queue and port, any number of resets and of host programs    *)
(* started: first the device side (Wire), then the link end to end.        *)
(***************************************************************************)
EXTENDS Link, SequenceTheorems, FiniteSetTheorems, FunctionTheorems, TLAPS

-----------------------------------------------------------------------------
(* The device side.  InSeqOrder is not inductive: a frame is in order only *)
(* because no other context can take a number between a send's read of     *)
(* next and its try_send, so the invariant also says who holds the lock    *)
(* and how next, sends and the frame in hand are related.                  *)

\* A context is inside send exactly when it holds the critical section.
Locked == \A c \in Contexts : cs = c <=> pc[c] # "idle"

\* The frame in hand carries the number the next cell held.
InHand ==
    \A c \in Contexts :
        /\ pc[c] = "read"   => mine[c].n = sends /\ mine[c].seq = next
        /\ pc[c] = "stored" => /\ mine[c].n + 1 = sends
                               /\ mine[c].seq = mine[c].n % SeqMod

\* Every frame on its way is older than the frame in hand and than the next send.
Older ==
    \A i \in 1..Len(Stream) :
        /\ Stream[i].n < sends
        /\ \A c \in Contexts : pc[c] = "stored" => Stream[i].n < mine[c].n

NextIsCount == next = sends % SeqMod

WireInv == WireTypeOK /\ Locked /\ InHand /\ Older /\ NextIsCount /\ InSeqOrder
-----------------------------------------------------------------------------
(* The stream: usb, then the frame being written, then TX_CH *)

\* The three parts hold values of a set S: frames here, frames and what is left of
\* them where the device resets.
Carries(S) ==
    /\ usb \in Seq(S) /\ TX_CH \in Seq(S)
    /\ writing \in Seq(S) /\ Len(writing) <= 1

LEMMA CarriesFrames == WireTypeOK => Carries(Frames)
BY DEF WireTypeOK, Carries

LEMMA StreamType ==
    ASSUME NEW S, Carries(S)
    PROVE  /\ Stream \in Seq(S)
           /\ Len(Stream) = Len(usb) + Len(writing) + Len(TX_CH)
<1>1. usb \in Seq(S) /\ writing \in Seq(S) /\ TX_CH \in Seq(S)
  BY DEF Carries
<1>2. usb \o writing \in Seq(S) /\ Len(usb \o writing) = Len(usb) + Len(writing)
  BY <1>1, ConcatProperties
<1> QED
  BY <1>1, <1>2, ConcatProperties DEF Stream

\* A sequence of at most one element is empty or the singleton of its head.
LEMMA AtMostOne ==
    ASSUME NEW S, NEW s \in Seq(S), Len(s) <= 1, s # <<>>
    PROVE  s = <<Head(s)>> /\ Head(s) \in S
<1>0. Len(s) \in Nat \ {0}
  BY EmptySeq
<1>1. Len(s) = 1
  BY <1>0, SMTT(30)
<1>2. Head(s) \in S /\ Head(s) = s[1]
  BY HeadTailProperties
<1>3. <<Head(s)>> \in Seq(S) /\ Len(<<Head(s)>>) = 1 /\ <<Head(s)>>[1] = s[1]
  BY <1>2
<1> QED
  BY <1>1, <1>2, <1>3, SeqEqual

\* The head of a sequence put back before its tail.
LEMMA HeadThenTail ==
    ASSUME NEW S, NEW s \in Seq(S), s # <<>>
    PROVE  <<Head(s)>> \o Tail(s) = s
<1>1. Head(s) \in S /\ Tail(s) \in Seq(S) /\ Len(Tail(s)) = Len(s) - 1
  BY HeadTailProperties
<1>2. <<Head(s)>> \in Seq(S) /\ Len(<<Head(s)>>) = 1 /\ <<Head(s)>>[1] = s[1]
  BY <1>1
<1>3. Len(s) \in Nat \ {0}
  BY EmptySeq
<1> DEFINE t == <<Head(s)>> \o Tail(s)
<1>4. t \in Seq(S) /\ Len(t) = Len(s)
  BY <1>1, <1>2, <1>3, ConcatProperties
<1>5. \A i \in 1..Len(s) : t[i] = IF i <= 1 THEN s[1] ELSE Tail(s)[i - 1]
  BY <1>1, <1>2, <1>3, ConcatProperties
<1>6. \A i \in 1..Len(t) : t[i] = s[i]
  BY <1>1, <1>3, <1>4, <1>5, HeadTailProperties
<1> QED
  BY <1>4, <1>6, SeqEqual

\* tx_task taking a frame and writing it moves no frame past another.
LEMMA ReceiveKeepsStream ==
    ASSUME NEW S, Carries(S), TxReceive
    PROVE  Stream' = Stream
<1>1. usb \in Seq(S) /\ TX_CH \in Seq(S) /\ TX_CH # <<>> /\ writing = <<>>
  BY DEF Carries, TxReceive
<1>2. Head(TX_CH) \in S /\ Tail(TX_CH) \in Seq(S)
  BY <1>1, HeadTailProperties
<1>3. <<Head(TX_CH)>> \in Seq(S)
  BY <1>2
<1>4. Stream' = (usb \o <<Head(TX_CH)>>) \o Tail(TX_CH)
  BY DEF Stream, TxReceive
<1>5. @ = usb \o (<<Head(TX_CH)>> \o Tail(TX_CH))
  BY <1>1, <1>2, <1>3, ConcatAssociative
<1>6. @ = usb \o TX_CH
  BY <1>1, HeadThenTail
<1>7. @ = (usb \o writing) \o TX_CH
  BY <1>1, ConcatEmptySeq
<1> QED
  BY <1>4, <1>5, <1>6, <1>7 DEF Stream

LEMMA WriteKeepsStream ==
    ASSUME NEW S, Carries(S), TxWrite
    PROVE  Stream' = Stream
<1>1. usb \in Seq(S) /\ TX_CH \in Seq(S) /\ writing = <<Head(writing)>>
      /\ Head(writing) \in S
  BY AtMostOne DEF Carries, TxWrite
<1>2. Append(usb, Head(writing)) \in Seq(S)
      /\ Append(usb, Head(writing)) = usb \o <<Head(writing)>>
  BY <1>1, AppendIsConcat, AppendProperties
<1>3. Stream' = (Append(usb, Head(writing)) \o <<>>) \o TX_CH
  BY DEF Stream, TxWrite
<1> QED
  BY <1>1, <1>2, <1>3, ConcatEmptySeq DEF Stream

\* The host takes the oldest frame.
LEMMA ReadTakesOldest ==
    ASSUME NEW S, Carries(S), usb # <<>>, usb' = Tail(usb),
           UNCHANGED <<writing, TX_CH>>
    PROVE  Stream # <<>> /\ Stream' = Tail(Stream)
<1>1. usb \in Seq(S) /\ TX_CH \in Seq(S) /\ writing \in Seq(S)
      /\ usb # <<>>
  BY DEF Carries
<1>2. Head(usb) \in S /\ Tail(usb) \in Seq(S) /\ Len(Tail(usb)) = Len(usb) - 1
      /\ \A i \in 1..Len(Tail(usb)) : Tail(usb)[i] = usb[i + 1]
  BY <1>1, HeadTailProperties
<1> DEFINE rest == writing \o TX_CH
<1>3. rest \in Seq(S)
  BY <1>1, ConcatProperties
<1>4. Stream = usb \o rest /\ Stream' = Tail(usb) \o rest
  <2>1. Stream = (usb \o writing) \o TX_CH /\ Stream' = (Tail(usb) \o writing) \o TX_CH
    BY DEF Stream
  <2>2. (usb \o writing) \o TX_CH = usb \o rest
    BY <1>1, ConcatAssociative, SMTT(30)
  <2>3. (Tail(usb) \o writing) \o TX_CH = Tail(usb) \o rest
    BY <1>1, <1>2, ConcatAssociative, SMTT(30)
  <2> QED
    BY <2>1, <2>2, <2>3
<1>5. Len(usb) \in Nat \ {0} /\ Len(rest) \in Nat
  BY <1>1, <1>3, EmptySeq, LenProperties
<1>6. /\ usb \o rest \in Seq(S)
      /\ Len(usb \o rest) = Len(usb) + Len(rest)
      /\ \A i \in 1..Len(usb) + Len(rest) :
            (usb \o rest)[i] = IF i <= Len(usb) THEN usb[i] ELSE rest[i - Len(usb)]
  BY <1>1, <1>3, ConcatProperties
<1>7. /\ Tail(usb) \o rest \in Seq(S)
      /\ Len(Tail(usb) \o rest) = Len(Tail(usb)) + Len(rest)
      /\ \A i \in 1..Len(Tail(usb)) + Len(rest) :
            (Tail(usb) \o rest)[i] =
                IF i <= Len(Tail(usb)) THEN Tail(usb)[i] ELSE rest[i - Len(Tail(usb))]
  BY <1>2, <1>3, ConcatProperties
<1>8. usb \o rest # <<>>
  BY <1>5, <1>6, EmptySeq
<1>9. /\ Tail(usb \o rest) \in Seq(S)
      /\ Len(Tail(usb \o rest)) = Len(usb \o rest) - 1
      /\ \A i \in 1..Len(Tail(usb \o rest)) :
            Tail(usb \o rest)[i] = (usb \o rest)[i + 1]
  BY <1>6, <1>8, HeadTailProperties
<1>10. Len(Tail(usb) \o rest) = Len(Tail(usb \o rest))
  BY <1>2, <1>5, <1>6, <1>7, <1>9
<1>11. ASSUME NEW i \in 1..Len(Tail(usb) \o rest)
       PROVE  (Tail(usb) \o rest)[i] = Tail(usb \o rest)[i]
  <2>1. Tail(usb \o rest)[i] = (usb \o rest)[i + 1]
    BY <1>9, <1>10
  <2>2. CASE i <= Len(Tail(usb))
    BY <2>1, <2>2, <1>2, <1>5, <1>6, <1>7
  <2>3. CASE i > Len(Tail(usb))
    BY <2>1, <2>3, <1>2, <1>5, <1>6, <1>7
  <2> QED
    BY <2>2, <2>3, <1>2, <1>5
<1>12. Tail(usb) \o rest = Tail(usb \o rest)
  BY <1>7, <1>9, <1>10, <1>11, SeqEqual
<1> QED
  BY <1>4, <1>8, <1>12

\* A frame accepted by TX_CH goes to the end of the stream.
LEMMA AppendToStream ==
    ASSUME NEW S, Carries(S), NEW f \in S, TX_CH' = Append(TX_CH, f),
           UNCHANGED <<usb, writing>>
    PROVE  Stream' = Append(Stream, f)
<1>1. usb \in Seq(S) /\ TX_CH \in Seq(S) /\ writing \in Seq(S)
  BY DEF Carries
<1>2. usb \o writing \in Seq(S) /\ <<f>> \in Seq(S)
  BY <1>1, ConcatProperties
<1>3. Stream' = (usb \o writing) \o (TX_CH \o <<f>>)
  BY <1>1, AppendIsConcat DEF Stream
<1>4. @ = ((usb \o writing) \o TX_CH) \o <<f>>
  BY <1>1, <1>2, ConcatAssociative
<1>5. (usb \o writing) \o TX_CH \in Seq(S)
  BY <1>1, <1>2, ConcatProperties
<1> QED
  BY <1>3, <1>4, <1>5, AppendIsConcat DEF Stream
-----------------------------------------------------------------------------
(* Types *)

LEMMA TypeInit == WireInit => WireTypeOK
BY WireAssumption, EmptySeq DEF WireInit, WireTypeOK, Frames, Types, Counters

LEMMA WrapType ==
    ASSUME NEW n \in 0..(SeqMod - 1)
    PROVE  Wrap(n) \in 0..(SeqMod - 1)
BY WireAssumption DEF Wrap

\* The types of the device's side of the port, whatever happens on the other.
DeviceTypeOK ==
    /\ cs \in Contexts \cup {Nobody}
    /\ pc \in [Contexts -> {"idle", "read", "stored"}]
    /\ mine \in [Contexts -> Frames]
    /\ next \in 0..(SeqMod - 1)
    /\ TX_CH \in Seq(Frames) /\ Len(TX_CH) <= TxCap
    /\ dropped \in [Counters -> Nat]
    /\ writing \in Seq(Frames) /\ Len(writing) <= 1
    /\ boot \in {"radio_up", "hello", "run"}
    /\ sends \in Nat

LEMMA WireTypes == WireTypeOK <=> DeviceTypeOK /\ usb \in Seq(Frames) /\ Len(usb) <= UsbCap
BY DEF WireTypeOK, DeviceTypeOK

LEMMA DeviceTypeStep ==
  DeviceTypeOK /\ ((\E c \in Contexts : Send(c)) \/ TxReceive \/ TxWrite) => DeviceTypeOK'
<1> SUFFICES ASSUME DeviceTypeOK, (\E c \in Contexts : Send(c)) \/ TxReceive \/ TxWrite
             PROVE  DeviceTypeOK'
  OBVIOUS
<1> USE WireAssumption DEF DeviceTypeOK
<1>1. ASSUME NEW c \in Contexts, Enter(c) PROVE DeviceTypeOK'
  <2>1. PICK t \in Says(c) :
          mine' = [mine EXCEPT ![c] = [type |-> t, seq |-> next, n |-> sends]]
    BY <1>1 DEF Enter
  <2>2. t \in Types
    BY DEF Says, Types
  <2>3. mine' \in [Contexts -> Frames]
    BY <2>1, <2>2 DEF Frames
  <2> QED
    BY <1>1, <2>3 DEF Enter
<1>2. ASSUME NEW c \in Contexts, Store(c) PROVE DeviceTypeOK'
  <2>1. mine[c].seq \in 0..(SeqMod - 1) /\ mine[c].n \in Nat
    BY DEF Frames
  <2>2. Wrap(mine[c].seq) \in 0..(SeqMod - 1)
    BY <2>1, WrapType
  <2> QED
    BY <1>2, <2>1, <2>2 DEF Store
<1>3. ASSUME NEW c \in Contexts, Enqueue(c) PROVE DeviceTypeOK'
  <2>1. mine[c] \in Frames /\ CounterOf(mine[c].type) \in Counters
    BY DEF CounterOf, Counters
  <2>2. CASE Len(TX_CH) < TxCap /\ TX_CH' = Append(TX_CH, mine[c]) /\ UNCHANGED dropped
    <3>1. TX_CH' \in Seq(Frames) /\ Len(TX_CH') = Len(TX_CH) + 1 /\ Len(TX_CH) \in Nat
      BY <2>1, <2>2, AppendProperties, LenProperties
    <3> QED
      BY <1>3, <2>2, <3>1 DEF Enqueue, Leave, Sent
  <2>3. CASE Count(mine[c]) /\ UNCHANGED TX_CH
    <3>1. dropped' \in [Counters -> Nat]
      BY <2>1, <2>3 DEF Count
    <3> QED
      BY <1>3, <2>3, <3>1 DEF Enqueue, Leave, Sent
  <2> QED
    BY <1>3, <2>2, <2>3 DEF Enqueue, Offer
<1>4. CASE TxReceive
  <2>1. /\ Head(TX_CH) \in Frames /\ Tail(TX_CH) \in Seq(Frames)
        /\ Len(Tail(TX_CH)) = Len(TX_CH) - 1 /\ Len(TX_CH) \in Nat
    BY <1>4, HeadTailProperties, LenProperties DEF TxReceive
  <2>2. <<Head(TX_CH)>> \in Seq(Frames) /\ Len(<<Head(TX_CH)>>) = 1
    BY <2>1
  <2> QED
    BY <1>4, <2>1, <2>2 DEF TxReceive
<1>5. CASE TxWrite
  <2>1. writing' \in Seq(Frames) /\ Len(writing') <= 1
    BY <1>5, EmptySeq DEF TxWrite
  <2> QED
    BY <1>5, <2>1 DEF TxWrite
<1> QED
  BY <1>1, <1>2, <1>3, <1>4, <1>5 DEF Send

LEMMA TypeStep == WireTypeOK /\ [WireNext]_wireVars => WireTypeOK'
<1> SUFFICES ASSUME WireTypeOK, [WireNext]_wireVars PROVE WireTypeOK'
  OBVIOUS
<1>1. DeviceTypeOK /\ usb \in Seq(Frames) /\ Len(usb) <= UsbCap
  BY WireTypes
<1>2. ASSUME (\E c \in Contexts : Send(c)) \/ TxReceive
      PROVE  WireTypeOK'
  <2>1. DeviceTypeOK' /\ usb' = usb
    BY <1>1, <1>2, DeviceTypeStep DEF Send, Enter, Store, Enqueue, TxReceive
  <2> QED
    BY <1>1, <2>1 DEF WireTypeOK, DeviceTypeOK
<1>3. CASE TxWrite
  <2>1. Head(writing) \in Frames
    BY <1>1, <1>3, HeadTailProperties DEF TxWrite, DeviceTypeOK
  <2>2. usb' \in Seq(Frames) /\ Len(usb') = Len(usb) + 1 /\ Len(usb) \in Nat
    BY <1>1, <1>3, <2>1, AppendProperties, LenProperties DEF TxWrite
  <2>3. DeviceTypeOK' /\ Len(usb') <= UsbCap
    BY <1>1, <1>3, <2>2, WireAssumption, DeviceTypeStep DEF TxWrite, PortWritable
  <2> QED
    BY <2>2, <2>3 DEF WireTypeOK, DeviceTypeOK
<1>4. CASE UsbRead
  <2>1. usb' \in Seq(Frames) /\ Len(usb') = Len(usb) - 1 /\ Len(usb) \in Nat
    BY <1>1, <1>4, HeadTailProperties, LenProperties DEF UsbRead
  <2> QED
    BY <1>1, <1>4, <2>1, WireAssumption DEF UsbRead, WireTypeOK
<1>5. CASE UNCHANGED wireVars
  BY <1>5 DEF wireVars, WireTypeOK
<1> QED
  BY <1>2, <1>3, <1>4, <1>5 DEF WireNext

\* Every variable of the device's link keeps its type: in particular no queue
\* outgrows its capacity and next stays a value of the sequence number.
THEOREM WireTyped == WireSpec => []WireTypeOK
<1> QED
  BY TypeInit, TypeStep, PTL DEF WireSpec
-----------------------------------------------------------------------------
(* Order *)

\* The remainder is the only one: what a division by SeqMod leaves.
LEMMA Remainder ==
    ASSUME NEW n \in Nat, NEW q \in Nat, NEW r \in 0..(SeqMod - 1), n = SeqMod * q + r
    PROVE  n % SeqMod = r
BY WireAssumption

\* wrapping_add(1) and the modulus agree.
LEMMA WrapIsModulo ==
    ASSUME NEW n \in Nat
    PROVE  /\ n % SeqMod \in 0..(SeqMod - 1)
           /\ Wrap(n % SeqMod) = (n + 1) % SeqMod
<1> DEFINE q == n \div SeqMod
           r == n % SeqMod
<1>1. r \in 0..(SeqMod - 1)
  BY WireAssumption
<1>2. q \in Nat /\ n = SeqMod * q + r
  BY WireAssumption
<1> HIDE DEF q, r
<1>3. CASE r = SeqMod - 1
  <2>1. n + 1 = SeqMod * (q + 1) + 0 /\ q + 1 \in Nat /\ 0 \in 0..(SeqMod - 1)
    BY <1>2, <1>3, WireAssumption
  <2>2. (n + 1) % SeqMod = 0
    BY <2>1, Remainder
  <2> QED
    BY <1>1, <1>3, <2>2 DEF Wrap, r
<1>4. CASE r # SeqMod - 1
  <2>1. n + 1 = SeqMod * q + (r + 1) /\ r + 1 \in 0..(SeqMod - 1)
    BY <1>1, <1>2, <1>4, WireAssumption
  <2>2. (n + 1) % SeqMod = r + 1
    BY <1>2, <2>1, Remainder
  <2> QED
    BY <1>1, <1>4, <2>2 DEF Wrap, r
<1> QED
  BY <1>3, <1>4

\* Appending a younger frame keeps a sequence ordered; taking its head does too.
LEMMA OrderedAppend ==
    ASSUME NEW s \in Seq(Frames), NEW f \in Frames, Ordered(s),
           \A i \in 1..Len(s) : s[i].n < f.n
    PROVE  Ordered(Append(s, f))
<1>1. /\ Len(Append(s, f)) = Len(s) + 1 /\ Len(s) \in Nat
      /\ \A i \in 1..Len(s) : Append(s, f)[i] = s[i]
      /\ Append(s, f)[Len(s) + 1] = f
  BY AppendProperties, LenProperties
<1> SUFFICES ASSUME NEW i \in 1..Len(Append(s, f)), NEW j \in 1..Len(Append(s, f)), i < j
             PROVE  Append(s, f)[i].n < Append(s, f)[j].n
  BY DEF Ordered
<1>2. i \in 1..Len(s)
  BY <1>1
<1>3. CASE j \in 1..Len(s)
  BY <1>1, <1>2, <1>3 DEF Ordered
<1>4. CASE j = Len(s) + 1
  BY <1>1, <1>2, <1>4
<1> QED
  BY <1>1, <1>3, <1>4

LEMMA OrderedTail ==
    ASSUME NEW s \in Seq(Frames), s # <<>>, Ordered(s)
    PROVE  Ordered(Tail(s))
<1>1. /\ Tail(s) \in Seq(Frames) /\ Len(Tail(s)) = Len(s) - 1
      /\ \A i \in 1..Len(Tail(s)) : Tail(s)[i] = s[i + 1]
  BY HeadTailProperties
<1>2. Len(s) \in Nat
  BY LenProperties
<1> QED
  BY <1>1, <1>2 DEF Ordered

\* What is true of the stream stays true of what the steps make of it.
LEMMA InvInit == WireInit => WireInv
<1> SUFFICES ASSUME WireInit PROVE WireInv
  OBVIOUS
<1>1. WireTypeOK
  BY TypeInit
<1>2. Len(Stream) = 0
  BY <1>1, CarriesFrames, StreamType, EmptySeq DEF WireInit
<1>3. Locked /\ InHand
  BY WireAssumption DEF WireInit, Locked, InHand
<1>4. next = sends % SeqMod
  <2>1. 0 = SeqMod * 0 + 0 /\ 0 \in 0..(SeqMod - 1)
    BY WireAssumption
  <2> QED
    BY <2>1, Remainder DEF WireInit
<1>5. Older /\ InSeqOrder
  BY <1>2 DEF Older, InSeqOrder, Ordered
<1> QED
  BY <1>1, <1>3, <1>4, <1>5 DEF WireInv, NextIsCount

LEMMA InvEnter ==
    ASSUME WireInv, WireTypeOK', NEW c \in Contexts, Enter(c)
    PROVE  WireInv'
<1> USE DEF WireInv, WireTypeOK
<1>1. Stream' = Stream
  BY DEF Enter, Stream
<1>2. \A d \in Contexts : pc[d] = "idle"
  BY WireAssumption DEF Enter, CanLock, Locked
<1>3. Locked'
  BY <1>2, WireAssumption DEF Enter, Locked
<1>4. mine'[c].n = sends /\ mine'[c].seq = next /\ pc'[c] = "read"
  BY DEF Enter
<1>5. InHand'
  BY <1>2, <1>4 DEF Enter, InHand
<1>6. Older'
  BY <1>1, <1>2 DEF Enter, Older
<1>7. InSeqOrder' /\ NextIsCount'
  BY <1>1 DEF Enter, InSeqOrder, NextIsCount
<1> QED
  BY <1>3, <1>5, <1>6, <1>7

LEMMA InvStore ==
    ASSUME WireInv, WireTypeOK', NEW c \in Contexts, Store(c)
    PROVE  WireInv'
<1> USE DEF WireInv, WireTypeOK
<1>1. Stream' = Stream
  BY DEF Store, Stream
<1>2. pc[c] = "read" /\ cs = c /\ \A d \in Contexts : d # c => pc[d] = "idle"
  BY DEF Store, Locked
<1>3. mine[c].n = sends /\ mine[c].seq = next /\ sends \in Nat
  BY <1>2 DEF InHand
<1>4. sends' = sends + 1 /\ next' = Wrap(next)
  BY <1>3 DEF Store
<1>5. next = sends % SeqMod
  BY DEF NextIsCount
<1>6. Locked'
  BY <1>2 DEF Store, Locked
<1>7. InHand'
  BY <1>2, <1>3, <1>4, <1>5 DEF Store, InHand
<1>8. NextIsCount'
  BY <1>3, <1>4, <1>5, WrapIsModulo DEF NextIsCount
<1>9. Older'
  <2> SUFFICES ASSUME NEW i \in 1..Len(Stream)
               PROVE  /\ Stream[i].n < sends'
                      /\ \A d \in Contexts : pc'[d] = "stored" => Stream[i].n < mine'[d].n
    BY <1>1 DEF Older
  <2>1. Stream[i].n < sends /\ Stream[i] \in Frames
    BY CarriesFrames, StreamType, ElementOfSeq DEF Older
  <2>2. Stream[i].n \in Nat
    BY <2>1 DEF Frames
  <2> QED
    BY <1>2, <1>3, <1>4, <2>1, <2>2 DEF Store
<1>10. InSeqOrder'
  BY <1>1 DEF InSeqOrder
<1> QED
  BY <1>6, <1>7, <1>8, <1>9, <1>10

LEMMA InvEnqueue ==
    ASSUME WireInv, WireTypeOK', NEW c \in Contexts, Enqueue(c)
    PROVE  WireInv'
<1> USE DEF WireInv
<1> DEFINE f == mine[c]
<1>1. pc[c] = "stored" /\ cs = c /\ \A d \in Contexts : d # c => pc[d] = "idle"
  BY DEF Enqueue, Locked
<1>2. /\ f \in Frames /\ f.n + 1 = sends /\ f.seq = f.n % SeqMod
      /\ f.n \in Nat /\ sends \in Nat
  BY <1>1 DEF InHand, WireTypeOK, Frames
<1>3. \A d \in Contexts : pc'[d] = "idle"
  BY <1>1 DEF Enqueue, WireTypeOK
<1>4. Locked' /\ InHand' /\ NextIsCount'
  BY <1>3, WireAssumption DEF Enqueue, Leave, Locked, InHand, NextIsCount
<1>5. Stream \in Seq(Frames)
  BY CarriesFrames, StreamType
<1>6. \A i \in 1..Len(Stream) : Stream[i].n < f.n
  BY <1>1 DEF Older
<1>7. CASE TX_CH' = Append(TX_CH, f)
  <2>1. Stream' = Append(Stream, f)
    BY <1>2, <1>7, CarriesFrames, AppendToStream DEF Enqueue
  <2>2. /\ Len(Stream') = Len(Stream) + 1 /\ Len(Stream) \in Nat
        /\ \A i \in 1..Len(Stream) : Stream'[i] = Stream[i]
        /\ Stream'[Len(Stream) + 1] = f
    BY <1>2, <1>5, <2>1, AppendProperties, LenProperties
  <2>3. Ordered(Stream')
    BY <1>2, <1>5, <1>6, <2>1, OrderedAppend DEF InSeqOrder
  <2>4. InSeqOrder'
    BY <1>2, <2>2, <2>3 DEF InSeqOrder, Ordered
  <2>5. Older'
    <3> SUFFICES ASSUME NEW i \in 1..Len(Stream') PROVE Stream'[i].n < sends
      BY <1>3 DEF Older, Enqueue
    <3>1. CASE i \in 1..Len(Stream)
      BY <2>2, <3>1 DEF Older
    <3>2. CASE i = Len(Stream) + 1
      BY <1>2, <2>2, <3>2
    <3> QED
      BY <2>2, <3>1, <3>2
  <2> QED
    BY <1>4, <2>4, <2>5
<1>8. CASE UNCHANGED TX_CH
  <2>1. Stream' = Stream
    BY <1>8 DEF Enqueue, Stream
  <2>2. InSeqOrder' /\ Older'
    BY <1>3, <2>1 DEF InSeqOrder, Older, Enqueue
  <2> QED
    BY <1>4, <2>2
<1> QED
  BY <1>7, <1>8 DEF Enqueue, Offer

\* tx_task and the host leave the lock alone.
LEMMA InvConsumer ==
    ASSUME WireInv, WireTypeOK', TxReceive \/ TxWrite \/ UsbRead
    PROVE  WireInv'
<1> USE DEF WireInv
<1>1. UNCHANGED <<cs, pc, mine, next, sends>>
  BY DEF TxReceive, TxWrite, UsbRead
<1>2. Locked' /\ InHand' /\ NextIsCount'
  BY <1>1 DEF Locked, InHand, NextIsCount
<1>3. CASE TxReceive \/ TxWrite
  <2>1. Stream' = Stream
    BY <1>3, CarriesFrames, ReceiveKeepsStream, WriteKeepsStream
  <2> QED
    BY <1>1, <1>2, <2>1 DEF InSeqOrder, Older
<1>4. CASE UsbRead
  <2>1. Stream # <<>> /\ Stream' = Tail(Stream) /\ Stream \in Seq(Frames)
    BY <1>4, CarriesFrames, ReadTakesOldest, StreamType DEF UsbRead
  <2>2. /\ Len(Stream') = Len(Stream) - 1 /\ Len(Stream) \in Nat
        /\ \A i \in 1..Len(Stream') : Stream'[i] = Stream[i + 1]
    BY <2>1, HeadTailProperties, LenProperties
  <2>3. Ordered(Stream')
    BY <2>1, OrderedTail DEF InSeqOrder
  <2> HIDE DEF WireInv
  <2>4. \A i \in 1..Len(Stream') : i + 1 \in 1..Len(Stream)
    BY <2>2
  <2>5. \A i \in 1..Len(Stream') : Stream'[i].seq = Stream'[i].n % SeqMod
    BY <2>2, <2>4 DEF WireInv, InSeqOrder
  <2>6. InSeqOrder'
    BY <2>3, <2>5 DEF InSeqOrder, Ordered
  <2>7. \A i \in 1..Len(Stream') :
            /\ Stream'[i].n < sends
            /\ \A c \in Contexts : pc[c] = "stored" => Stream'[i].n < mine[c].n
    BY <2>2, <2>4 DEF WireInv, Older
  <2>8. Older'
    BY <1>1, <2>7 DEF Older
  <2> QED
    BY <1>2, <2>6, <2>8 DEF WireInv
<1> QED
  BY <1>3, <1>4

LEMMA InvStep == WireInv /\ [WireNext]_wireVars => WireInv'
<1> SUFFICES ASSUME WireInv, [WireNext]_wireVars PROVE WireInv'
  OBVIOUS
<1>1. WireTypeOK'
  BY TypeStep DEF WireInv
<1>2. CASE UNCHANGED wireVars
  <2>1. Stream' = Stream
    BY <1>2 DEF wireVars, Stream
  <2> QED
    BY <1>1, <1>2, <2>1 DEF wireVars, WireInv, Locked, InHand, Older, NextIsCount, InSeqOrder
<1> QED
  BY <1>1, <1>2, InvEnter, InvStore, InvEnqueue, InvConsumer DEF WireNext, Send

\* Frames leave the device in the order their numbers were taken, whatever
\* contexts call send and however they interleave (wire.rs:20).
THEOREM WireInOrder == WireSpec => []InSeqOrder
<1>1. WireInv => InSeqOrder
  BY DEF WireInv
<1> QED
  BY InvInit, InvStep, <1>1, PTL DEF WireSpec
-----------------------------------------------------------------------------
(* Refinement: the device's link is a lossy link *)

\* The stream's numbers, which the refinement mapping gives the lossy link.
Numbers == [i \in 1..Len(Stream) |-> Stream[i].n]
Losses == dropped["TX_DROPPED"] + dropped["LOG_DROPPED"]

LEMMA LinkVariables ==
    /\ Link!linkVars = <<Ended, Losses, Numbers>>
    /\ Link!LinkInit <=> Ended = 0 /\ Losses = 0 /\ Numbers = <<>>
    /\ Link!Accept <=> Numbers' = Append(Numbers, Ended) /\ Ended' = Ended + 1
                       /\ Losses' = Losses
    /\ Link!Lose <=> Losses' = Losses + 1 /\ Ended' = Ended + 1 /\ Numbers' = Numbers
    /\ Link!Deliver <=> /\ Numbers # <<>> /\ Numbers' = Tail(Numbers)
                        /\ Ended' = Ended /\ Losses' = Losses
    /\ Link!LinkNext <=> Link!Accept \/ Link!Lose \/ Link!Deliver
BY DEF Link!linkVars, Link!LinkInit, Link!Accept, Link!Lose, Link!Deliver, Link!LinkNext,
       Numbers, Losses

LEMMA LinkInits == WireInit => Link!LinkInit
<1> SUFFICES ASSUME WireInit PROVE Ended = 0 /\ Losses = 0 /\ Numbers = <<>>
  BY LinkVariables
<1>1. Len(Stream) = 0
  BY TypeInit, CarriesFrames, StreamType, EmptySeq DEF WireInit
<1>2. Numbers = <<>>
  BY <1>1 DEF Numbers
<1> QED
  BY <1>2 DEF WireInit, Ended, Losses, Counters

LEMMA StreamNumbers ==
    ASSUME Stream \in Seq(Frames)
    PROVE  \A i \in 1..Len(Stream) : Stream[i].n \in Nat
<1> SUFFICES ASSUME NEW i \in 1..Len(Stream) PROVE Stream[i].n \in Nat
  OBVIOUS
<1>1. Stream[i] \in Frames
  BY ElementOfSeq
<1> QED
  BY <1>1 DEF Frames

\* A step that leaves the stream, the drop counters and the count of ended sends
\* alone is a stutter of the lossy link.
LEMMA LinkStutters ==
    ASSUME Stream' = Stream, dropped' = dropped, Ended' = Ended
    PROVE  UNCHANGED Link!linkVars
BY DEF Link!linkVars

LEMMA LinkEnqueue ==
    ASSUME WireInv, WireInv', NEW c \in Contexts, Enqueue(c)
    PROVE  Link!Accept \/ Link!Lose
<1> USE DEF WireInv
<1> DEFINE f == mine[c]
<1>1. pc[c] = "stored" /\ \A d \in Contexts : pc'[d] = "idle"
  BY DEF Enqueue, Locked, WireTypeOK
<1>2. f \in Frames /\ f.n + 1 = sends /\ f.n \in Nat /\ sends \in Nat /\ sends' = sends
  BY <1>1 DEF Enqueue, InHand, WireTypeOK, Frames
<1>3. Ended = f.n /\ Ended' = f.n + 1
  BY <1>1, <1>2 DEF Ended
<1>4. CASE TX_CH' = Append(TX_CH, f) /\ UNCHANGED dropped
  <2>1. Stream' = Append(Stream, f) /\ Stream \in Seq(Frames)
    BY <1>2, <1>4, CarriesFrames, AppendToStream, StreamType DEF Enqueue
  <2>2. /\ Len(Stream') = Len(Stream) + 1 /\ Len(Stream) \in Nat
        /\ \A i \in 1..Len(Stream) : Stream'[i] = Stream[i]
        /\ Stream'[Len(Stream) + 1] = f
    BY <1>2, <2>1, AppendProperties, LenProperties
  <2>3. \A i \in 1..Len(Stream) : Stream[i].n \in Nat
    BY <2>1, StreamNumbers
  <2>4. Numbers \in Seq(Nat) /\ Len(Numbers) = Len(Stream)
    BY <2>2, <2>3 DEF Numbers
  <2>5. Append(Numbers, f.n) \in Seq(Nat) /\ Len(Append(Numbers, f.n)) = Len(Stream) + 1
        /\ (\A i \in 1..Len(Stream) : Append(Numbers, f.n)[i] = Stream[i].n)
        /\ Append(Numbers, f.n)[Len(Stream) + 1] = f.n
    BY <1>2, <2>4, AppendProperties DEF Numbers
  <2>6. \A i \in 1..(Len(Stream) + 1) : Stream'[i].n = Append(Numbers, f.n)[i]
    BY <2>2, <2>5
  <2>7. Numbers' = [i \in 1..(Len(Stream) + 1) |-> Stream'[i].n]
    BY <2>2 DEF Numbers
  <2>8. Numbers' \in Seq(Nat) /\ Len(Numbers') = Len(Stream) + 1
        /\ \A i \in 1..(Len(Stream) + 1) : Numbers'[i] = Stream'[i].n
    <3>1. \A i \in 1..(Len(Stream) + 1) : Stream'[i].n \in Nat
      BY <1>2, <2>2, <2>3
    <3> QED
      BY <2>2, <2>7, <3>1
  <2>9. Numbers' = Append(Numbers, f.n)
    BY <2>5, <2>6, <2>8, SeqEqual
  <2> QED
    BY <1>3, <1>4, <2>9, LinkVariables DEF Losses
<1>5. CASE Count(f) /\ UNCHANGED TX_CH
  <2>1. Stream' = Stream
    BY <1>5 DEF Enqueue, Stream
  <2>2. dropped \in [Counters -> Nat] /\ CounterOf(f.type) \in Counters
    BY DEF WireTypeOK, CounterOf, Counters
  <2>3. Losses' = Losses + 1
    BY <1>5, <2>2 DEF Count, Losses, CounterOf, Counters
  <2> QED
    BY <1>3, <2>1, <2>3, LinkVariables DEF Numbers
<1> QED
  BY <1>4, <1>5 DEF Enqueue, Offer

LEMMA LinkRead ==
    ASSUME WireInv, UsbRead
    PROVE  Link!Deliver
<1>1. Stream # <<>> /\ Stream' = Tail(Stream) /\ Stream \in Seq(Frames)
  BY CarriesFrames, ReadTakesOldest, StreamType DEF WireInv, UsbRead
<1>2. /\ Len(Stream') = Len(Stream) - 1 /\ Len(Stream) \in Nat \ {0}
      /\ \A i \in 1..Len(Stream') : Stream'[i] = Stream[i + 1]
  BY <1>1, HeadTailProperties, EmptySeq
<1>3. \A i \in 1..Len(Stream) : Stream[i].n \in Nat
  BY <1>1, StreamNumbers
<1>4. Numbers \in Seq(Nat) /\ Len(Numbers) = Len(Stream) /\ Numbers # <<>>
  BY <1>2, <1>3 DEF Numbers
<1>5. Tail(Numbers) \in Seq(Nat) /\ Len(Tail(Numbers)) = Len(Stream) - 1
      /\ \A i \in 1..(Len(Stream) - 1) : Tail(Numbers)[i] = Numbers[i + 1]
  BY <1>4, HeadTailProperties
<1>6. Numbers' = [i \in 1..(Len(Stream) - 1) |-> Stream'[i].n]
  BY <1>2 DEF Numbers
<1>7. \A i \in 1..(Len(Stream) - 1) :
          i + 1 \in 1..Len(Stream) /\ Stream'[i] = Stream[i + 1]
  BY <1>2
<1>8. \A i \in 1..(Len(Stream) - 1) : Numbers'[i] = Numbers[i + 1] /\ Numbers'[i] \in Nat
  BY <1>3, <1>6, <1>7 DEF Numbers
<1>9. Numbers' \in Seq(Nat) /\ Len(Numbers') = Len(Stream) - 1
  BY <1>2, <1>6, <1>8
<1>10. Numbers' = Tail(Numbers)
  BY <1>5, <1>8, <1>9, SeqEqual
<1>11. Ended' = Ended /\ Losses' = Losses
  BY DEF UsbRead, Ended, Losses
<1> QED
  BY <1>4, <1>10, <1>11, LinkVariables

LEMMA LinkStep ==
    WireInv /\ WireInv' /\ [WireNext]_wireVars => [Link!LinkNext]_(Link!linkVars)
<1> SUFFICES ASSUME WireInv, WireInv', [WireNext]_wireVars
             PROVE  [Link!LinkNext]_(Link!linkVars)
  OBVIOUS
<1>1. ASSUME NEW c \in Contexts, Enter(c) PROVE UNCHANGED Link!linkVars
  <2>1. Stream' = Stream /\ dropped' = dropped
    BY <1>1 DEF Enter, Stream
  <2>2. \A d \in Contexts : pc[d] # "stored" /\ pc'[d] # "stored"
    BY <1>1, WireAssumption DEF Enter, CanLock, WireInv, Locked, WireTypeOK
  <2>3. Ended' = Ended
    BY <1>1, <2>2 DEF Enter, Ended
  <2> QED
    BY <2>1, <2>3, LinkStutters
<1>2. ASSUME NEW c \in Contexts, Store(c) PROVE UNCHANGED Link!linkVars
  <2>1. Stream' = Stream /\ dropped' = dropped
    BY <1>2 DEF Store, Stream
  <2>2. pc[c] = "read" /\ pc'[c] = "stored" /\ \A d \in Contexts : pc[d] # "stored"
    BY <1>2 DEF Store, WireInv, Locked, WireTypeOK
  <2>3. sends' = sends + 1 /\ sends \in Nat
    BY <1>2, <2>2 DEF Store, WireInv, InHand, WireTypeOK
  <2>4. Ended' = Ended
    BY <2>2, <2>3 DEF Ended
  <2> QED
    BY <2>1, <2>4, LinkStutters
<1>3. ASSUME TxReceive \/ TxWrite PROVE UNCHANGED Link!linkVars
  <2>1. Stream' = Stream
    BY <1>3, CarriesFrames, ReceiveKeepsStream, WriteKeepsStream DEF WireInv
  <2>2. dropped' = dropped /\ Ended' = Ended
    BY <1>3 DEF TxReceive, TxWrite, Ended
  <2> QED
    BY <2>1, <2>2, LinkStutters
<1>4. CASE UNCHANGED wireVars
  <2>1. Stream' = Stream /\ dropped' = dropped /\ Ended' = Ended
    BY <1>4 DEF wireVars, Stream, Ended
  <2> QED
    BY <2>1, LinkStutters
<1> QED
  BY <1>1, <1>2, <1>3, <1>4, LinkEnqueue, LinkRead, LinkVariables DEF WireNext, Send

\* The device's link implements the lossy link: accepted frames are delivered
\* once and in order, and every frame that is not accepted is counted.
THEOREM WireImplements == WireSpec => ImplementsLink
<1> QED
  BY InvInit, InvStep, LinkInits, LinkStep, PTL DEF WireSpec, ImplementsLink, Link!LinkSpec

-----------------------------------------------------------------------------
(* The link end to end.  What the host concludes from a sequence number is *)
(* right because of what is still on its way: every frame between the      *)
(* ports is younger than the last one counted and numbered from the        *)
(* device's last boot, and every piece of text still to cost a chunk was   *)
(* left by a reset of its own.                                             *)

\* What the port carries: frames and what resets and stopped hosts leave of them.
Tokens == Frames \cup {Text, FrameTail, Delimiter}

Stats == [frames : Nat, seq_gaps : Nat, seq_reorder : Nat, rejected : Nat]

LinkTypeOK ==
    /\ DeviceTypeOK /\ usb \in Seq(Tokens)
    /\ dirty \in BOOLEAN
    /\ prev \in {<<>>} \cup {<<s>> : s \in 0..(SeqMod - 1)}
    /\ stats \in Stats
    /\ hostUp \in BOOLEAN /\ whole \in BOOLEAN
    /\ resets \in Nat /\ exits \in Nat /\ bootAt \in Nat /\ first \in Nat /\ last \in Nat

LEMMA TokenKinds ==
    /\ \A k \in Tokens : IsFrame(k) => k \in Frames /\ k.n \in Nat /\ k.seq \in 0..(SeqMod - 1)
    /\ \A k \in Frames : IsFrame(k)
    /\ Text \in Tokens /\ FrameTail \in Tokens /\ Delimiter \in Tokens
    /\ ~IsFrame(Text) /\ ~IsFrame(FrameTail) /\ ~IsFrame(Delimiter)
    /\ Text # FrameTail /\ Text # Delimiter /\ FrameTail # Delimiter
BY DEF Tokens, Frames, IsFrame, Text, FrameTail, Delimiter, Token, Types

LEMMA CarriesTokens == LinkTypeOK => Carries(Tokens)
<1> SUFFICES ASSUME LinkTypeOK PROVE Carries(Tokens)
  OBVIOUS
<1>1. Frames \subseteq Tokens
  BY DEF Tokens
<1>2. TX_CH \in Seq(Tokens) /\ writing \in Seq(Tokens)
  BY <1>1 DEF LinkTypeOK, DeviceTypeOK
<1> QED
  BY <1>2 DEF LinkTypeOK, DeviceTypeOK, Carries

LEMMA LinkTypeInit == Init => LinkTypeOK
<1> SUFFICES ASSUME Init PROVE LinkTypeOK
  OBVIOUS
<1>1. WireTypeOK
  BY TypeInit DEF Init
<1>2. stats \in Stats
  BY DEF Init, HostInit, NoStats, Stats
<1>3. usb \in Seq(Tokens)
  BY EmptySeq DEF Init, WireInit
<1> QED
  BY <1>1, <1>2, <1>3, WireTypes DEF Init, HostInit, LinkTypeOK

LEMMA CountersGrow ==
    ASSUME NEW s \in Stats, NEW g \in Nat
    PROVE  /\ [s EXCEPT !.frames = @ + 1] \in Stats
           /\ [s EXCEPT !.frames = @ + 1, !.seq_gaps = @ + g] \in Stats
           /\ [s EXCEPT !.frames = @ + 1, !.seq_reorder = @ + 1] \in Stats
           /\ [s EXCEPT !.rejected = @ + 1] \in Stats
<1>1. /\ s.frames + 1 \in Nat /\ s.seq_gaps + g \in Nat
      /\ s.seq_reorder + 1 \in Nat /\ s.rejected + 1 \in Nat
  BY DEF Stats
<1> QED
  BY <1>1, Zenon DEF Stats

\* The decoder's counters only go up, a gap being at least one frame.
LEMMA AccountTypes ==
    ASSUME LinkTypeOK, NEW f \in Frames, Account(f)
    PROVE  /\ prev' \in {<<s>> : s \in 0..(SeqMod - 1)}
           /\ stats' \in Stats
<1>1. f.seq \in 0..(SeqMod - 1) /\ 0 \in 0..(SeqMod - 1)
  BY WireAssumption DEF Frames
<1>2. stats \in Stats
  BY DEF LinkTypeOK
<1>3. CASE IsReboot(f)
  BY <1>1, <1>2, <1>3 DEF Account, Stats
<1>4. CASE ~IsReboot(f) /\ prev = <<>>
  <2>1. prev' = <<f.seq>> /\ stats' = [stats EXCEPT !.frames = @ + 1]
    BY <1>4 DEF Account
  <2> QED
    BY <1>1, <1>2, <2>1 DEF Stats
<1>5. CASE ~IsReboot(f) /\ prev # <<>> /\ IsNewer(f)
  <2>1. /\ prev' = <<f.seq>>
        /\ stats' = [stats EXCEPT !.frames = @ + 1, !.seq_gaps = @ + CountGap(f)]
    BY <1>5 DEF Account
  <2>2. CountGap(f) \in Nat
    <3>1. Half \in Nat
      BY WireAssumption DEF Half
    <3> HIDE DEF Half
    <3>2. Ahead(f) \in 1..(Half - 1)
      BY <1>5 DEF IsNewer
    <3> HIDE DEF Ahead
    <3> QED
      BY <3>1, <3>2 DEF CountGap
  <2> HIDE DEF CountGap
  <2>3. stats' \in Stats
    BY <1>2, <2>1, <2>2, CountersGrow
  <2> QED
    BY <1>1, <2>1, <2>3
<1>6. CASE ~IsReboot(f) /\ prev # <<>> /\ ~IsNewer(f)
  <2>1. prev' = prev /\ stats' = [stats EXCEPT !.frames = @ + 1, !.seq_reorder = @ + 1]
    BY <1>6 DEF Account
  <2>2. stats' \in Stats
    BY <1>2, <2>1, CountersGrow
  <2>3. prev \in {<<s>> : s \in 0..(SeqMod - 1)}
    BY <1>6 DEF LinkTypeOK
  <2> QED
    BY <2>1, <2>2, <2>3
<1> QED
  BY <1>3, <1>4, <1>5, <1>6

\* Feeding a token keeps the decoder's types.
LEMMA FeedTypes ==
    ASSUME LinkTypeOK, NEW k \in Tokens, Feed(k)
    PROVE  /\ dirty' \in BOOLEAN
           /\ prev' \in {<<>>} \cup {<<s>> : s \in 0..(SeqMod - 1)}
           /\ stats' \in Stats
<1>1. Reject => prev' = prev /\ stats' \in Stats
  BY SMTT(30) DEF Reject, LinkTypeOK, Stats
<1>2. CASE k = Text
  BY <1>2 DEF Feed, FeedText, Text, Token, LinkTypeOK
<1>3. CASE k = FrameTail
  BY <1>1, <1>3 DEF Feed, FeedTail, FrameTail, Token, LinkTypeOK
<1>4. CASE k = Delimiter
  BY <1>1, <1>4 DEF Feed, FeedDelimiter, Delimiter, Token, LinkTypeOK
<1>5. CASE k \in Frames
  <2>1. FeedFrame(k)
    BY <1>5 DEF Feed, Frames, Types
  <2>2. CASE dirty
    BY <1>1, <2>1, <2>2 DEF FeedFrame, LinkTypeOK
  <2>3. CASE ~dirty
    BY <1>5, <2>1, <2>3, AccountTypes DEF FeedFrame
  <2> QED
    BY <2>2, <2>3
<1> QED
  BY <1>2, <1>3, <1>4, <1>5 DEF Tokens

\* The cases of a host that starts: the port's oldest token is kept, lost or cut.
LEMMA HostStartUsb ==
    ASSUME LinkTypeOK, HostStart
    PROVE  \/ usb' = usb
           \/ (usb # <<>> /\ usb' = Tail(usb))
           \/ /\ usb # <<>> /\ Head(usb) # Text
              /\ \E k \in {FrameTail, Delimiter} : usb' = <<k>> \o Tail(usb)
BY DEF HostStart, Damaged

\* A reset keeps the oldest part of the port, and may end it with text.
LEMMA ResetUsb ==
    ASSUME LinkTypeOK, Reset
    PROVE  \E k \in 0..Len(usb) :
              /\ usb' \in Seq(Tokens)
              /\ Len(usb') = k \/ (Len(usb') = k + 1 /\ usb'[k + 1] = Text)
              /\ \A i \in 1..k : usb'[i] = usb[i]
<1>1. PICK k \in 0..Len(usb), text \in BOOLEAN :
          usb' = SubSeq(usb, 1, k) \o (IF text THEN <<Text>> ELSE <<>>)
  BY DEF Reset
<1>2. usb \in Seq(Tokens) /\ Len(usb) \in Nat
  BY LenProperties DEF LinkTypeOK
<1> DEFINE old == SubSeq(usb, 1, k)
<1>3. /\ old \in Seq(Tokens) /\ Len(old) = k
      /\ \A i \in 1..k : old[i] = usb[i]
  BY <1>2, SubSeqProperties
<1> HIDE DEF old
<1>4. CASE text
  <2>1. <<Text>> \in Seq(Tokens) /\ Len(<<Text>>) = 1 /\ <<Text>>[1] = Text
    BY TokenKinds
  <2>2. usb' = old \o <<Text>>
    BY <1>1, <1>4 DEF old
  <2>3. /\ usb' \in Seq(Tokens) /\ Len(usb') = k + 1
        /\ \A i \in 1..(k + 1) : usb'[i] = IF i <= k THEN old[i] ELSE <<Text>>[i - k]
    BY <1>3, <2>1, <2>2, ConcatProperties
  <2> QED
    BY <1>3, <2>1, <2>3
<1>5. CASE ~text
  <2>1. usb' = old
    BY <1>1, <1>3, <1>5, ConcatEmptySeq DEF old
  <2>2. usb' \in Seq(Tokens)
    BY <1>3, <2>1
  <2>3. Len(usb') = k \/ (Len(usb') = k + 1 /\ usb'[k + 1] = Text)
    BY <1>3, <2>1
  <2>4. \A i \in 1..k : usb'[i] = usb[i]
    BY <1>3, <2>1
  <2> WITNESS k \in 0..Len(usb)
  <2> QED
    BY <2>2, <2>3, <2>4
<1> QED
  BY <1>4, <1>5

LEMMA LinkTypeStep == LinkTypeOK /\ [Next]_vars => LinkTypeOK'
<1> SUFFICES ASSUME LinkTypeOK, [Next]_vars PROVE LinkTypeOK'
  OBVIOUS
<1>0. usb \in Seq(Tokens) /\ DeviceTypeOK
  BY DEF LinkTypeOK
<1>1. CASE DeviceStep
  <2>1. DeviceTypeOK'
    BY <1>0, <1>1, DeviceTypeStep DEF DeviceStep, Device
  <2>2. usb' \in Seq(Tokens)
    <3>1. CASE TxWrite
      <4>1. Head(writing) \in Frames
        BY <1>0, <3>1, HeadTailProperties DEF TxWrite, DeviceTypeOK
      <4>2. Head(writing) \in Tokens
        BY <4>1 DEF Tokens
      <4> QED
        BY <1>0, <3>1, <4>2, AppendProperties DEF TxWrite
    <3>2. CASE usb' = usb
      BY <1>0, <3>2
    <3> QED
      BY <1>1, <3>1, <3>2 DEF DeviceStep, Device, Send, Enter, Store, Enqueue, TxReceive
  <2> QED
    BY <1>1, <2>1, <2>2 DEF DeviceStep, hostVars, envVars, LinkTypeOK
<1>2. CASE HostRead
  <2>1. Head(usb) \in Tokens /\ usb' \in Seq(Tokens)
    BY <1>0, <1>2, HeadTailProperties DEF HostRead
  <2>2. /\ dirty' \in BOOLEAN
        /\ prev' \in {<<>>} \cup {<<s>> : s \in 0..(SeqMod - 1)}
        /\ stats' \in Stats
    BY <1>2, <2>1, FeedTypes DEF HostRead
  <2>3. first' \in Nat /\ last' \in Nat
    BY <1>2, <2>1, TokenKinds DEF HostRead, Counted, LinkTypeOK
  <2>4. whole' \in BOOLEAN
    BY <1>2, Zenon DEF HostRead, LinkTypeOK
  <2>5. DeviceTypeOK'
    BY <1>0, <1>2 DEF HostRead, DeviceTypeOK
  <2> QED
    BY <1>2, <2>1, <2>2, <2>3, <2>4, <2>5 DEF HostRead, LinkTypeOK
<1>3. CASE HostStart
  <2>1. usb' \in Seq(Tokens)
    <3>1. CASE usb # <<>> /\ usb' = Tail(usb)
      BY <1>0, <3>1, HeadTailProperties
    <3>2. CASE /\ usb # <<>>
               /\ \E k \in {FrameTail, Delimiter} : usb' = <<k>> \o Tail(usb)
      <4>1. PICK k \in {FrameTail, Delimiter} : usb' = <<k>> \o Tail(usb)
        BY <3>2
      <4>2. <<k>> \in Seq(Tokens) /\ Tail(usb) \in Seq(Tokens)
        BY <1>0, <3>2, HeadTailProperties, TokenKinds
      <4> QED
        BY <4>1, <4>2, ConcatProperties
    <3> QED
      BY <1>0, <1>3, <3>1, <3>2, HostStartUsb
  <2>2. DeviceTypeOK'
    BY <1>0, <1>3 DEF HostStart, DeviceTypeOK
  <2>3. stats' \in Stats
    BY <1>3 DEF HostStart, NoStats, Stats
  <2>4. whole' \in BOOLEAN
    BY <1>3, Zenon DEF HostStart
  <2> QED
    BY <1>3, <2>1, <2>2, <2>3, <2>4 DEF HostStart, LinkTypeOK
<1>4. CASE HostExit
  <2>1. DeviceTypeOK'
    BY <1>0, <1>4 DEF HostExit, wireVars, DeviceTypeOK
  <2>2. whole' \in BOOLEAN /\ dirty' \in BOOLEAN /\ hostUp' \in BOOLEAN
    BY <1>4, Zenon DEF HostExit, hostVars, LinkTypeOK
  <2>3. exits' \in Nat
    BY <1>4 DEF HostExit, LinkTypeOK
  <2> QED
    BY <1>4, <2>1, <2>2, <2>3 DEF HostExit, wireVars, hostVars, LinkTypeOK
<1>5. CASE Reset
  <2>1. usb' \in Seq(Tokens)
    BY <1>5, ResetUsb
  <2>2. DeviceTypeOK'
    BY <1>0, <1>5, WireAssumption, EmptySeq DEF Reset, DeviceTypeOK, Counters
  <2>3. whole' \in BOOLEAN /\ dirty' \in BOOLEAN /\ hostUp' \in BOOLEAN
    BY <1>5, Zenon DEF Reset, hostVars, LinkTypeOK
  <2>4. resets' \in Nat /\ bootAt' \in Nat
    BY <1>0, <1>5 DEF Reset, LinkTypeOK, DeviceTypeOK
  <2> QED
    BY <1>5, <2>1, <2>2, <2>3, <2>4 DEF Reset, hostVars, LinkTypeOK
<1>6. CASE UNCHANGED vars
  BY <1>6 DEF vars, wireVars, hostVars, envVars, LinkTypeOK, DeviceTypeOK
<1> QED
  BY <1>1, <1>2, <1>3, <1>4, <1>5, <1>6 DEF Next
-----------------------------------------------------------------------------
(* What the environment does to the stream *)

\* Where each element of the stream is.
Located ==
    /\ Stream \in Seq(Tokens) /\ Len(Stream) \in Nat
    /\ Len(usb) \in Nat /\ Len(writing) \in Nat /\ Len(TX_CH) \in Nat
    /\ Len(Stream) = Len(usb) + Len(writing) + Len(TX_CH)
    /\ \A i \in 1..Len(Stream) :
          Stream[i] = IF i <= Len(usb) THEN usb[i]
                      ELSE IF i <= Len(usb) + Len(writing) THEN writing[i - Len(usb)]
                      ELSE TX_CH[i - (Len(usb) + Len(writing))]

LEMMA StreamAt == LinkTypeOK => Located
<1> SUFFICES ASSUME LinkTypeOK PROVE Located
  OBVIOUS
<1>1. usb \in Seq(Tokens) /\ writing \in Seq(Tokens) /\ TX_CH \in Seq(Tokens)
  BY CarriesTokens DEF Carries
<1>2. Len(usb) \in Nat /\ Len(writing) \in Nat /\ Len(TX_CH) \in Nat
  BY <1>1, LenProperties
<1> DEFINE u == usb \o writing
<1>3. /\ u \in Seq(Tokens) /\ Len(u) = Len(usb) + Len(writing)
      /\ \A i \in 1..Len(u) : u[i] = IF i <= Len(usb) THEN usb[i] ELSE writing[i - Len(usb)]
  BY <1>1, ConcatProperties
<1> HIDE DEF u
<1>4. /\ u \o TX_CH \in Seq(Tokens) /\ Len(u \o TX_CH) = Len(u) + Len(TX_CH)
      /\ \A i \in 1..Len(u) + Len(TX_CH) :
            (u \o TX_CH)[i] = IF i <= Len(u) THEN u[i] ELSE TX_CH[i - Len(u)]
  <2>1. u \in Seq(Tokens) /\ TX_CH \in Seq(Tokens)
    BY <1>1, <1>3
  <2> QED
    BY <2>1, ConcatProperties
<1>5. Stream = u \o TX_CH
  BY DEF Stream, u
<1>6. Len(u) \in Nat
  BY <1>2, <1>3
<1>7. Stream \in Seq(Tokens) /\ Len(Stream) = Len(usb) + Len(writing) + Len(TX_CH)
      /\ Len(Stream) \in Nat
  BY <1>2, <1>3, <1>4, <1>5
<1>8. ASSUME NEW i \in 1..Len(Stream)
      PROVE  Stream[i] = IF i <= Len(usb) THEN usb[i]
                         ELSE IF i <= Len(usb) + Len(writing) THEN writing[i - Len(usb)]
                         ELSE TX_CH[i - (Len(usb) + Len(writing))]
  <2>1. Stream[i] = IF i <= Len(u) THEN u[i] ELSE TX_CH[i - Len(u)]
    BY <1>4, <1>5
  <2>2. i <= Len(u) => u[i] = IF i <= Len(usb) THEN usb[i] ELSE writing[i - Len(usb)]
    BY <1>3, <1>6
  <2> QED
    BY <1>2, <1>3, <2>1, <2>2
<1> QED
  BY <1>2, <1>7, <1>8 DEF Located

\* Tokens may be damaged or lost, but each frame left is a frame that was there, and
\* frames keep their order: at most the oldest token is gone.
Sheds(d) ==
    \A i \in 1..Len(Stream') :
        IsFrame(Stream'[i]) => i + d \in 1..Len(Stream) /\ Stream'[i] = Stream[i + d]

UsbSheds(d) ==
    /\ d <= Len(usb) /\ Len(usb') = Len(usb) - d
    /\ \A i \in 1..Len(usb') : IsFrame(usb'[i]) => usb'[i] = usb[i + d]

LEMMA UsbThenStream ==
    ASSUME LinkTypeOK, LinkTypeOK', NEW d \in {0, 1}, UsbSheds(d),
           UNCHANGED <<writing, TX_CH>>
    PROVE  Sheds(d)
<1> SUFFICES ASSUME NEW i \in 1..Len(Stream'), IsFrame(Stream'[i])
             PROVE  i + d \in 1..Len(Stream) /\ Stream'[i] = Stream[i + d]
  BY DEF Sheds
<1> DEFINE S == Stream
           T == Stream'
<1>1. /\ Len(S) \in Nat
      /\ Len(usb) \in Nat /\ Len(writing) \in Nat /\ Len(TX_CH) \in Nat
      /\ Len(S) = Len(usb) + Len(writing) + Len(TX_CH)
      /\ \A j \in 1..Len(S) :
            S[j] = IF j <= Len(usb) THEN usb[j]
                   ELSE IF j <= Len(usb) + Len(writing) THEN writing[j - Len(usb)]
                   ELSE TX_CH[j - (Len(usb) + Len(writing))]
  BY StreamAt DEF Located
<1>2. /\ Len(T) \in Nat /\ Len(usb') \in Nat
      /\ Len(T) = Len(usb') + Len(writing) + Len(TX_CH)
      /\ \A j \in 1..Len(T) :
            T[j] = IF j <= Len(usb') THEN usb'[j]
                   ELSE IF j <= Len(usb') + Len(writing) THEN writing[j - Len(usb')]
                   ELSE TX_CH[j - (Len(usb') + Len(writing))]
  <2>1. Located'
    BY StreamAt, PTL
  <2> QED
    BY <2>1 DEF Located
<1>3. d <= Len(usb) /\ Len(usb') = Len(usb) - d
  BY DEF UsbSheds
<1>4. \A j \in 1..Len(usb') : IsFrame(usb'[j]) => usb'[j] = usb[j + d]
  BY DEF UsbSheds
<1>5. i \in 1..Len(T) /\ IsFrame(T[i])
  OBVIOUS
<1> HIDE DEF S, T
<1>6. i + d \in 1..Len(S)
  BY <1>1, <1>2, <1>3, <1>5
<1>7. T[i] = S[i + d]
  <2>1. CASE i <= Len(usb')
    BY <1>1, <1>2, <1>3, <1>4, <1>5, <1>6, <2>1
  <2>2. CASE i > Len(usb') /\ i <= Len(usb') + Len(writing)
    <3>1. T[i] = writing[i - Len(usb')]
      BY <1>2, <1>5, <2>2
    <3>2. S[i + d] = writing[i + d - Len(usb)]
      BY <1>1, <1>2, <1>3, <1>5, <1>6, <2>2
    <3>3. i + d - Len(usb) = i - Len(usb')
      BY <1>1, <1>2, <1>3, <1>5
    <3> QED
      BY <3>1, <3>2, <3>3
  <2>3. CASE i > Len(usb') + Len(writing)
    <3>1. T[i] = TX_CH[i - (Len(usb') + Len(writing))]
      BY <1>1, <1>2, <1>5, <2>3, SMTT(30)
    <3>2. S[i + d] = TX_CH[i + d - (Len(usb) + Len(writing))]
      <4> DEFINE j == i + d
      <4>1. ~(j <= Len(usb) + Len(writing)) /\ ~(j <= Len(usb))
        BY <1>1, <1>2, <1>3, <1>5, <2>3
      <4>2. j \in 1..Len(S)
        BY <1>6
      <4> HIDE DEF j
      <4>3. S[j] = TX_CH[j - (Len(usb) + Len(writing))]
        BY <1>1, <4>1, <4>2
      <4> QED
        BY <4>3 DEF j
    <3>3. i + d - (Len(usb) + Len(writing)) = i - (Len(usb') + Len(writing))
      BY <1>1, <1>2, <1>3, <1>5
    <3> QED
      BY <3>1, <3>2, <3>3
  <2> QED
    BY <1>1, <1>2, <1>5, <2>1, <2>2, <2>3
<1> QED
  BY <1>6, <1>7 DEF S, T

LEMMA TailSheds ==
    ASSUME LinkTypeOK, usb # <<>>, usb' = Tail(usb)
    PROVE  UsbSheds(1)
<1>1. usb \in Seq(Tokens) /\ Len(usb) \in Nat \ {0}
  BY EmptySeq DEF LinkTypeOK
<1>2. Len(usb') = Len(usb) - 1 /\ \A i \in 1..Len(usb') : usb'[i] = usb[i + 1]
  BY <1>1, HeadTailProperties
<1> QED
  BY <1>1, <1>2 DEF UsbSheds

LEMMA CutSheds ==
    ASSUME LinkTypeOK, usb # <<>>, NEW k \in {FrameTail, Delimiter},
           usb' = <<k>> \o Tail(usb)
    PROVE  /\ UsbSheds(0) /\ usb'[1] = k
           /\ \A i \in 1..Len(usb') : i # 1 => usb'[i] = usb[i]
<1>1. usb \in Seq(Tokens) /\ Len(usb) \in Nat \ {0}
  BY EmptySeq DEF LinkTypeOK
<1>2. /\ Tail(usb) \in Seq(Tokens) /\ Len(Tail(usb)) = Len(usb) - 1
      /\ \A i \in 1..Len(Tail(usb)) : Tail(usb)[i] = usb[i + 1]
  BY <1>1, HeadTailProperties
<1>3. <<k>> \in Seq(Tokens) /\ Len(<<k>>) = 1 /\ <<k>>[1] = k /\ ~IsFrame(k)
  BY TokenKinds
<1>4. /\ Len(usb') = 1 + Len(Tail(usb))
      /\ \A i \in 1..1 + Len(Tail(usb)) :
            usb'[i] = IF i <= 1 THEN <<k>>[i] ELSE Tail(usb)[i - 1]
  BY <1>2, <1>3, ConcatProperties
<1>5. Len(usb') = Len(usb)
  BY <1>1, <1>2, <1>4
<1>6. usb'[1] = k
  BY <1>1, <1>3, <1>4, <1>5
<1>7. ASSUME NEW i \in 1..Len(usb'), i # 1 PROVE usb'[i] = usb[i]
  <2>1. usb'[i] = Tail(usb)[i - 1] /\ i - 1 \in 1..Len(Tail(usb))
    BY <1>1, <1>2, <1>4, <1>5, <1>7
  <2>2. Tail(usb)[i - 1] = usb[(i - 1) + 1]
    BY <1>2, <2>1
  <2> QED
    BY <2>1, <2>2
<1>8. UsbSheds(0)
  <2> SUFFICES ASSUME NEW i \in 1..Len(usb'), IsFrame(usb'[i]) PROVE usb'[i] = usb[i + 0]
    BY <1>1, <1>5 DEF UsbSheds
  <2>1. i # 1
    BY <1>3, <1>6
  <2> QED
    BY <1>7, <2>1
<1> QED
  BY <1>6, <1>7, <1>8

LEMMA ResetSheds ==
    ASSUME LinkTypeOK, LinkTypeOK', Reset
    PROVE  Sheds(0)
<1>1. PICK k \in 0..Len(usb) :
          /\ usb' \in Seq(Tokens)
          /\ Len(usb') = k \/ (Len(usb') = k + 1 /\ usb'[k + 1] = Text)
          /\ \A i \in 1..k : usb'[i] = usb[i]
  BY ResetUsb
<1>2. writing' = <<>> /\ TX_CH' = <<>>
  BY DEF Reset
<1>3. Located /\ Located'
  BY StreamAt, PTL
<1>4. Len(Stream') = Len(usb') /\ \A i \in 1..Len(Stream') : Stream'[i] = usb'[i]
  BY <1>2, <1>3 DEF Located
<1> SUFFICES ASSUME NEW i \in 1..Len(Stream'), IsFrame(Stream'[i])
             PROVE  i + 0 \in 1..Len(Stream) /\ Stream'[i] = Stream[i + 0]
  BY DEF Sheds
<1>5. Stream'[i] = usb'[i] /\ i \in 1..Len(usb')
  BY <1>4
<1>6. usb'[i] # Text
  BY <1>5, TokenKinds
<1>7. i \in 1..k /\ Len(usb) \in Nat
  BY <1>1, <1>3, <1>5, <1>6, SMTT(30) DEF Located
<1>8. Stream[i] = usb[i] /\ i \in 1..Len(Stream)
  BY <1>3, <1>7 DEF Located
<1> QED
  BY <1>1, <1>5, <1>7, <1>8

LEMMA EnvironmentSheds ==
    ASSUME LinkTypeOK, LinkTypeOK', HostRead \/ HostStart \/ Reset
    PROVE  \E d \in {0, 1} : Sheds(d)
<1>1. CASE usb # <<>> /\ usb' = Tail(usb) /\ ~Reset
  <2>1. UNCHANGED <<writing, TX_CH>>
    BY <1>1 DEF HostRead, HostStart
  <2> QED
    BY <1>1, <2>1, TailSheds, UsbThenStream
<1>2. CASE usb # <<>> /\ (\E k \in {FrameTail, Delimiter} : usb' = <<k>> \o Tail(usb))
           /\ HostStart
  <2>1. UNCHANGED <<writing, TX_CH>>
    BY <1>2 DEF HostStart
  <2>2. UsbSheds(0)
    BY <1>2, CutSheds
  <2> QED
    BY <2>1, <2>2, UsbThenStream
<1>3. CASE usb' = usb /\ HostStart
  <2>1. UNCHANGED <<writing, TX_CH>> /\ Len(usb) \in Nat
    BY <1>3, StreamAt DEF HostStart, Located
  <2>2. UsbSheds(0)
    BY <1>3, <2>1 DEF UsbSheds
  <2> QED
    BY <2>1, <2>2, UsbThenStream
<1>4. CASE Reset
  BY <1>4, ResetSheds
<1> QED
  BY <1>1, <1>2, <1>3, <1>4, HostStartUsb DEF HostRead
-----------------------------------------------------------------------------
(* The numbers on their way *)

\* A frame of the device's current boot, numbered from it.
SinceBoot(f) == f.n >= bootAt /\ f.seq = (f.n - bootAt) % SeqMod

HandNumbered ==
    \A c \in Contexts :
        /\ pc[c] = "read"   => mine[c].n = sends /\ mine[c].seq = next
        /\ pc[c] = "stored" => mine[c].n + 1 = sends /\ SinceBoot(mine[c])

NextFromBoot == bootAt <= sends /\ next = (sends - bootAt) % SeqMod

\* Frames keep the order of their sends, whatever else the port carries.
FramesOrdered ==
    \A i, j \in 1..Len(Stream) :
        i < j /\ IsFrame(Stream[i]) /\ IsFrame(Stream[j]) => Stream[i].n < Stream[j].n

\* The sends still to come are younger than any frame on its way.
FramesOlder ==
    \A i \in 1..Len(Stream) : IsFrame(Stream[i]) =>
        /\ Stream[i].n < sends
        /\ \A c \in Contexts : pc[c] = "stored" => Stream[i].n < mine[c].n

FramesNumbered ==
    \A i \in 1..Len(Stream) : IsFrame(Stream[i]) =>
        (whole \/ Stream[i].n >= bootAt => SinceBoot(Stream[i]))

\* What a reset leaves is on the host's side of the port only.
DeviceFrames ==
    /\ \A i \in 1..Len(writing) : writing[i].n >= bootAt
    /\ \A i \in 1..Len(TX_CH) : TX_CH[i].n >= bootAt

\* Everything still to come is younger than the last frame counted.
AfterLast ==
    prev # <<>> =>
        /\ last < sends
        /\ \A c \in Contexts : pc[c] = "stored" => last < mine[c].n
        /\ \A i \in 1..Len(Stream) : IsFrame(Stream[i]) => last < Stream[i].n

NumberInv ==
    /\ LinkTypeOK /\ Locked /\ HandNumbered /\ NextFromBoot
    /\ FramesOrdered /\ FramesOlder /\ FramesNumbered /\ DeviceFrames /\ AfterLast

LEMMA NumberInit == Init => NumberInv
<1> SUFFICES ASSUME Init PROVE NumberInv
  OBVIOUS
<1>1. LinkTypeOK
  BY LinkTypeInit
<1>2. usb = <<>> /\ writing = <<>> /\ TX_CH = <<>> /\ Located
  BY <1>1, StreamAt DEF Init, WireInit
<1>3. Len(Stream) = 0 /\ Len(writing) = 0 /\ Len(TX_CH) = 0
  BY <1>2 DEF Located
<1>4. Locked /\ HandNumbered
  BY WireAssumption DEF Init, WireInit, Locked, HandNumbered
<1>5. NextFromBoot
  <2>1. 0 = SeqMod * 0 + 0 /\ 0 \in 0..(SeqMod - 1)
    BY WireAssumption
  <2>2. 0 % SeqMod = 0
    BY <2>1, Remainder
  <2> QED
    BY <2>2 DEF Init, WireInit, NextFromBoot
<1>6. AfterLast
  BY DEF Init, HostInit, AfterLast
<1>7. FramesOrdered /\ FramesOlder /\ FramesNumbered /\ DeviceFrames
  BY <1>3 DEF FramesOrdered, FramesOlder, FramesNumbered, DeviceFrames
<1> QED
  BY <1>1, <1>4, <1>5, <1>6, <1>7 DEF NumberInv

\* The frames of the stream are frames.
LEMMA StreamFrame ==
    ASSUME LinkTypeOK, NEW i \in 1..Len(Stream), IsFrame(Stream[i])
    PROVE  /\ Stream[i] \in Frames /\ Stream[i].n \in Nat
           /\ Stream[i].seq \in 0..(SeqMod - 1)
<1>1. Stream[i] \in Tokens
  BY StreamAt, ElementOfSeq DEF Located
<1> QED
  BY <1>1, TokenKinds

LEMMA NumberEnter ==
    ASSUME NumberInv, LinkTypeOK', NEW c \in Contexts, Enter(c), UNCHANGED <<hostVars, envVars>>
    PROVE  NumberInv'
<1> USE DEF NumberInv
<1>1. Stream' = Stream /\ UNCHANGED <<TX_CH, writing, sends, next>>
      /\ UNCHANGED <<bootAt, whole, prev, last>>
  BY DEF Enter, Stream, hostVars, envVars
<1>2. \A d \in Contexts : pc[d] = "idle"
  BY WireAssumption DEF Enter, CanLock, Locked
<1>3. pc \in [Contexts -> {"idle", "read", "stored"}] /\ mine \in [Contexts -> Frames]
  BY DEF LinkTypeOK, DeviceTypeOK
<1>4. Locked'
  BY <1>2, <1>3, WireAssumption DEF Enter, Locked
<1>5. mine'[c].n = sends /\ mine'[c].seq = next /\ pc'[c] = "read"
  BY <1>3 DEF Enter
<1>6. \A d \in Contexts : pc'[d] # "stored" /\ (pc'[d] = "read" => d = c)
  BY <1>2, <1>3 DEF Enter
<1>7. HandNumbered'
  BY <1>1, <1>5, <1>6 DEF HandNumbered
<1>8. NextFromBoot' /\ FramesOrdered' /\ FramesNumbered' /\ DeviceFrames'
  BY <1>1 DEF NextFromBoot, FramesOrdered, FramesNumbered, DeviceFrames, SinceBoot
<1>9. FramesOlder' /\ AfterLast'
  BY <1>1, <1>6 DEF FramesOlder, AfterLast
<1> QED
  BY <1>4, <1>7, <1>8, <1>9

LEMMA NumberStore ==
    ASSUME NumberInv, LinkTypeOK', NEW c \in Contexts, Store(c), UNCHANGED <<hostVars, envVars>>
    PROVE  NumberInv'
<1> USE DEF NumberInv
<1>1. Stream' = Stream /\ UNCHANGED <<TX_CH, writing, mine, cs>>
      /\ UNCHANGED <<bootAt, whole, prev, last>>
  BY DEF Store, Stream, hostVars, envVars
<1>2. pc \in [Contexts -> {"idle", "read", "stored"}] /\ sends \in Nat /\ bootAt \in Nat
      /\ last \in Nat
  BY DEF LinkTypeOK, DeviceTypeOK
<1>3. pc[c] = "read" /\ cs = c /\ \A d \in Contexts : d # c => pc[d] = "idle"
  BY DEF Store, Locked
<1>4. mine[c].n = sends /\ mine[c].seq = next
  BY <1>3 DEF HandNumbered
<1>5. sends' = sends + 1 /\ next' = Wrap(next)
  BY <1>4 DEF Store
<1>6. \A d \in Contexts : /\ pc'[d] = "stored" <=> d = c
                          /\ pc'[d] # "read"
  BY <1>2, <1>3 DEF Store
<1>7. bootAt <= sends /\ next = (sends - bootAt) % SeqMod
  BY DEF NextFromBoot
<1>8. SinceBoot(mine[c])
  BY <1>4, <1>7, <1>2 DEF SinceBoot
<1>9. Locked'
  BY <1>1, <1>2, <1>3 DEF Store, Locked
<1>10. HandNumbered'
  BY <1>1, <1>4, <1>5, <1>6, <1>8 DEF HandNumbered, SinceBoot
<1>11. NextFromBoot'
  <2> DEFINE m == sends - bootAt
  <2>1. m \in Nat /\ (sends + 1) - bootAt = m + 1 /\ bootAt <= sends + 1
    BY <1>2, <1>7
  <2>2. next = m % SeqMod
    BY <1>7
  <2> HIDE DEF m
  <2>3. Wrap(next) = (m + 1) % SeqMod
    BY <2>1, <2>2, WrapIsModulo
  <2> QED
    BY <1>1, <1>5, <2>1, <2>3 DEF NextFromBoot
<1>12. FramesOrdered' /\ FramesNumbered' /\ DeviceFrames'
  BY <1>1 DEF FramesOrdered, FramesNumbered, DeviceFrames, SinceBoot
<1>13. FramesOlder'
  <2> SUFFICES ASSUME NEW i \in 1..Len(Stream), IsFrame(Stream[i])
               PROVE  Stream[i].n < sends + 1 /\ Stream[i].n < mine[c].n
    BY <1>1, <1>5, <1>6 DEF FramesOlder
  <2> QED
    BY <1>2, <1>4, StreamFrame DEF FramesOlder
<1>14. AfterLast'
  BY <1>1, <1>2, <1>4, <1>5, <1>6 DEF AfterLast
<1> QED
  BY <1>9, <1>10, <1>11, <1>12, <1>13, <1>14

LEMMA NumberEnqueue ==
    ASSUME NumberInv, LinkTypeOK', NEW c \in Contexts, Enqueue(c),
           UNCHANGED <<hostVars, envVars>>
    PROVE  NumberInv'
<1> USE DEF NumberInv
<1> DEFINE f == mine[c]
<1>1. UNCHANGED <<writing, sends, next, bootAt, whole, prev, last, mine>>
  BY DEF Enqueue, hostVars, envVars
<1>2. pc \in [Contexts -> {"idle", "read", "stored"}] /\ f \in Frames
      /\ TX_CH \in Seq(Frames)
  BY DEF LinkTypeOK, DeviceTypeOK
<1>3. pc[c] = "stored" /\ cs = c /\ \A d \in Contexts : d # c => pc[d] = "idle"
  BY DEF Enqueue, Locked
<1>4. \A d \in Contexts : pc'[d] = "idle"
  BY <1>2, <1>3 DEF Enqueue
<1>5. Locked' /\ HandNumbered' /\ NextFromBoot'
  BY <1>1, <1>4, WireAssumption
  DEF Enqueue, Leave, Locked, HandNumbered, NextFromBoot
<1>6. f.n + 1 = sends /\ f.n \in Nat /\ SinceBoot(f) /\ f \in Tokens
  BY <1>2, <1>3 DEF HandNumbered, Frames, Tokens
<1>7. CASE UNCHANGED TX_CH
  <2>1. Stream' = Stream
    BY <1>7 DEF Enqueue, Stream
  <2>2. FramesOrdered' /\ FramesNumbered' /\ DeviceFrames'
    BY <1>1, <1>7, <2>1 DEF FramesOrdered, FramesNumbered, DeviceFrames, SinceBoot
  <2>3. FramesOlder' /\ AfterLast'
    BY <1>1, <1>4, <2>1 DEF FramesOlder, AfterLast
  <2> QED
    BY <1>5, <2>2, <2>3
<1>8. CASE TX_CH' = Append(TX_CH, f)
  <2>1. Stream' = Append(Stream, f) /\ Stream \in Seq(Tokens)
    BY <1>1, <1>6, <1>8, CarriesTokens, AppendToStream, StreamAt DEF Enqueue, Located
  <2>2. /\ Len(Stream') = Len(Stream) + 1 /\ Len(Stream) \in Nat
        /\ \A i \in 1..Len(Stream) : Stream'[i] = Stream[i]
        /\ Stream'[Len(Stream) + 1] = f
    BY <1>6, <2>1, AppendProperties, LenProperties
  <2>3. \A i \in 1..Len(Stream') : i \in 1..Len(Stream) \/ Stream'[i] = f
    BY <2>2
  <2>4. FramesOrdered'
    <3> SUFFICES ASSUME NEW i \in 1..Len(Stream'), NEW j \in 1..Len(Stream'), i < j,
                        IsFrame(Stream'[i]), IsFrame(Stream'[j])
                 PROVE  Stream'[i].n < Stream'[j].n
      BY DEF FramesOrdered
    <3>1. i \in 1..Len(Stream) /\ Stream'[i] = Stream[i]
      BY <2>2
    <3>2. CASE j \in 1..Len(Stream)
      BY <2>2, <3>1, <3>2 DEF FramesOrdered
    <3>3. CASE Stream'[j] = f
      BY <1>3, <3>1, <3>3 DEF FramesOlder
    <3> QED
      BY <2>3, <3>2, <3>3
  <2>5. FramesNumbered'
    <3> SUFFICES ASSUME NEW i \in 1..Len(Stream'), IsFrame(Stream'[i]),
                        whole \/ Stream'[i].n >= bootAt
                 PROVE  SinceBoot(Stream'[i])
      BY <1>1 DEF FramesNumbered, SinceBoot
    <3>1. CASE i \in 1..Len(Stream)
      BY <2>2, <3>1 DEF FramesNumbered
    <3>2. CASE Stream'[i] = f
      BY <1>6, <3>2
    <3> QED
      BY <2>3, <3>1, <3>2
  <2>6. DeviceFrames'
    <3>1. /\ Len(TX_CH') = Len(TX_CH) + 1 /\ Len(TX_CH) \in Nat
          /\ \A i \in 1..Len(TX_CH) : TX_CH'[i] = TX_CH[i]
          /\ TX_CH'[Len(TX_CH) + 1] = f
      BY <1>2, <1>8, AppendProperties, LenProperties
    <3>2. \A i \in 1..Len(TX_CH') : i \in 1..Len(TX_CH) \/ TX_CH'[i] = f
      BY <3>1
    <3>3. \A i \in 1..Len(TX_CH') : TX_CH'[i].n >= bootAt
      BY <1>6, <3>1, <3>2 DEF DeviceFrames, SinceBoot
    <3> QED
      BY <1>1, <3>3 DEF DeviceFrames
  <2>7. FramesOlder'
    <3> SUFFICES ASSUME NEW i \in 1..Len(Stream'), IsFrame(Stream'[i])
                 PROVE  Stream'[i].n < sends
      BY <1>1, <1>4 DEF FramesOlder
    <3>1. CASE i \in 1..Len(Stream)
      BY <2>2, <3>1 DEF FramesOlder
    <3>2. CASE Stream'[i] = f
      BY <1>6, <3>2
    <3> QED
      BY <2>3, <3>1, <3>2
  <2>8. AfterLast'
    <3> SUFFICES ASSUME prev # <<>>
                 PROVE  /\ last < sends
                        /\ \A i \in 1..Len(Stream') :
                              IsFrame(Stream'[i]) => last < Stream'[i].n
      BY <1>1, <1>4 DEF AfterLast
    <3>1. last < sends /\ last < f.n
      BY <1>3 DEF AfterLast
    <3> QED
      BY <2>2, <2>3, <3>1 DEF AfterLast
  <2> QED
    BY <1>5, <2>4, <2>5, <2>6, <2>7, <2>8
<1> QED
  BY <1>7, <1>8 DEF Enqueue, Offer

LEMMA NumberTask ==
    ASSUME NumberInv, LinkTypeOK', TxReceive \/ TxWrite, UNCHANGED <<hostVars, envVars>>
    PROVE  NumberInv'
<1> USE DEF NumberInv
<1>1. UNCHANGED <<cs, pc, sends, next, bootAt, whole, prev, last, mine>>
  BY DEF TxReceive, TxWrite, hostVars, envVars
<1>2. Stream' = Stream
  BY CarriesTokens, ReceiveKeepsStream, WriteKeepsStream
<1>3. Locked' /\ HandNumbered' /\ NextFromBoot'
  BY <1>1 DEF Locked, HandNumbered, NextFromBoot, SinceBoot
<1>4. FramesOrdered' /\ FramesNumbered' /\ FramesOlder' /\ AfterLast'
  BY <1>1, <1>2 DEF FramesOrdered, FramesNumbered, SinceBoot, FramesOlder, AfterLast
<1>5. DeviceFrames'
  <2>1. TX_CH \in Seq(Frames)
    BY DEF LinkTypeOK, DeviceTypeOK
  <2>2. CASE TxReceive
    <3>1. /\ Head(TX_CH) = TX_CH[1] /\ Len(TX_CH) \in Nat \ {0}
          /\ Len(Tail(TX_CH)) = Len(TX_CH) - 1
          /\ \A i \in 1..Len(Tail(TX_CH)) : Tail(TX_CH)[i] = TX_CH[i + 1]
      BY <2>1, <2>2, HeadTailProperties, EmptySeq DEF TxReceive
    <3>2. \A i \in 1..Len(Tail(TX_CH)) : i + 1 \in 1..Len(TX_CH)
      BY <3>1
    <3>3. \A i \in 1..Len(TX_CH') : TX_CH'[i].n >= bootAt
      BY <2>2, <3>1, <3>2 DEF TxReceive, DeviceFrames
    <3>4. Len(writing') = 1 /\ writing'[1] = TX_CH[1] /\ 1 \in 1..Len(TX_CH)
      BY <2>2, <3>1 DEF TxReceive
    <3>5. \A i \in 1..Len(writing') : writing'[i].n >= bootAt
      BY <3>4 DEF DeviceFrames
    <3> QED
      BY <1>1, <3>3, <3>5 DEF DeviceFrames
  <2>3. CASE TxWrite
    BY <1>1, <2>3 DEF TxWrite, DeviceFrames
  <2> QED
    BY <2>2, <2>3
<1> QED
  BY <1>3, <1>4, <1>5

\* Frames lost or left alone stay ordered, and older than the sends to come.
LEMMA NumberSheds ==
    ASSUME NumberInv, NEW d \in {0, 1}, Sheds(d), sends' = sends,
           \A c \in Contexts : pc'[c] = "stored" => pc[c] = "stored" /\ mine'[c] = mine[c]
    PROVE  FramesOrdered' /\ FramesOlder'
<1> USE DEF NumberInv
<1>1. \A i \in 1..Len(Stream') : IsFrame(Stream'[i]) =>
          i + d \in 1..Len(Stream) /\ Stream'[i] = Stream[i + d]
  BY DEF Sheds
<1>2. FramesOrdered'
  <2> SUFFICES ASSUME NEW i \in 1..Len(Stream'), NEW j \in 1..Len(Stream'), i < j,
                      IsFrame(Stream'[i]), IsFrame(Stream'[j])
               PROVE  Stream'[i].n < Stream'[j].n
    BY DEF FramesOrdered
  <2>1. i + d < j + d
    OBVIOUS
  <2> QED
    BY <1>1, <2>1 DEF FramesOrdered
<1>3. FramesOlder'
  BY <1>1 DEF FramesOlder
<1> QED
  BY <1>2, <1>3

\* The token the host reads is the oldest of the stream.
LEMMA ReadsOldest ==
    ASSUME LinkTypeOK, LinkTypeOK', HostRead
    PROVE  /\ Head(usb) \in Tokens /\ 1 \in 1..Len(Stream) /\ Head(usb) = Stream[1]
           /\ Sheds(1)
<1>1. usb \in Seq(Tokens) /\ usb # <<>> /\ usb' = Tail(usb) /\ UNCHANGED <<writing, TX_CH>>
  BY DEF LinkTypeOK, HostRead
<1>2. Head(usb) \in Tokens /\ Head(usb) = usb[1] /\ Len(usb) \in Nat \ {0}
  BY <1>1, HeadTailProperties, EmptySeq
<1>3. Sheds(1)
  BY <1>1, TailSheds, UsbThenStream
<1> QED
  BY <1>2, <1>3, StreamAt DEF Located

\* What is not a frame on its own leaves the sequence accounting alone.
LEMMA UncountedKeepsPrev ==
    ASSUME LinkTypeOK, NEW k \in Tokens, Feed(k), ~Counted(k)
    PROVE  /\ prev' = prev /\ stats'.frames = stats.frames
           /\ stats'.seq_gaps = stats.seq_gaps /\ stats'.seq_reorder = stats.seq_reorder
<1>1. Reject => /\ prev' = prev /\ stats'.frames = stats.frames
                /\ stats'.seq_gaps = stats.seq_gaps /\ stats'.seq_reorder = stats.seq_reorder
  BY DEF Reject, LinkTypeOK, Stats
<1>2. k \in Frames => FeedFrame(k) /\ dirty
  BY TokenKinds DEF Feed, Frames, Types, Counted
<1>3. CASE k \in Frames
  BY <1>1, <1>2, <1>3 DEF FeedFrame
<1>4. CASE k = Text
  BY <1>4 DEF Feed, FeedText, Text, Token
<1>5. CASE k = FrameTail
  BY <1>1, <1>5 DEF Feed, FeedTail, FrameTail, Token
<1>6. CASE k = Delimiter
  BY <1>1, <1>6 DEF Feed, FeedDelimiter, Delimiter, Token
<1> QED
  BY <1>3, <1>4, <1>5, <1>6 DEF Tokens

LEMMA NumberRead ==
    ASSUME NumberInv, LinkTypeOK', HostRead
    PROVE  NumberInv'
<1> USE DEF NumberInv
<1> DEFINE k == Head(usb)
<1>1. UNCHANGED <<cs, pc, mine, next, TX_CH, writing, sends, bootAt>>
  BY DEF HostRead
<1>2. k \in Tokens /\ 1 \in 1..Len(Stream) /\ k = Stream[1] /\ Sheds(1)
  BY ReadsOldest
<1>3. \A i \in 1..Len(Stream') : IsFrame(Stream'[i]) =>
          i + 1 \in 1..Len(Stream) /\ Stream'[i] = Stream[i + 1]
  BY <1>2 DEF Sheds
<1>4. Locked' /\ HandNumbered' /\ NextFromBoot' /\ DeviceFrames'
  BY <1>1 DEF Locked, HandNumbered, NextFromBoot, SinceBoot, DeviceFrames
<1>5. FramesOrdered' /\ FramesOlder'
  BY <1>1, <1>2, NumberSheds
<1>6. FramesNumbered'
  <2>1. whole' => whole
    BY DEF HostRead
  <2> QED
    BY <1>1, <1>3, <2>1 DEF FramesNumbered, SinceBoot
<1>7. AfterLast'
  <2>1. CASE Counted(k)
    <3>1. IsFrame(k) /\ last' = k.n
      BY <2>1 DEF HostRead, Counted
    <3>2. last' < sends /\ \A c \in Contexts : pc[c] = "stored" => last' < mine[c].n
      BY <1>2, <3>1 DEF FramesOlder
    <3>3. ASSUME NEW i \in 1..Len(Stream'), IsFrame(Stream'[i])
          PROVE  last' < Stream'[i].n
      <4>1. i + 1 \in 1..Len(Stream) /\ Stream'[i] = Stream[i + 1] /\ 1 < i + 1
        BY <1>3, <3>3
      <4> QED
        BY <1>2, <3>1, <3>3, <4>1 DEF FramesOrdered
    <3> QED
      BY <1>1, <3>2, <3>3 DEF AfterLast
  <2>2. CASE ~Counted(k)
    <3>1. prev' = prev /\ last' = last
      BY <1>2, <2>2, UncountedKeepsPrev DEF HostRead
    <3> QED
      BY <1>1, <1>3, <3>1 DEF AfterLast
  <2> QED
    BY <2>1, <2>2
<1> QED
  BY <1>4, <1>5, <1>6, <1>7

LEMMA NumberStart ==
    ASSUME NumberInv, LinkTypeOK', HostStart
    PROVE  NumberInv'
<1> USE DEF NumberInv
<1>1. UNCHANGED <<cs, pc, mine, next, TX_CH, writing, sends, bootAt>> /\ prev' = <<>>
  BY DEF HostStart
<1>2. PICK d \in {0, 1} : Sheds(d)
  BY EnvironmentSheds
<1>3. Locked' /\ HandNumbered' /\ NextFromBoot' /\ DeviceFrames'
  BY <1>1 DEF Locked, HandNumbered, NextFromBoot, SinceBoot, DeviceFrames
<1>4. FramesOrdered' /\ FramesOlder'
  BY <1>1, <1>2, NumberSheds
<1>5. AfterLast'
  BY <1>1 DEF AfterLast
<1>6. FramesNumbered'
  <2> SUFFICES ASSUME NEW i \in 1..Len(Stream'), IsFrame(Stream'[i]),
                      whole' \/ Stream'[i].n >= bootAt
               PROVE  SinceBoot(Stream'[i])
    BY <1>1 DEF FramesNumbered, SinceBoot
  <2> DEFINE j == i + d
  <2>1. j \in 1..Len(Stream) /\ Stream'[i] = Stream[j]
    BY <1>2 DEF Sheds
  <2> HIDE DEF j
  <2>2. Located
    BY StreamAt
  <2>3. Stream[j].n >= bootAt
    <3>1. CASE j \in 1..Len(usb)
      <4>1. Stream[j] = usb[j]
        BY <2>1, <2>2, <3>1 DEF Located
      <4>2. whole' => (IsFrame(usb[j]) => usb[j].n >= bootAt)
        BY <3>1 DEF HostStart
      <4> QED
        BY <2>1, <4>1, <4>2
    <3>2. CASE j > Len(usb) /\ j <= Len(usb) + Len(writing)
      <4>1. Stream[j] = writing[j - Len(usb)] /\ j - Len(usb) \in 1..Len(writing)
        BY <2>1, <2>2, <3>2 DEF Located
      <4> QED
        BY <4>1 DEF DeviceFrames
    <3>3. CASE j > Len(usb) + Len(writing)
      <4>1. /\ Stream[j] = TX_CH[j - (Len(usb) + Len(writing))]
            /\ j - (Len(usb) + Len(writing)) \in 1..Len(TX_CH)
        BY <2>1, <2>2, <3>3 DEF Located
      <4> QED
        BY <4>1 DEF DeviceFrames
    <3> QED
      BY <2>1, <2>2, <3>1, <3>2, <3>3 DEF Located
  <2> QED
    BY <2>1, <2>3 DEF FramesNumbered
<1> QED
  BY <1>3, <1>4, <1>5, <1>6

LEMMA NumberReset ==
    ASSUME NumberInv, LinkTypeOK', Reset
    PROVE  NumberInv'
<1> USE DEF NumberInv
<1>1. /\ sends' = sends /\ next' = 0 /\ bootAt' = sends /\ UNCHANGED <<prev, last>>
      /\ cs' = Nobody /\ TX_CH' = <<>> /\ writing' = <<>> /\ whole' = FALSE
  BY DEF Reset, hostVars
<1>2. \A c \in Contexts : pc'[c] = "idle"
  BY DEF Reset
<1>3. Sheds(0)
  BY ResetSheds DEF Reset
<1>4. Locked' /\ HandNumbered'
  BY <1>1, <1>2, WireAssumption DEF Locked, HandNumbered
<1>5. NextFromBoot'
  <2>1. sends \in Nat
    BY DEF LinkTypeOK, DeviceTypeOK
  <2>2. 0 = SeqMod * 0 + 0 /\ 0 \in 0..(SeqMod - 1)
    BY WireAssumption
  <2>3. 0 % SeqMod = 0
    BY <2>2, Remainder
  <2> QED
    BY <1>1, <2>1, <2>3 DEF NextFromBoot
<1>6. FramesOrdered' /\ FramesOlder'
  BY <1>1, <1>2, <1>3, NumberSheds
<1>7. DeviceFrames'
  BY <1>1 DEF DeviceFrames
<1>8. \A i \in 1..Len(Stream') : IsFrame(Stream'[i]) =>
          i + 0 \in 1..Len(Stream) /\ Stream'[i] = Stream[i + 0]
  BY <1>3 DEF Sheds
<1>9. AfterLast'
  BY <1>1, <1>2, <1>8 DEF AfterLast
<1>10. FramesNumbered'
  <2> SUFFICES ASSUME NEW i \in 1..Len(Stream'), IsFrame(Stream'[i])
               PROVE  ~(Stream'[i].n >= sends)
    BY <1>1 DEF FramesNumbered
  <2>1. i + 0 \in 1..Len(Stream) /\ Stream'[i] = Stream[i + 0]
    BY <1>8
  <2>2. Stream'[i].n < sends /\ Stream'[i].n \in Nat /\ sends \in Nat
    BY <2>1, StreamFrame DEF FramesOlder, LinkTypeOK, DeviceTypeOK
  <2> QED
    BY <2>2
<1> QED
  BY <1>4, <1>5, <1>6, <1>7, <1>9, <1>10

LEMMA NumberStep == NumberInv /\ [Next]_vars => NumberInv'
<1> SUFFICES ASSUME NumberInv, [Next]_vars PROVE NumberInv'
  OBVIOUS
<1>1. LinkTypeOK'
  BY LinkTypeStep DEF NumberInv
<1>2. CASE DeviceStep
  BY <1>1, <1>2, NumberEnter, NumberStore, NumberEnqueue, NumberTask
  DEF DeviceStep, Device, Send
<1>3. CASE HostExit \/ UNCHANGED vars
  <2>1. UNCHANGED <<wireVars, hostVars, bootAt, last, whole>> /\ Stream' = Stream
    BY <1>3 DEF HostExit, vars, envVars, wireVars, hostVars, Stream
  <2> QED
    BY <1>1, <2>1
    DEF wireVars, hostVars, NumberInv, Locked, HandNumbered, NextFromBoot, SinceBoot,
        FramesOrdered, FramesOlder, FramesNumbered, DeviceFrames, AfterLast
<1> QED
  BY <1>1, <1>2, <1>3, NumberRead, NumberStart, NumberReset DEF Next

\* A frame is counted once, after every frame sent before it that was counted, across
\* resets too: a step that counts one reads a frame younger than the last.
LEMMA CountsYounger ==
    ASSUME NumberInv, [Next]_vars
    PROVE  stats'.frames > stats.frames /\ prev # <<>> => last' > last
<1> SUFFICES ASSUME stats'.frames > stats.frames, prev # <<>> PROVE last' > last
  OBVIOUS
<1>0. stats \in Stats /\ stats.frames \in Nat
  BY DEF NumberInv, LinkTypeOK, Stats
<1>1. HostRead
  <2>1. CASE HostStart
    BY <1>0, <2>1 DEF HostStart, NoStats
  <2>2. CASE UNCHANGED stats
    BY <1>0, <2>2
  <2> QED
    BY <2>1, <2>2 DEF Next, DeviceStep, HostExit, Reset, vars, hostVars
<1>2. LinkTypeOK /\ LinkTypeOK'
  BY LinkTypeStep DEF NumberInv
<1>3. Head(usb) \in Tokens /\ 1 \in 1..Len(Stream) /\ Head(usb) = Stream[1]
  BY <1>1, <1>2, ReadsOldest
<1>4. Counted(Head(usb))
  BY <1>0, <1>1, <1>2, <1>3, UncountedKeepsPrev DEF HostRead
<1>5. IsFrame(Stream[1]) /\ last' = Stream[1].n
  BY <1>1, <1>3, <1>4 DEF HostRead, Counted
<1>6. last < Stream[1].n
  BY <1>3, <1>5 DEF NumberInv, AfterLast
<1> QED
  BY <1>2, <1>3, <1>5, <1>6, StreamFrame DEF LinkTypeOK

\* The host counts frames once and in the order of their sends, whatever was lost on
\* the way and however often the device was reset.
THEOREM LinkInOrder == Spec => EndToEndOrder
<1>1. NumberInv /\ [Next]_vars =>
          [stats'.frames > stats.frames /\ prev # <<>> => last' > last]_vars
  BY CountsYounger
<1> QED
  BY NumberInit, NumberStep, <1>1, PTL DEF Spec, EndToEndOrder
-----------------------------------------------------------------------------
(* What the host concludes from the numbers *)

\* wrapping_sub gives the distance of two sends less than a whole sequence apart.
LEMMA WrappingDistance ==
    ASSUME NEW a \in Nat, NEW b \in Nat, a < b, b - a < SeqMod
    PROVE  ((b % SeqMod) + SeqMod - (a % SeqMod)) % SeqMod = b - a
<1> DEFINE p == a \div SeqMod
           r == a % SeqMod
           q == b \div SeqMod
           s == b % SeqMod
<1>1. p \in Nat /\ a = SeqMod * p + r /\ r \in 0..(SeqMod - 1)
  BY WireAssumption
<1>2. q \in Nat /\ b = SeqMod * q + s /\ s \in 0..(SeqMod - 1)
  BY WireAssumption
<1>3. SeqMod \in Nat \ {0}
  BY WireAssumption
<1> HIDE DEF p, r, q, s
<1>4. q = p \/ q = p + 1
  <2>1. ~(q < p)
    <3> SUFFICES ASSUME q < p PROVE FALSE
      OBVIOUS
    <3>1. q + 1 <= p
      BY <1>1, <1>2
    <3>2. SeqMod * (q + 1) <= SeqMod * p
      BY <1>1, <1>2, <1>3, <3>1
    <3>3. SeqMod * (q + 1) = SeqMod * q + SeqMod
      BY <1>2, <1>3
    <3> DEFINE x == SeqMod * q
               y == SeqMod * p
    <3>4. x \in Nat /\ y \in Nat
      BY <1>1, <1>2, <1>3
    <3>5. x + SeqMod <= y /\ b = x + s /\ a = y + r
      BY <1>1, <1>2, <3>2, <3>3
    <3> HIDE DEF x, y
    <3> QED
      BY <1>1, <1>2, <1>3, <3>4, <3>5
  <2>2. ~(q > p + 1)
    <3> SUFFICES ASSUME q > p + 1 PROVE FALSE
      OBVIOUS
    <3>1. p + 2 <= q
      BY <1>1, <1>2
    <3>2. SeqMod * (p + 2) <= SeqMod * q
      BY <1>1, <1>2, <1>3, <3>1
    <3>3. SeqMod * (p + 2) = SeqMod * p + SeqMod + SeqMod
      BY <1>1, <1>3
    <3> DEFINE x == SeqMod * q
               y == SeqMod * p
    <3>4. x \in Nat /\ y \in Nat
      BY <1>1, <1>2, <1>3
    <3>5. y + SeqMod + SeqMod <= x /\ b = x + s /\ a = y + r
      BY <1>1, <1>2, <3>2, <3>3
    <3> HIDE DEF x, y
    <3> QED
      BY <1>1, <1>2, <1>3, <3>4, <3>5
  <2> QED
    BY <1>1, <1>2, <2>1, <2>2
<1>5. q = p => (s + SeqMod - r) % SeqMod = b - a
  <2> SUFFICES ASSUME q = p PROVE (s + SeqMod - r) % SeqMod = b - a
    OBVIOUS
  <2> DEFINE y == SeqMod * p
  <2>1. y \in Nat /\ a = y + r /\ b = y + s
    BY <1>1, <1>2, <1>3
  <2> HIDE DEF y
  <2>2. b - a = s - r /\ s - r \in 0..(SeqMod - 1)
    BY <1>1, <1>2, <1>3, <2>1
  <2>3. s + SeqMod - r \in Nat /\ s + SeqMod - r = SeqMod * 1 + (s - r)
    BY <1>1, <1>2, <1>3, <2>2
  <2>4. (s + SeqMod - r) % SeqMod = s - r
    BY <2>2, <2>3, Remainder
  <2> QED
    BY <2>2, <2>4
<1>6. q = p + 1 => (s + SeqMod - r) % SeqMod = b - a
  <2> SUFFICES ASSUME q = p + 1 PROVE (s + SeqMod - r) % SeqMod = b - a
    OBVIOUS
  <2> DEFINE y == SeqMod * p
  <2>1. SeqMod * (p + 1) = y + SeqMod
    BY <1>1, <1>3
  <2>2. y \in Nat /\ a = y + r /\ b = y + SeqMod + s
    BY <1>1, <1>2, <1>3, <2>1
  <2> HIDE DEF y
  <2>3. b - a = s + SeqMod - r /\ s + SeqMod - r \in 0..(SeqMod - 1)
    BY <1>1, <1>2, <1>3, <2>2
  <2>4. s + SeqMod - r = SeqMod * 0 + (s + SeqMod - r)
    BY <1>1, <1>2, <1>3
  <2>5. (s + SeqMod - r) % SeqMod = s + SeqMod - r
    BY <2>3, <2>4, Remainder
  <2> QED
    BY <2>3, <2>5
<1> QED
  BY <1>4, <1>5, <1>6 DEF r, s

\* prev is the number of the last frame counted, and seq_gaps what lies between the
\* first and the last and was not counted.
Accounted ==
    /\ prev = <<>> => stats.frames = 0 /\ stats.seq_gaps = 0 /\ stats.seq_reorder = 0
    /\ whole /\ prev # <<>> =>
         /\ last >= bootAt /\ prev = <<(last - bootAt) % SeqMod>>
         /\ stats.seq_gaps = (last - first) - (stats.frames - 1)
         /\ stats.seq_reorder = 0

\* The first frame a host program counts.
LEMMA CountFirst ==
    ASSUME LinkTypeOK, Accounted, NEW f \in Frames, SinceBoot(f), prev = <<>>, Account(f),
           last' = f.n, first' = f.n, UNCHANGED bootAt
    PROVE  Accounted'
<1>1. stats \in Stats /\ stats.frames = 0 /\ stats.seq_gaps = 0 /\ stats.seq_reorder = 0
  BY DEF LinkTypeOK, Accounted
<1>2. prev' = <<f.seq>> /\ stats' = [stats EXCEPT !.frames = @ + 1]
  BY DEF Account, IsReboot
<1>3. stats'.frames = 1 /\ stats'.seq_gaps = 0 /\ stats'.seq_reorder = 0
  BY <1>1, <1>2 DEF Stats
<1>4. prev' # <<>>
  BY <1>2
<1>5. f.n \in Nat /\ last' >= bootAt /\ prev' = <<(last' - bootAt) % SeqMod>>
  BY <1>2 DEF SinceBoot, Frames
<1>6. (last' - first') - (1 - 1) = 0
  BY <1>5
<1> QED
  BY <1>3, <1>4, <1>5, <1>6 DEF Accounted

\* A later one, less than half the sequence space after the last.
LEMMA CountNext ==
    ASSUME LinkTypeOK, Accounted, whole, prev # <<>>, NEW f \in Frames, SinceBoot(f),
           last < f.n, Plain(f), Account(f), last' = f.n, UNCHANGED <<first, bootAt>>
    PROVE  Accounted'
<1>1. /\ last \in Nat /\ first \in Nat /\ bootAt \in Nat /\ f.n \in Nat /\ stats \in Stats
      /\ stats.frames \in Nat /\ stats.seq_gaps \in Nat /\ stats.seq_reorder \in Nat
  BY DEF LinkTypeOK, Frames, Stats
<1>2. /\ last >= bootAt /\ prev = <<(last - bootAt) % SeqMod>>
      /\ stats.seq_gaps = (last - first) - (stats.frames - 1) /\ stats.seq_reorder = 0
  BY DEF Accounted
<1>3. f.n - last < Half /\ ~IsReboot(f)
  BY <1>1, <1>2 DEF Plain
<1>4. Half \in Nat /\ Half <= SeqMod
  BY WireAssumption DEF Half
<1> HIDE DEF Half
<1>5. Ahead(f) = f.n - last
  <2> DEFINE a == last - bootAt
             b == f.n - bootAt
  <2>1. a \in Nat /\ b \in Nat /\ a < b /\ b - a < SeqMod /\ b - a = f.n - last
    BY <1>1, <1>2, <1>3, <1>4, WireAssumption
  <2>2. f.seq = b % SeqMod /\ prev[1] = a % SeqMod
    BY <1>2 DEF SinceBoot
  <2> HIDE DEF a, b
  <2>3. ((b % SeqMod) + SeqMod - (a % SeqMod)) % SeqMod = b - a
    BY <2>1, WrappingDistance
  <2>4. Ahead(f) = (f.seq + SeqMod - prev[1]) % SeqMod
    BY DEF Ahead
  <2>5. @ = ((b % SeqMod) + SeqMod - (a % SeqMod)) % SeqMod
    BY <2>2
  <2> QED
    BY <2>1, <2>3, <2>4, <2>5
<1> HIDE DEF Ahead
<1>6. IsNewer(f)
  BY <1>1, <1>3, <1>4, <1>5 DEF IsNewer
<1>7. /\ prev' = <<f.seq>>
      /\ stats' = [stats EXCEPT !.frames = @ + 1, !.seq_gaps = @ + CountGap(f)]
  BY <1>3, <1>6 DEF Account
<1>8. CountGap(f) = f.n - last - 1
  BY <1>5 DEF CountGap
<1> HIDE DEF CountGap
<1>9. /\ stats'.frames = stats.frames + 1 /\ stats'.seq_gaps = stats.seq_gaps + CountGap(f)
      /\ stats'.seq_reorder = 0
  BY <1>1, <1>2, <1>7 DEF Stats
<1>10. stats'.seq_gaps = (last' - first') - (stats'.frames - 1)
  BY <1>1, <1>2, <1>8, <1>9
<1>11. prev' # <<>> /\ last' >= bootAt' /\ prev' = <<(last' - bootAt') % SeqMod>>
  BY <1>1, <1>2, <1>7 DEF SinceBoot
<1> QED
  BY <1>9, <1>10, <1>11 DEF Accounted

LEMMA AccountedInit == Init => Accounted
BY DEF Init, HostInit, NoStats, Accounted

LEMMA AccountedStep == NumberInv /\ Accounted /\ [Next]_vars => Accounted'
<1> SUFFICES ASSUME NumberInv, Accounted, [Next]_vars PROVE Accounted'
  OBVIOUS
<1>1. LinkTypeOK /\ LinkTypeOK'
  BY LinkTypeStep DEF NumberInv
<1>2. CASE HostRead
  <2> DEFINE k == Head(usb)
  <2>1. k \in Tokens /\ 1 \in 1..Len(Stream) /\ k = Stream[1]
    BY <1>1, <1>2, ReadsOldest
  <2>2. CASE Counted(k)
    <3>1. /\ IsFrame(k) /\ k \in Frames /\ ~dirty /\ Account(k) /\ bootAt' = bootAt
          /\ last' = k.n /\ first' = (IF prev = <<>> THEN k.n ELSE first)
      BY <1>2, <2>1, <2>2, TokenKinds DEF HostRead, Counted, Feed, FeedFrame, Frames, Types
    <3>2. whole' <=> whole /\ Plain(k)
      BY <1>2, <2>2 DEF HostRead
    <3>3. prev' # <<>>
      <4>1. PICK s \in 0..(SeqMod - 1) : prev' = <<s>>
        BY <1>1, <3>1, AccountTypes
      <4> QED
        BY <4>1
    <3>4. CASE ~whole'
      BY <3>3, <3>4 DEF Accounted
    <3>5. CASE whole' /\ prev = <<>>
      <4>1. SinceBoot(k)
        BY <2>1, <3>1, <3>2, <3>5 DEF NumberInv, FramesNumbered
      <4> QED
        BY <1>1, <3>1, <3>5, <4>1, CountFirst
    <3>6. CASE whole' /\ prev # <<>>
      <4>1. SinceBoot(k) /\ last < k.n
        BY <2>1, <3>1, <3>2, <3>6 DEF NumberInv, FramesNumbered, AfterLast
      <4> QED
        BY <1>1, <3>1, <3>2, <3>6, <4>1, CountNext
    <3> QED
      BY <3>4, <3>5, <3>6
  <2>3. CASE ~Counted(k)
    <3>1. /\ prev' = prev /\ stats'.frames = stats.frames
          /\ stats'.seq_gaps = stats.seq_gaps /\ stats'.seq_reorder = stats.seq_reorder
      BY <1>1, <1>2, <2>1, <2>3, UncountedKeepsPrev DEF HostRead
    <3>2. UNCHANGED <<first, last, whole, bootAt>>
      BY <1>2, <2>3 DEF HostRead
    <3> QED
      BY <3>1, <3>2 DEF Accounted
  <2> QED
    BY <2>2, <2>3
<1>3. CASE HostStart
  BY <1>3 DEF HostStart, NoStats, Accounted
<1>4. CASE Reset
  BY <1>4 DEF Reset, hostVars, Accounted
<1>5. CASE DeviceStep \/ HostExit \/ UNCHANGED vars
  BY <1>5 DEF DeviceStep, HostExit, vars, hostVars, envVars, Accounted
<1> QED
  BY <1>2, <1>3, <1>4, <1>5 DEF Next

\* seq_gaps is the number of frames lost between the first and the last one counted.
THEOREM LinkGaps == Spec => []GapsAreLosses
<1>1. Accounted => GapsAreLosses
  BY DEF Accounted, GapsAreLosses
<1> QED
  BY NumberInit, NumberStep, AccountedInit, AccountedStep, <1>1, PTL DEF Spec
-----------------------------------------------------------------------------
(* What the host rejects *)

\* Text on the port: each of them still to be glued to what follows it.
Texts == {i \in 1..Len(usb) : usb[i] = Text}

\* Only the oldest token is cut by a host that stopped.
CutIsOldest == \A i \in 1..Len(usb) : usb[i] \in {FrameTail, Delimiter} => i = 1

\* The chunks the decoder is bound to reject: the one it holds text of, and the rest of
\* a frame an earlier host took the beginning of.
OpenChunk == IF dirty THEN 1 ELSE 0
CutFrame == IF \E i \in 1..Len(usb) : i = 1 /\ usb[i] = FrameTail THEN 1 ELSE 0

RejectInv ==
    /\ CutIsOldest
    /\ Cardinality(Texts) <= resets
    /\ stats.rejected + OpenChunk + CutFrame + Cardinality(Texts) <= 1 + resets

LEMMA TextsFinite == LinkTypeOK => IsFiniteSet(Texts) /\ Cardinality(Texts) \in Nat
<1> SUFFICES ASSUME LinkTypeOK PROVE IsFiniteSet(Texts) /\ Cardinality(Texts) \in Nat
  OBVIOUS
<1>0. Len(usb) \in Int /\ 1 \in Int
  <2>1. Len(usb) \in Nat
    BY StreamAt, Zenon DEF Located
  <2> QED
    BY <2>1
<1>1. IsFiniteSet(1..Len(usb))
  BY <1>0, FS_Interval, Zenon
<1>2. Texts \in SUBSET (1..Len(usb))
  BY DEF Texts
<1> QED
  BY <1>1, <1>2, FS_Subset, FS_CardinalityType

\* Taking the oldest token off the port moves the text left by one.
LEMMA FewerTexts ==
    ASSUME LinkTypeOK, NEW d \in {0, 1}, NEW U \in SUBSET Texts,
           \A i \in Texts' : i + d \in U
    PROVE  Cardinality(Texts') <= Cardinality(U)
<1> DEFINE f == [i \in Texts' |-> i + d]
<1>1. IsFiniteSet(U)
  BY TextsFinite, FS_Subset
<1>2. Texts' \subseteq Nat
  BY DEF Texts
<1> DEFINE T == Texts'
<1>3. f \in [T -> U] /\ \A a, b \in T : f[a] = f[b] => a = b
  BY <1>2
<1>4. f \in Injection(T, U)
  BY <1>3, Fun_IsInj
<1> HIDE DEF f, T
<1>5. Cardinality(T) <= Cardinality(U)
  BY <1>1, <1>4, FS_Injection
<1> QED
  BY <1>5 DEF T

\* One token fed: a reject takes its chunk from what is owed.
LEMMA FeedOwes ==
    ASSUME LinkTypeOK, NEW k \in Tokens, Feed(k)
    PROVE  /\ stats'.rejected \in Nat /\ stats.rejected \in Nat
           /\ stats'.rejected + OpenChunk' <=
                stats.rejected + OpenChunk + (IF k = FrameTail THEN 1 ELSE 0)
                               + (IF k = Text THEN 1 ELSE 0)
<1>1. stats \in Stats /\ stats' \in Stats /\ dirty \in BOOLEAN
  BY FeedTypes DEF LinkTypeOK
<1>2. stats.rejected \in Nat /\ stats'.rejected \in Nat
  BY <1>1 DEF Stats
<1>3. Reject => stats'.rejected = stats.rejected + 1
  BY <1>1 DEF Reject, Stats
<1>4. CASE k = Text
  <2>1. dirty' = TRUE /\ stats' = stats
    BY <1>4 DEF Feed, FeedText, Text, Token
  <2> QED
    BY <1>2, <1>4, <2>1, TokenKinds DEF OpenChunk
<1>5. CASE k = FrameTail
  <2>1. dirty' = FALSE /\ Reject
    BY <1>5 DEF Feed, FeedTail, FrameTail, Token
  <2> QED
    BY <1>2, <1>3, <1>5, <2>1, TokenKinds DEF OpenChunk
<1>6. CASE k = Delimiter \/ k \in Frames
  <2>1. dirty' = FALSE /\ (dirty => Reject)
    <3>1. CASE k = Delimiter
      BY <3>1 DEF Feed, FeedDelimiter, Delimiter, Token
    <3>2. CASE k \in Frames
      BY <3>2 DEF Feed, FeedFrame, Frames, Types
    <3> QED
      BY <1>6, <3>1, <3>2
  <2>2. k # Text /\ k # FrameTail
    BY <1>6, TokenKinds
  <2>3. CASE dirty
    BY <1>2, <1>3, <2>1, <2>2, <2>3 DEF OpenChunk
  <2>4. CASE ~dirty
    <3>1. stats'.rejected = stats.rejected
      <4>1. CASE k = Delimiter
        BY <2>4, <4>1 DEF Feed, FeedDelimiter, Delimiter, Token
      <4>2. CASE k \in Frames
        <5>1. Account(k)
          BY <2>4, <4>2 DEF Feed, FeedFrame, Frames, Types
        <5> QED
          BY <1>1, <5>1 DEF Account, Stats
      <4> QED
        BY <1>6, <4>1, <4>2
    <3> QED
      BY <1>2, <2>1, <2>2, <2>4, <3>1 DEF OpenChunk
  <2> QED
    BY <1>1, <2>3, <2>4
<1> QED
  BY <1>4, <1>5, <1>6 DEF Tokens

LEMMA RejectInit == Init => RejectInv
<1> SUFFICES ASSUME Init PROVE RejectInv
  OBVIOUS
<1>1. Len(usb) = 0
  BY DEF Init, WireInit
<1>2. Texts = {} /\ CutIsOldest /\ CutFrame = 0
  BY <1>1 DEF Texts, CutIsOldest, CutFrame
<1>3. stats.rejected = 0 /\ OpenChunk = 0 /\ resets = 0
  BY DEF Init, HostInit, NoStats, OpenChunk
<1> QED
  BY <1>2, <1>3, FS_EmptySet DEF RejectInv

\* The terms of the sum are numbers.
OwedNumbers ==
    /\ stats.rejected \in Nat /\ resets \in Nat
    /\ OpenChunk \in {0, 1} /\ CutFrame \in {0, 1} /\ Cardinality(Texts) \in Nat

LEMMA OwedTyped == LinkTypeOK => OwedNumbers
<1> SUFFICES ASSUME LinkTypeOK PROVE OwedNumbers
  OBVIOUS
<1>1. stats.rejected \in Nat /\ resets \in Nat
  BY DEF LinkTypeOK, Stats
<1>2. OpenChunk \in {0, 1} /\ CutFrame \in {0, 1}
  BY DEF OpenChunk, CutFrame
<1> QED
  BY <1>1, <1>2, TextsFinite DEF OwedNumbers

LEMMA RejectDevice ==
    ASSUME LinkTypeOK, LinkTypeOK', RejectInv, DeviceStep
    PROVE  RejectInv'
<1>1. usb \in Seq(Tokens) /\ Len(usb) \in Nat
  BY StreamAt DEF Located, LinkTypeOK
<1>2. UNCHANGED <<dirty, stats, resets>> /\ OpenChunk' = OpenChunk
  BY DEF DeviceStep, hostVars, envVars, OpenChunk
<1>3. \A i \in 1..Len(usb') : ~IsFrame(usb'[i]) => i \in 1..Len(usb) /\ usb'[i] = usb[i]
  <2>1. CASE TxWrite
    <3>1. Head(writing) \in Frames /\ Head(writing) \in Tokens
      BY <2>1, HeadTailProperties DEF TxWrite, LinkTypeOK, DeviceTypeOK, Tokens
    <3>2. /\ Len(usb') = Len(usb) + 1
          /\ \A i \in 1..Len(usb) : usb'[i] = usb[i]
          /\ usb'[Len(usb) + 1] = Head(writing)
      BY <1>1, <2>1, <3>1, AppendProperties DEF TxWrite
    <3>3. IsFrame(Head(writing))
      BY <3>1, TokenKinds
    <3> QED
      BY <1>1, <3>2, <3>3
  <2>2. CASE usb' = usb
    BY <2>2
  <2> QED
    BY <2>1, <2>2 DEF DeviceStep, Device, Send, Enter, Store, Enqueue, TxReceive
<1>4. CutIsOldest'
  BY <1>3, TokenKinds DEF RejectInv, CutIsOldest
<1>5. \A i \in Texts' : i + 0 \in Texts
  BY <1>3, TokenKinds DEF Texts
<1>6. Cardinality(Texts') <= Cardinality(Texts)
  BY <1>5, FewerTexts
<1>7. CutFrame' <= CutFrame
  BY <1>3, TokenKinds DEF CutFrame
<1>8. OwedNumbers /\ OwedNumbers'
  BY OwedTyped, PTL
<1> QED
  BY <1>2, <1>4, <1>6, <1>7, <1>8 DEF RejectInv, OwedNumbers

LEMMA RejectRead ==
    ASSUME LinkTypeOK, LinkTypeOK', RejectInv, HostRead
    PROVE  RejectInv'
<1> DEFINE k == Head(usb)
<1>1. usb \in Seq(Tokens) /\ usb # <<>> /\ usb' = Tail(usb) /\ resets' = resets /\ Feed(k)
  BY DEF LinkTypeOK, HostRead
<1>2. /\ k \in Tokens /\ k = usb[1] /\ Len(usb) \in Nat \ {0} /\ Len(usb') = Len(usb) - 1
      /\ \A i \in 1..Len(usb') : usb'[i] = usb[i + 1]
  BY <1>1, HeadTailProperties, EmptySeq
<1>3. \A i \in 1..Len(usb') : i + 1 \in 1..Len(usb) /\ i + 1 # 1
  BY <1>2
<1>4. \A i \in 1..Len(usb') : usb'[i] \notin {FrameTail, Delimiter}
  BY <1>2, <1>3 DEF RejectInv, CutIsOldest
<1>5. CutIsOldest' /\ CutFrame' = 0
  BY <1>4 DEF CutIsOldest, CutFrame
<1>6. CutFrame = IF k = FrameTail THEN 1 ELSE 0
  BY <1>2 DEF CutFrame
<1>7. Cardinality(Texts') + (IF k = Text THEN 1 ELSE 0) <= Cardinality(Texts)
  <2> DEFINE U == Texts \ {1}
  <2>1. \A i \in Texts' : i + 1 \in U
    BY <1>2, <1>3 DEF Texts
  <2>2. Cardinality(Texts') <= Cardinality(U)
    BY <2>1, FewerTexts
  <2>3. Cardinality(U) = IF 1 \in Texts THEN Cardinality(Texts) - 1 ELSE Cardinality(Texts)
    BY TextsFinite, FS_RemoveElement
  <2>4. 1 \in Texts <=> k = Text
    BY <1>2 DEF Texts
  <2>5. Cardinality(Texts) \in Nat /\ (Cardinality(Texts) \in Nat)'
    BY TextsFinite, PTL
  <2> HIDE DEF U
  <2> QED
    BY <2>2, <2>3, <2>4, <2>5
<1>8. stats'.rejected + OpenChunk' <=
        stats.rejected + OpenChunk + (IF k = FrameTail THEN 1 ELSE 0)
                       + (IF k = Text THEN 1 ELSE 0)
  BY <1>1, <1>2, FeedOwes
<1>9. OwedNumbers /\ OwedNumbers'
  BY OwedTyped, PTL
<1>10. /\ Cardinality(Texts) <= resets
       /\ stats.rejected + OpenChunk + CutFrame + Cardinality(Texts) <= 1 + resets
  BY DEF RejectInv
<1> HIDE DEF k
<1>11. Cardinality(Texts') <= resets'
  BY <1>1, <1>7, <1>9, <1>10, SMTT(30) DEF OwedNumbers
<1>12. stats'.rejected + OpenChunk' + CutFrame' + Cardinality(Texts') <= 1 + resets'
  <2>1. resets' = resets /\ CutFrame' = 0
    BY <1>1, <1>5
  <2> QED
    BY <2>1, <1>6, <1>7, <1>8, <1>9, <1>10 DEF OwedNumbers
<1> QED
  BY <1>5, <1>11, <1>12 DEF RejectInv

LEMMA RejectStart ==
    ASSUME LinkTypeOK, LinkTypeOK', RejectInv, HostStart
    PROVE  RejectInv'
<1>1. stats'.rejected = 0 /\ dirty' = FALSE /\ OpenChunk' = 0 /\ resets' = resets
  BY DEF HostStart, NoStats, OpenChunk
<1>2. usb \in Seq(Tokens) /\ Len(usb) \in Nat
  BY StreamAt DEF Located, LinkTypeOK
<1>3. CutIsOldest' /\ \E d \in {0, 1} : \A i \in Texts' : i + d \in Texts
  <2>1. CASE usb' = usb
    BY <2>1 DEF RejectInv, CutIsOldest, Texts
  <2>2. CASE usb # <<>> /\ usb' = Tail(usb)
    <3>1. Len(usb') = Len(usb) - 1 /\ \A i \in 1..Len(usb') : usb'[i] = usb[i + 1]
      BY <1>2, <2>2, HeadTailProperties
    <3>2. \A i \in 1..Len(usb') : i + 1 \in 1..Len(usb) /\ i + 1 # 1
      BY <1>2, <3>1
    <3>3. CutIsOldest'
      BY <3>1, <3>2 DEF RejectInv, CutIsOldest
    <3>4. \A i \in Texts' : i + 1 \in Texts
      BY <3>1, <3>2 DEF Texts
    <3> QED
      BY <3>3, <3>4
  <2>3. CASE usb # <<>> /\ \E k \in {FrameTail, Delimiter} : usb' = <<k>> \o Tail(usb)
    <3>1. PICK k \in {FrameTail, Delimiter} : usb' = <<k>> \o Tail(usb)
      BY <2>3
    <3>2. /\ Len(usb') = Len(usb) /\ usb'[1] = k
          /\ \A i \in 1..Len(usb') : i # 1 => usb'[i] = usb[i]
      BY <1>2, <2>3, <3>1, CutSheds DEF UsbSheds
    <3>3. CutIsOldest'
      BY <3>2 DEF RejectInv, CutIsOldest
    <3>4. k # Text
      BY TokenKinds
    <3>5. \A i \in Texts' : i + 0 \in Texts
      BY <3>2, <3>4 DEF Texts
    <3> QED
      BY <3>3, <3>5
  <2> QED
    BY <2>1, <2>2, <2>3, HostStartUsb
<1>4. Cardinality(Texts') <= Cardinality(Texts)
  BY <1>3, FewerTexts
<1>5. OwedNumbers /\ OwedNumbers'
  BY OwedTyped, PTL
<1> QED
  BY <1>1, <1>3, <1>4, <1>5 DEF RejectInv, OwedNumbers

LEMMA RejectReset ==
    ASSUME LinkTypeOK, LinkTypeOK', RejectInv, Reset
    PROVE  RejectInv'
<1>1. UNCHANGED <<dirty, stats>> /\ OpenChunk' = OpenChunk /\ resets' = resets + 1
  BY DEF Reset, hostVars, OpenChunk
<1>2. PICK k \in 0..Len(usb) :
          /\ usb' \in Seq(Tokens)
          /\ Len(usb') = k \/ (Len(usb') = k + 1 /\ usb'[k + 1] = Text)
          /\ \A i \in 1..k : usb'[i] = usb[i]
  BY ResetUsb
<1>3. k \in Nat /\ Len(usb) \in Nat /\ Len(usb') \in Nat /\ k <= Len(usb)
  BY StreamAt, <1>2 DEF Located
<1>4. \A i \in 1..Len(usb') :
          \/ i \in 1..Len(usb) /\ usb'[i] = usb[i]
          \/ i = k + 1 /\ usb'[i] = Text
  BY <1>2, <1>3
<1>5. CutIsOldest' /\ CutFrame' <= CutFrame
  BY <1>4, TokenKinds DEF RejectInv, CutIsOldest, CutFrame
<1>6. Cardinality(Texts') <= Cardinality(Texts) + 1
  <2> DEFINE U == Texts \cup {k + 1}
             T == Texts'
  <2>1. T \subseteq U
    BY <1>4 DEF Texts
  <2>2. /\ IsFiniteSet(U)
        /\ Cardinality(U) = IF k + 1 \in Texts THEN Cardinality(Texts) ELSE Cardinality(Texts) + 1
    BY TextsFinite, FS_AddElement
  <2> HIDE DEF U, T
  <2>3. Cardinality(T) <= Cardinality(U)
    BY <2>1, <2>2, FS_Subset
  <2>4. Cardinality(Texts) \in Nat /\ Cardinality(T) \in Nat
    BY <2>1, <2>2, TextsFinite, FS_Subset, FS_CardinalityType
  <2> QED
    BY <2>2, <2>3, <2>4 DEF T
<1>7. OwedNumbers /\ OwedNumbers'
  BY OwedTyped, PTL
<1>8. /\ Cardinality(Texts) <= resets
      /\ stats.rejected + OpenChunk + CutFrame + Cardinality(Texts) <= 1 + resets
  BY DEF RejectInv
<1>9. Cardinality(Texts') <= resets'
  BY <1>1, <1>6, <1>7, <1>8 DEF OwedNumbers
<1>10. stats'.rejected + OpenChunk' + CutFrame' + Cardinality(Texts') <= 1 + resets'
  <2>1. /\ stats'.rejected = stats.rejected /\ OpenChunk' = OpenChunk
        /\ CutFrame' <= CutFrame /\ resets' = resets + 1
    BY <1>1, <1>5
  <2> QED
    BY <2>1, <1>6, <1>7, <1>8, SMTT(30) DEF OwedNumbers
<1> QED
  BY <1>5, <1>9, <1>10 DEF RejectInv

LEMMA RejectStep == LinkTypeOK /\ RejectInv /\ [Next]_vars => RejectInv'
<1> SUFFICES ASSUME LinkTypeOK, RejectInv, [Next]_vars PROVE RejectInv'
  OBVIOUS
<1>1. LinkTypeOK'
  BY LinkTypeStep
<1>2. CASE HostExit \/ UNCHANGED vars
  <2>1. UNCHANGED <<usb, dirty, stats, resets>>
    BY <1>2 DEF HostExit, vars, wireVars, hostVars, envVars
  <2>2. Texts' = Texts /\ OpenChunk' = OpenChunk /\ CutFrame' = CutFrame
    BY <2>1 DEF Texts, OpenChunk, CutFrame
  <2> QED
    BY <2>1, <2>2 DEF RejectInv, CutIsOldest
<1> QED
  BY <1>1, <1>2, RejectDevice, RejectRead, RejectStart, RejectReset DEF Next

\* The decoder resynchronises at the next delimiter: joining the stream anywhere and
\* each reset cost at most one rejected chunk.
THEOREM LinkRejects == Spec => []OneRejectPerBreak
<1>1. LinkTypeOK /\ RejectInv => OneRejectPerBreak
  BY OwedTyped DEF RejectInv, OneRejectPerBreak, OwedNumbers
<1> QED
  BY LinkTypeInit, LinkTypeStep, RejectInit, RejectStep, <1>1, PTL DEF Spec
=============================================================================
