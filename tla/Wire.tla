---------------------------------- MODULE Wire ----------------------------------
(***************************************************************************)
(* The device's end of the USB link (firmware/src/wire.rs): every producer *)
(* calls send, which takes the next sequence number and queues the frame   *)
(* inside one critical section, and tx_task writes the queue to the port.  *)
(* Producers run in several contexts: the executor (main and its tasks,    *)
(* cooperative) and esp-radio's preemptive driver thread, which logs.      *)
(*                                                                         *)
(* A frame is its type, its seq and, as a history variable, the ordinal n  *)
(* of the send that made it: seq wraps at SeqMod (2^32 in the code), n     *)
(* never does.  send is split where another context could interleave if    *)
(* the lock did not forbid it.  Encoding a frame never fails: every caller *)
(* cuts its pack or text to the size FrameBuf::encode accepts.             *)
(*                                                                         *)
(* NoWrap, NoLock, OfferOldest, OfferAndWait and PortWritableStuck are      *)
(* wrong variants of the definition that follows each: the properties must *)
(* tell them apart.                                                        *)
(***************************************************************************)
EXTENDS Naturals, Sequences

CONSTANTS
    Contexts,   \* threads of control that call send
    Executor,   \* the one main and the async tasks run in
    Nobody,     \* the critical section is free
    SeqMod,     \* values of the u32 sequence number
    TxCap,      \* capacity of TX_CH (16)
    UsbCap,     \* frames the port buffers before write_all stalls
    MaxSends    \* bound: sends in a behaviour

ASSUME WireAssumption ==
    /\ Executor \in Contexts
    /\ Nobody \notin Contexts
    /\ SeqMod \in Nat \ {0}
    /\ TxCap \in Nat \ {0}
    /\ UsbCap \in Nat \ {0}
    /\ MaxSends \in Nat

VARIABLES
    cs,       \* who holds the critical section
    pc,       \* how far each context is in send
    mine,     \* the frame each context is building
    next,     \* TX_LOCK's cell: the next sequence number
    TX_CH,    \* the transmit queue
    dropped,  \* the counters TX_DROPPED and LOG_DROPPED
    writing,  \* the frame tx_task is writing, if any
    usb,      \* frames written to the port and not yet read by the host
    boot,     \* how far main is in its two first sends
    sends     \* history: sends that took a sequence number

wireVars == <<cs, pc, mine, next, TX_CH, dropped, writing, usb, boot, sends>>

\* DATA stands for OBS and STATUS, which the link treats alike.
Types == {"HELLO", "DATA", "LOG"}
Counters == {"TX_DROPPED", "LOG_DROPPED"}
Frames == [type : Types, seq : 0..(SeqMod - 1), n : Nat]

\* FrameLogger passes LOG_DROPPED to send, every other caller TX_DROPPED.
CounterOf(type) == IF type = "LOG" THEN "LOG_DROPPED" ELSE "TX_DROPPED"

\* What a context may be sending.  main logs "radio up" and then sends the boot
\* HELLO before any task runs; the driver thread only logs.
Says(c) ==
    CASE c # Executor      -> {"LOG"}
      [] boot = "radio_up" -> {"LOG"}
      [] boot = "hello"    -> {"HELLO"}
      [] OTHER             -> Types

Sent(b) == IF b = "radio_up" THEN "hello" ELSE "run"

NoWrap(n) == n + 1
\* wrapping_add(1)
Wrap(n) == IF n = SeqMod - 1 THEN 0 ELSE n + 1

WireInit ==
    /\ cs = Nobody
    /\ pc = [c \in Contexts |-> "idle"]
    /\ mine = [c \in Contexts |-> [type |-> "LOG", seq |-> 0, n |-> 0]]
    /\ next = 0
    /\ TX_CH = <<>>
    /\ dropped = [k \in Counters |-> 0]
    /\ writing = <<>>
    /\ usb = <<>>
    /\ boot = "radio_up"
    /\ sends = 0

-----------------------------------------------------------------------------
(* send, step by step *)

NoLock(c) == TRUE
CanLock(c) == cs = Nobody

\* The frame is filled outside the lock; the lock is taken and next is read.
Enter(c) ==
    /\ pc[c] = "idle"
    /\ CanLock(c)
    /\ sends < MaxSends
    /\ \E t \in Says(c) :
           mine' = [mine EXCEPT ![c] = [type |-> t, seq |-> next, n |-> sends]]
    /\ cs' = c
    /\ pc' = [pc EXCEPT ![c] = "read"]
    /\ UNCHANGED <<next, TX_CH, dropped, writing, usb, boot, sends>>

Store(c) ==
    /\ pc[c] = "read"
    /\ next' = Wrap(mine[c].seq)
    /\ sends' = mine[c].n + 1
    /\ pc' = [pc EXCEPT ![c] = "stored"]
    /\ UNCHANGED <<cs, mine, TX_CH, dropped, writing, usb, boot>>

Count(f) == dropped' = [dropped EXCEPT ![CounterOf(f.type)] = @ + 1]

OfferOldest(f) ==
    /\ TX_CH' = Append(IF Len(TX_CH) = TxCap THEN Tail(TX_CH) ELSE TX_CH, f)
    /\ IF Len(TX_CH) = TxCap THEN Count(f) ELSE UNCHANGED dropped
OfferAndWait(f) ==
    Len(TX_CH) < TxCap /\ TX_CH' = Append(TX_CH, f) /\ UNCHANGED dropped

\* try_send: a full queue drops the newest frame and counts it.
Offer(f) ==
    \/ Len(TX_CH) < TxCap /\ TX_CH' = Append(TX_CH, f) /\ UNCHANGED dropped
    \/ Len(TX_CH) = TxCap /\ Count(f) /\ UNCHANGED TX_CH

Leave(c) == cs' = Nobody

Enqueue(c) ==
    /\ pc[c] = "stored"
    /\ Offer(mine[c])
    /\ Leave(c)
    /\ pc' = [pc EXCEPT ![c] = "idle"]
    /\ boot' = IF c = Executor THEN Sent(boot) ELSE boot
    /\ UNCHANGED <<mine, next, writing, usb, sends>>

-----------------------------------------------------------------------------
(* tx_task: runs in the executor, so never inside another task's send *)

TaskRuns == pc[Executor] = "idle" /\ boot = "run"

\* TX_CH.receive takes the channel's own critical section.
TxReceive ==
    /\ TaskRuns
    /\ cs = Nobody
    /\ writing = <<>>
    /\ TX_CH # <<>>
    /\ writing' = <<Head(TX_CH)>>
    /\ TX_CH' = Tail(TX_CH)
    /\ UNCHANGED <<cs, pc, mine, next, dropped, usb, boot, sends>>

PortWritableStuck == usb # <<>>
PortWritable == Len(usb) < UsbCap

\* write_all completes; with no host reading, the port fills and this waits.
TxWrite ==
    /\ TaskRuns
    /\ writing # <<>>
    /\ PortWritable
    /\ usb' = Append(usb, Head(writing))
    /\ writing' = <<>>
    /\ UNCHANGED <<cs, pc, mine, next, TX_CH, dropped, boot, sends>>

\* The environment: the host reads a frame off the port.
UsbRead ==
    /\ usb # <<>>
    /\ usb' = Tail(usb)
    /\ UNCHANGED <<cs, pc, mine, next, TX_CH, dropped, writing, boot, sends>>

Send(c) == Enter(c) \/ Store(c) \/ Enqueue(c)

WireNext == (\E c \in Contexts : Send(c)) \/ TxReceive \/ TxWrite \/ UsbRead

\* A context inside the critical section runs on to its end.
SendFairness == \A c \in Contexts : WF_wireVars(Store(c)) /\ WF_wireVars(Enqueue(c))

WireSpec == WireInit /\ [][WireNext]_wireVars /\ SendFairness

-----------------------------------------------------------------------------
(* Properties *)

WireTypeOK ==
    /\ cs \in Contexts \cup {Nobody}
    /\ pc \in [Contexts -> {"idle", "read", "stored"}]
    /\ mine \in [Contexts -> Frames]
    /\ next \in 0..(SeqMod - 1)
    /\ TX_CH \in Seq(Frames) /\ Len(TX_CH) <= TxCap
    /\ dropped \in [Counters -> Nat]
    /\ writing \in Seq(Frames) /\ Len(writing) <= 1
    /\ usb \in Seq(Frames) /\ Len(usb) <= UsbCap
    /\ boot \in {"radio_up", "hello", "run"}
    /\ sends \in Nat

\* Every frame on the device's side of the link, oldest first.
Stream == usb \o writing \o TX_CH

Ordered(s) == \A i, j \in 1..Len(s) : i < j => s[i].n < s[j].n

\* Frames from any context reach TX_CH and leave it in the order their sequence
\* numbers were taken (wire.rs:20, "so frames from any context reach TX_CH in
\* seq order"), and each carries the number of its send.
InSeqOrder ==
    /\ Ordered(Stream)
    /\ \A i \in 1..Len(Stream) : Stream[i].seq = Stream[i].n % SeqMod

\* The sends that have reached their end: one that has taken its number and not
\* yet offered its frame is still to come.
Ended == IF \E c \in Contexts : pc[c] = "stored" THEN sends - 1 ELSE sends

Link == INSTANCE LossyLink WITH
            offered <- Ended,
            lost    <- dropped["TX_DROPPED"] + dropped["LOG_DROPPED"],
            pipe    <- [i \in 1..Len(Stream) |-> Stream[i].n]

\* The locked, queued, two-context device behaves as the lossy link: a frame is
\* delivered once and in order, or counted as dropped, and a drop leaves its
\* number unused, the gap the host sees.
ImplementsLink == Link!LinkSpec

Pending(n) == \E i \in 1..Len(Stream) : Stream[i].n = n

\* tx_task is polled when it was woken, and its write completes when the port has
\* room.
TxFairness == WF_wireVars(TxReceive) /\ WF_wireVars(TxWrite)

\* A frame that made it into TX_CH does not stay on the device for ever if the port
\* is read again and again.
EventuallyRead ==
    []<>(usb = <<>>) =>
        \A n \in 0..(MaxSends - 1) : Pending(n) /\ boot = "run" ~> ~Pending(n)

\* A started send ends whether or not a host reads the port: nothing blocks a
\* producer (DESIGN.md 3.2).
SendEnds == \A c \in Contexts : pc[c] # "idle" ~> pc[c] = "idle"
=============================================================================
