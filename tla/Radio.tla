---------------------------------- MODULE Radio ----------------------------------
(***************************************************************************)
(* radio_task (firmware/src/radio.rs): it tunes the receiver on commands   *)
(* from the buttons and, in hop mode, on a 500 ms ticker.  The command and *)
(* the ticker are polled in that order by one select; each pass runs in    *)
(* the executor without an await.                                          *)
(*                                                                         *)
(* A command is a channel for SetFixed and 0 for SetHop.  Time is what is  *)
(* left until the ticker's next expiry, negative when radio_task is late:  *)
(* the ticker keeps its schedule, so a late tick is followed early by the  *)
(* next.                                                                   *)
(*                                                                         *)
(* CmdFitsFull, ResetTickerNot, NextHopShort and HoppingAlways are wrong   *)
(* variants of the definition after each.                                  *)
(***************************************************************************)
EXTENDS Integers, Sequences

CONSTANTS
    CmdCap,       \* capacity of RADIO_CMD (4)
    Period,       \* the ticker's period (500 ms), in units of time
    MaxLate,      \* bound: how late radio_task is polled
    MaxErrors     \* bound: failures of set_channel

ASSUME RadioAssumption ==
    /\ CmdCap \in Nat \ {0}
    /\ Period \in Nat \ {0}
    /\ MaxLate \in Nat
    /\ MaxErrors \in Nat

VARIABLES
    RADIO_CMD,         \* commands not yet taken
    CURRENT_CHANNEL,   \* the channel of the last successful set_channel
    HOP_MODE,
    hop,               \* index into HOP_SEQUENCE
    left,              \* time until the ticker expires; 0 or less: it has
    RADIO_ERRORS,      \* failures of set_channel
    since              \* history: time since SetHop was last applied, up to Period

radioVars == <<RADIO_CMD, CURRENT_CHANNEL, HOP_MODE, hop, left, RADIO_ERRORS, since>>

HOP_SEQUENCE == [i \in 0..2 |-> CASE i = 0 -> 1 [] i = 1 -> 6 [] i = 2 -> 11]
SetHop == 0
Presets == {1, 6, 11, SetHop}

RadioInit ==
    /\ RADIO_CMD = <<>>
    /\ CURRENT_CHANNEL = 6
    /\ HOP_MODE = FALSE
    /\ hop = 0
    /\ left = Period
    /\ RADIO_ERRORS = 0
    /\ since = Period

-----------------------------------------------------------------------------
(* The buttons' side *)

\* The cycle Fixed 6, Fixed 1, Fixed 11, Hop.
NextPreset(p) == CASE p = 6 -> 1 [] p = 1 -> 11 [] p = 11 -> SetHop [] OTHER -> 6

Preset == IF HOP_MODE THEN SetHop ELSE CURRENT_CHANNEL

CmdFitsFull == Len(RADIO_CMD) <= CmdCap
CmdFits == Len(RADIO_CMD) < CmdCap

\* A short press of B reads the state radio_task has reached, not what is still
\* queued.  A command that finds the queue full is dropped.
SendPreset ==
    RADIO_CMD' = IF CmdFits THEN Append(RADIO_CMD, NextPreset(Preset)) ELSE RADIO_CMD

Press ==
    /\ SendPreset
    /\ UNCHANGED <<CURRENT_CHANNEL, HOP_MODE, hop, left, RADIO_ERRORS, since>>

-----------------------------------------------------------------------------
(* radio_task *)

\* apply: on an error the receiver stays on its channel.
Tune(ch) ==
    \/ CURRENT_CHANNEL' = ch /\ UNCHANGED RADIO_ERRORS
    \/ /\ RADIO_ERRORS < MaxErrors
       /\ RADIO_ERRORS' = RADIO_ERRORS + 1
       /\ UNCHANGED CURRENT_CHANNEL

TakeCommand == RADIO_CMD # <<>> /\ RADIO_CMD' = Tail(RADIO_CMD)

TakeFixed ==
    /\ TakeCommand
    /\ Head(RADIO_CMD) \in 1..13
    /\ HOP_MODE' = FALSE
    /\ Tune(Head(RADIO_CMD))
    /\ UNCHANGED <<hop, left, since>>

ResetTickerNot == left' = left
ResetTicker == left' = Period

TakeHop ==
    /\ TakeCommand
    /\ Head(RADIO_CMD) = SetHop
    /\ HOP_MODE' = TRUE
    /\ hop' = 0
    /\ Tune(HOP_SEQUENCE[0])
    /\ ResetTicker
    /\ since' = 0

Expired == RADIO_CMD = <<>> /\ left <= 0

NextHopShort(h) == (h + 1) % 2
NextHop(h) == (h + 1) % 3

HoppingAlways == TRUE
Hopping == HOP_MODE

TakeTick ==
    /\ Expired
    /\ left' = left + Period
    /\ \/ /\ Hopping
          /\ hop' = NextHop(hop)
          /\ Tune(HOP_SEQUENCE[NextHop(hop)])
       \/ /\ ~Hopping
          /\ UNCHANGED <<hop, CURRENT_CHANNEL, RADIO_ERRORS>>
    /\ UNCHANGED <<RADIO_CMD, HOP_MODE, since>>

RadioTask == TakeFixed \/ TakeHop \/ TakeTick

\* Time passes; radio_task is polled at most MaxLate late.
Pass ==
    /\ left > -MaxLate
    /\ left' = left - 1
    /\ since' = IF since < Period THEN since + 1 ELSE since
    /\ UNCHANGED <<RADIO_CMD, CURRENT_CHANNEL, HOP_MODE, hop, RADIO_ERRORS>>

RadioNext == Press \/ RadioTask \/ Pass

\* The executor polls radio_task when a command or the ticker has woken it, and
\* time passes.  Buttons need never be pressed.
RadioFairness ==
    WF_radioVars(TakeFixed \/ TakeHop) /\ WF_radioVars(TakeTick) /\ WF_radioVars(Pass)

RadioSpec == RadioInit /\ [][RadioNext]_radioVars /\ RadioFairness

-----------------------------------------------------------------------------
(* Properties *)

RadioTypeOK ==
    /\ RADIO_CMD \in Seq(Presets) /\ Len(RADIO_CMD) <= CmdCap
    /\ CURRENT_CHANNEL \in {1, 6, 11}
    /\ HOP_MODE \in BOOLEAN
    /\ hop \in 0..2
    /\ left \in Int /\ left <= Period
    /\ RADIO_ERRORS \in Nat
    /\ since \in 0..Period

\* Presses walk the preset cycle in order (DESIGN.md 6.2), one preset at a time:
\* neither presses queued faster than radio_task takes them, each decided on a
\* state that is out of date by then, nor ticks, left over from hop mode or not,
\* take the receiver anywhere else, as long as set_channel succeeds.
PresetsCycle ==
    [][RADIO_ERRORS' = 0 /\ Preset' # Preset => Preset' = NextPreset(Preset)]_radioVars

\* A hop sequence starts with a whole dwell on its first channel, however late
\* the ticker was and whatever tick was pending when SetHop came.
FirstDwell == [][hop = 0 /\ hop' = 1 => since = Period]_radioVars

\* While hop mode lasts every channel of the sequence is listened on again and
\* again, failures of set_channel notwithstanding, so a transmitter that stays
\* on one of them is heard.
HopCovers ==
    <>[]HOP_MODE => \A i \in DOMAIN HOP_SEQUENCE : []<>(CURRENT_CHANNEL = HOP_SEQUENCE[i])
=============================================================================
