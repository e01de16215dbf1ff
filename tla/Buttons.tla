---------------------------------- MODULE Buttons ----------------------------------
(***************************************************************************)
(* button_task (firmware/src/buttons.rs): on each tick it polls button A   *)
(* and then button B and offers at most one event to UI_EVT; a short press *)
(* of B also offers a preset to RADIO_CMD.  The queues and what becomes of *)
(* an offer are in Radio and Ui.                                           *)
(*                                                                         *)
(* Time passes in periods of the ticker.  A stalled executor leaves        *)
(* periods behind, and the ticker then makes up for each at once, with     *)
(* polls at the same instant.  A pin can change between any two polls.     *)
(*                                                                         *)
(* AllPolledLazily is a wrong variant of the definition after it.          *)
(***************************************************************************)
EXTENDS Debounce, UiEvents

CONSTANT MaxBehind   \* bound: periods that have expired and not been polled for

ASSUME ButtonsAssumption == MaxBehind \in Nat \ {0}

VARIABLES
    buttons,   \* the two debouncers
    behind,    \* periods expired and not polled for: more than 1 after a stall
    answers,   \* what each button answered in the last poll
    event,     \* the event the last poll offered to UI_EVT
    preset     \* whether the last poll offered a preset to RADIO_CMD

buttonVars == <<buttons, behind, answers, event, preset>>

Ids == {"A", "B"}

ButtonsInit ==
    /\ buttons = [b \in Ids |-> Released]
    /\ behind = 0
    /\ answers = [b \in Ids |-> "none"]
    /\ event = "none"
    /\ preset = FALSE

EventOf(b, press) ==
    CASE press = "none"             -> "none"
      [] b = "A" /\ press = "short" -> "NextTrack"
      [] b = "A" /\ press = "long"  -> "ToggleView"
      [] b = "B" /\ press = "short" -> "Redraw"
      [] b = "B" /\ press = "long"  -> "ClearTracks"

\* evt.or(..): an answer of A hides that of B.
Merged(ans) ==
    IF ans["A"] # "none" THEN EventOf("A", ans["A"]) ELSE EventOf("B", ans["B"])

AllPolledLazily(raw) ==
    [b \in Ids |-> IF b = "B" /\ Answer(buttons["A"], raw["A"]) # "none" THEN buttons[b]
                   ELSE Polled(buttons[b], raw[b])]
\* The argument of or is evaluated whatever A answered: B never misses a poll.
AllPolled(raw) == [b \in Ids |-> Polled(buttons[b], raw[b])]

Poll(raw) ==
    /\ behind > 0
    /\ behind' = behind - 1
    /\ buttons' = AllPolled(raw)
    /\ answers' = [b \in Ids |-> Answer(buttons[b], raw[b])]
    /\ event' = Merged(answers')
    /\ preset' = (answers'["B"] = "short")

\* A period of the ticker expires.
Expire ==
    /\ behind < MaxBehind
    /\ behind' = behind + 1
    /\ UNCHANGED <<buttons, answers, event, preset>>

ButtonsNext == Expire \/ \E raw \in [Ids -> BOOLEAN] : Poll(raw)

ButtonsSpec == ButtonsInit /\ [][ButtonsNext]_buttonVars

-----------------------------------------------------------------------------
(* Properties *)

ButtonsTypeOK ==
    /\ buttons \in [Ids -> Buttons]
    /\ behind \in 0..MaxBehind
    /\ answers \in [Ids -> Presses]
    /\ event \in UiEvts \cup {"none"}
    /\ preset \in BOOLEAN

\* DESIGN.md 8.7: a long press of B clears the track table.  It cannot when A
\* answers in the same poll: B's event is not offered, then or later.
LongPressClears == [][answers'["B"] = "long" => event' = "ClearTracks"]_buttonVars
=============================================================================
