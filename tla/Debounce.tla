--------------------------------- MODULE Debounce ---------------------------------
(***************************************************************************)
(* One button (Button::poll in firmware/src/buttons.rs): every poll gives  *)
(* it a sample of its pin, and it answers with a short press, a long one   *)
(* or nothing.  held_ms is counted in polls.                               *)
(*                                                                         *)
(* EdgeEarly, SettledKeepingHeld and LongRepeating are wrong variants of   *)
(* the definition after each.                                              *)
(***************************************************************************)
EXTENDS Naturals

CONSTANTS
    LongPolls,   \* LONG_MS / POLL_MS (80)
    SameMax      \* where same saturates (255)

ASSUME DebounceAssumption == LongPolls \in Nat \ {0} /\ SameMax \in Nat /\ SameMax >= 3

Presses == {"none", "short", "long"}
Buttons == [pressed : BOOLEAN, candidate : BOOLEAN, same : 0..SameMax,
            held : 0..LongPolls, long_sent : BOOLEAN]

\* Button::default
Released == [pressed |-> FALSE, candidate |-> FALSE, same |-> 0, held |-> 0,
             long_sent |-> FALSE]

Sampled(b, raw) ==
    IF raw = b.candidate
    THEN [b EXCEPT !.same = IF @ < SameMax THEN @ + 1 ELSE @]
    ELSE [b EXCEPT !.candidate = raw, !.same = 1]

EdgeEarly(b) == b.same >= 2 /\ b.candidate # b.pressed
\* Three identical samples make an edge.
Edge(b) == b.same >= 3 /\ b.candidate # b.pressed

SettledKeepingHeld(b) ==
    IF Edge(b) THEN [b EXCEPT !.pressed = b.candidate, !.long_sent = FALSE] ELSE b
Settled(b) ==
    IF ~Edge(b) THEN b
    ELSE IF b.candidate THEN [b EXCEPT !.pressed = TRUE, !.held = 0, !.long_sent = FALSE]
    ELSE [b EXCEPT !.pressed = FALSE]

LongRepeating(b) == b.pressed
CountsHold(b) == b.pressed /\ ~b.long_sent

Held(b) ==
    IF ~CountsHold(b) THEN b
    ELSE [b EXCEPT !.held = @ + 1, !.long_sent = b.held + 1 >= LongPolls]

\* The button after a poll, and what the poll answers.
Polled(b, raw) == Held(Settled(Sampled(b, raw)))

Answer(b, raw) ==
    LET s == Settled(Sampled(b, raw))
        released == b.pressed /\ ~s.pressed
    IN  CASE released /\ ~s.long_sent                       -> "short"
          [] CountsHold(s) /\ s.held + 1 >= LongPolls       -> "long"
          [] OTHER                                          -> "none"
=============================================================================
