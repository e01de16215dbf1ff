-------------------------------- MODULE MCButtons --------------------------------
(***************************************************************************)
(* Both buttons.  Of one of them the history of its contact is kept up to  *)
(* a length that holds two presses with bounces, and its answers are       *)
(* compared with a definition over the whole history.  The other button    *)
(* does what it likes.                                                     *)
(***************************************************************************)
EXTENDS Buttons, Sequences

CONSTANT MaxPolls    \* bound: polls in a behaviour

VARIABLES
    watched,   \* history: the button whose contact is followed
    recent,    \* history: its last two samples
    contact,   \* history: whether it was closed, after each poll
    lowFor     \* history: time since the first sample of its press, up to LongTime

histVars == <<watched, recent, contact, lowFor>>

\* The least time between the first sample of a press and its long answer.
LongTime == LongPolls + 1

Init ==
    /\ ButtonsInit
    /\ watched \in Ids
    /\ recent = <<FALSE, FALSE>>
    /\ contact = <<FALSE>>
    /\ lowFor = 0

IsClosed == contact[Len(contact)]

\* Three equal samples set the contact, anything else leaves it.
NowClosed(raw) == IF recent = <<raw, raw>> THEN raw ELSE IsClosed

PressBegins(raw) == raw /\ ~recent[2] /\ ~IsClosed

PollBoth(raw) ==
    /\ Len(contact) <= MaxPolls
    /\ Poll(raw)
    /\ recent' = <<recent[2], raw[watched]>>
    /\ contact' = Append(contact, NowClosed(raw[watched]))
    /\ lowFor' = IF PressBegins(raw[watched]) THEN 0 ELSE lowFor
    /\ UNCHANGED watched

PeriodEnds ==
    /\ Expire
    /\ lowFor' = IF lowFor < LongTime THEN lowFor + 1 ELSE lowFor
    /\ UNCHANGED <<watched, recent, contact>>

\* The bound, not the task, ends a behaviour.
Done == Len(contact) > MaxPolls /\ behind = MaxBehind /\ UNCHANGED <<buttonVars, histVars>>

Next == PeriodEnds \/ (\E raw \in [Ids -> BOOLEAN] : PollBoth(raw)) \/ Done

Spec == Init /\ [][Next]_<<buttonVars, histVars>>

-----------------------------------------------------------------------------
(* Properties *)

\* The contact closed at poll r and has been closed ever since, up to poll i.
ClosedSince(r, i) == ~contact[r - 1] /\ \A j \in r..i : contact[j]

PromisedAnswer(i) ==
    CASE \E r \in 2..i : ClosedSince(r, i) /\ i = r + LongPolls - 1 -> "long"
      [] ~contact[i] /\ \E r \in 2..(i - 1) : ClosedSince(r, i - 1) /\ i - r < LongPolls
            -> "short"
      [] OTHER -> "none"

\* Each button answers what DESIGN.md 8.7 promises, whatever the other does in the
\* same polls: a change counts after three equal samples; a press released before
\* the long-press time is short; one held that long is long, once, and its release
\* is nothing.
AnswersAsPromised == answers[watched] = PromisedAnswer(Len(contact))

\* However the ticker catches up after a stall, a press counts as long only after
\* the long-press time, counted from its first sample, less the stall.
LongTakesTime ==
    [][answers'[watched] = "long" /\ contact' # contact
          => lowFor' + (MaxBehind - 1) >= LongTime]_<<buttonVars, histVars>>
=============================================================================
