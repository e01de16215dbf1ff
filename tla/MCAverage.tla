------------------------------- MODULE MCAverage -------------------------------
(***************************************************************************)
(* The average of one track over every i8 signal strength and every value  *)
(* an average can take.  signal is what the next frames are received with: *)
(* it changes, and from some point on it may stay the same.                *)
(***************************************************************************)
EXTENDS Average

CONSTANT Signals    \* the signal strengths received, within i8

ASSUME SignalsAssumption == Signals \subseteq I8

\* The ends of the range, a near and a far transmitter, and the sign change.
SomeSignals == {-128, -90, -41, 0, 127}

VARIABLES avg, signal

averageVars == <<avg, signal>>

Init == signal \in Signals /\ avg = StartAverage(signal)

\* A frame of the same track updates the average.
Frame == avg' = NextAverage(avg, signal) /\ UNCHANGED signal

\* The transmitter moves.
Move == signal' \in Signals \ {signal} /\ UNCHANGED avg

Next == Frame \/ Move

Spec == Init /\ [][Next]_averageVars /\ WF_averageVars(Frame)

\* The i32 intermediate fits i16 and the average never leaves the range of the
\* signals an i8 can carry, so the cast loses nothing.
AverageInRange == avg \in Averages

\* Each frame moves the average toward the signal and never past it, by at most
\* an eighth of the distance.
NoOvershoot ==
    [][ \/ avg <= avg' /\ avg' <= 16 * signal /\ 8 * (avg' - avg) <= 16 * signal - avg
        \/ 16 * signal <= avg' /\ avg' <= avg /\ 8 * (avg - avg') <= avg - 16 * signal
      ]_avg

Settled == avg - 16 * signal \in -7..7

\* A signal that stays the same is reached to within half a dB, the part the
\* truncated division cannot see, whichever side it is approached from.
Settles == \A r \in Signals : <>[](signal = r) => <>[]Settled
=============================================================================
