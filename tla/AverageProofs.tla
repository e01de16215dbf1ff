------------------------------ MODULE AverageProofs ------------------------------
(* The average of one track, for any set of i8 signals. *)
EXTENDS MCAverage, AverageFacts

LEMMA AverageInit == Init => AverageInRange
BY SignalsAssumption, StartInRange DEF Init, AverageInRange

\* The type the steps need as well: the signal is one of Signals.
SignalOK == signal \in Signals

LEMMA AverageInductive ==
    AverageInRange /\ SignalOK /\ [Next]_averageVars => AverageInRange' /\ SignalOK'
BY SignalsAssumption, AverageStep
DEF Next, Frame, Move, averageVars, AverageInRange, SignalOK

\* rssi_avg_x16 stays in the range of the signals whatever is received, so the
\* `as i16` of tracks.rs:82 never truncates.
THEOREM AverageBounded == Spec => []AverageInRange
<1>1. Init => SignalOK
  BY DEF Init, SignalOK
<1> QED
  BY AverageInit, <1>1, AverageInductive, PTL DEF Spec

\* An average never overshoots the signal it follows.
THEOREM AverageFollows == Spec => NoOvershoot
<1> DEFINE Toward ==
        \/ avg <= avg' /\ avg' <= 16 * signal /\ 8 * (avg' - avg) <= 16 * signal - avg
        \/ 16 * signal <= avg' /\ avg' <= avg /\ 8 * (avg - avg') <= avg - 16 * signal
<1>1. AverageInRange /\ SignalOK /\ [Next]_averageVars => [Toward]_avg
  <2> SUFFICES ASSUME AverageInRange, SignalOK, Frame PROVE Toward
    BY DEF Next, Move, averageVars
  <2>1. avg \in Averages /\ signal \in I8 /\ avg' = NextAverage(avg, signal)
    BY SignalsAssumption DEF AverageInRange, SignalOK, Frame
  <2>2. avg <= 16 * signal \/ 16 * signal <= avg
    BY <2>1 DEF Averages, I8
  <2> QED
    BY <2>1, <2>2, AverageStep
<1>2. Init => SignalOK
  BY DEF Init, SignalOK
<1> QED
  BY AverageInit, <1>1, <1>2, AverageInductive, PTL DEF Spec, NoOvershoot
=============================================================================
