------------------------------ MODULE AverageFacts ------------------------------
(***************************************************************************)
(* What one step of the RSSI average does, for every average and signal.   *)
(***************************************************************************)
EXTENDS Average, TLAPS

\* Truncated division brings a number an eighth nearer to zero and never past it.
LEMMA Div8Bounds ==
    ASSUME NEW x \in Int
    PROVE  /\ Div8(x) \in Int
           /\ x >= 0 => 0 <= Div8(x) /\ 8 * Div8(x) <= x /\ x < 8 * Div8(x) + 8
           /\ x <= 0 => Div8(x) <= 0 /\ x <= 8 * Div8(x) /\ 8 * Div8(x) - 8 < x
BY DEF Div8

LEMMA AsI16Keeps ==
    ASSUME NEW x \in Int, -32768 <= x, x <= 32767
    PROVE  AsI16(x) = x
<1>1. \A y \in Int : 0 <= y /\ y <= 65535 => y % 65536 = y
  OBVIOUS
<1>2. (x + 32768) % 65536 = x + 32768
  BY <1>1
<1> QED
  BY <1>2 DEF AsI16

LEMMA StartInRange ==
    ASSUME NEW r \in I8
    PROVE  StartAverage(r) \in Averages
BY DEF StartAverage, I8, Averages

\* The average moves toward the signal by at most an eighth of the distance, and
\* what the cast to i16 is given fits, so an average stays an average.
LEMMA AverageStep ==
    ASSUME NEW a \in Averages, NEW r \in I8
    PROVE  /\ NextAverage(a, r) \in Averages
           /\ a <= 16 * r => /\ a <= NextAverage(a, r) /\ NextAverage(a, r) <= 16 * r
                             /\ 8 * (NextAverage(a, r) - a) <= 16 * r - a
           /\ 16 * r <= a => /\ 16 * r <= NextAverage(a, r) /\ NextAverage(a, r) <= a
                             /\ 8 * (a - NextAverage(a, r)) <= a - 16 * r
<1> DEFINE x == r * 16 - a
           b == a + Div8(x)
<1>1. x \in Int /\ a \in Int /\ r \in Int /\ x = 16 * r - a
  BY DEF Averages, I8
<1>2. /\ Div8(x) \in Int
      /\ x >= 0 => 0 <= Div8(x) /\ 8 * Div8(x) <= x
      /\ x <= 0 => Div8(x) <= 0 /\ x <= 8 * Div8(x)
  BY <1>1, Div8Bounds
<1>3. /\ b \in Averages
      /\ a <= 16 * r => a <= b /\ b <= 16 * r /\ 8 * (b - a) <= 16 * r - a
      /\ 16 * r <= a => 16 * r <= b /\ b <= a /\ 8 * (a - b) <= a - 16 * r
  <2> DEFINE d == Div8(x)
  <2>1. b = a + d /\ d \in Int
    BY <1>2
  <2>2. -2048 <= a /\ a <= 2032 /\ -2048 <= 16 * r /\ 16 * r <= 2032
    BY <1>1 DEF Averages, I8
  <2>3. /\ x >= 0 => 0 <= d /\ 8 * d <= x
        /\ x <= 0 => d <= 0 /\ x <= 8 * d
    BY <1>2
  <2> HIDE DEF x, d, b
  <2>4. -2048 <= b /\ b <= 2032 /\ b \in Int
    BY <1>1, <2>1, <2>2, <2>3
  <2>5. b \in Averages
    BY <2>4 DEF Averages
  <2>6. a <= 16 * r => a <= b /\ b <= 16 * r /\ 8 * (b - a) <= 16 * r - a
    BY <1>1, <2>1, <2>3
  <2>7. 16 * r <= a => 16 * r <= b /\ b <= a /\ 8 * (a - b) <= a - 16 * r
    BY <1>1, <2>1, <2>3
  <2> QED
    BY <2>5, <2>6, <2>7
<1>4. NextAverage(a, r) = AsI16(b)
  BY DEF NextAverage
<1>5. b \in Int /\ -32768 <= b /\ b <= 32767
  <2> HIDE DEF b
  <2> QED
    BY <1>3 DEF Averages
<1>6. NextAverage(a, r) = b
  <2> HIDE DEF b
  <2> QED
    BY <1>4, <1>5, AsI16Keeps
<1> HIDE DEF b
<1> QED
  BY <1>3, <1>6
=============================================================================
