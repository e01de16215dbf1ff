-------------------------------- MODULE Average --------------------------------
(***************************************************************************)
(* The RSSI average of a track (firmware/src/tracks.rs): an exponentially  *)
(* weighted mean in 1/16 dB, computed in i32, divided by 8 with Rust's     *)
(* truncation toward zero, and cast back to i16.                           *)
(* FloorDiv8, NextAverageSum and NextAverageSlow are wrong variants of the *)
(* definition after each.                                                  *)
(***************************************************************************)
EXTENDS Integers

I8 == -128..127

\* `as i16`: the low 16 bits, in two's complement.
AsI16(x) == ((x + 32768) % 65536) - 32768

FloorDiv8(x) == x \div 8
\* i32 division by 8 truncates toward zero; \div rounds down.
Div8(x) == IF x >= 0 THEN x \div 8 ELSE -((-x) \div 8)

StartAverage(rssi) == rssi * 16

NextAverageSum(avg, rssi) == AsI16(avg + Div8(rssi * 16))
NextAverageSlow(avg, rssi) == AsI16(avg + Div8((rssi * 16 - avg) \div 2))
NextAverage(avg, rssi) == AsI16(avg + Div8(rssi * 16 - avg))

\* Averages a track can have: those of a constant signal bound all others.
Averages == (-128 * 16)..(127 * 16)
=============================================================================
