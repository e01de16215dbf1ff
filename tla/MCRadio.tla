--------------------------------- MODULE MCRadio ---------------------------------
(* radio_task with a button that may be pressed at any time, a queue of three   *)
(* commands, and polls late by up to two periods of the ticker.                 *)
EXTENDS Radio
=============================================================================
