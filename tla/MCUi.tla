----------------------------------- MODULE MCUi -----------------------------------
(* ui_task on small instances, in which any snapshot can follow any other.  Three *)
(* rows of the list reach the band of the empty-state line.  The transmitters are *)
(* interchangeable.                                                               *)
EXTENDS Ui, TLC

Symmetry == Permutations(Macs)
=============================================================================
