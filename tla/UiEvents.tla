-------------------------------- MODULE UiEvents --------------------------------
(* What the buttons tell the display (UiEvt in firmware/src/ui.rs). *)

UiEvts == {"NextTrack", "ToggleView", "ClearTracks", "Redraw"}
=================================================================================
