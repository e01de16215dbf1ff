-------------------------------- MODULE MCTracks --------------------------------
(* The table with its snapshot on a small instance: four transmitters for     *)
(* three slots, so that slots are taken over, fewer rows than tracks, and a    *)
(* clock that outruns the eviction age.                                        *)
EXTENDS Snapshot

TwoSignals == {-60, -40}
SomePacks == {{}, {"location"}, {"auth"}}
=============================================================================
