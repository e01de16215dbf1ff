----------------------------------- MODULE Option -----------------------------------
(***************************************************************************)
(* Option of the source: None, or Some of a value.                         *)
(***************************************************************************)
Some(x) == <<x>>
None == <<>>
=============================================================================
