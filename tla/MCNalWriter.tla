----------------------------- MODULE MCNalWriter -----------------------------
(* Zero, the escape byte and its neighbours; buffers too small for the start
   code, for the longest unit, and large enough. *)
EXTENDS NalWriter

MCBytes    == {0, 1, 3, 4}
MCOutSizes == {4, 5, 8, 9, 12, 30}
=============================================================================
