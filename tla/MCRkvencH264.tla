---------------------------- MODULE MCRkvencH264 ----------------------------
(* Instances of RkvencH264 for TLC. *)
EXTENDS RkvencH264

CONSTANTS p1, p2

(* Bounds: an imported buffer is at most one size larger than its format, and
   the source format is one of two of the three sizes: against 2 the coded
   formats are equal, larger but within the buffer, and twice as large. *)
SessionBound ==
  /\ \A q \in Queues : queued[q] <= fmt[q] + 1
  /\ fmt["out"] \in {2, 4}
=============================================================================
