------------------------- MODULE MCLatencyHistogram -------------------------
(* LatencyHistogram for TLC: three buckets, and durations around their bounds. *)
EXTENDS LatencyHistogram

MCBounds == <<1, 2, 5>>
=============================================================================
