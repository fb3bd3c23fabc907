--------------------------- MODULE MCTimedChannel ---------------------------
(* TimedChannel on two senders and three receivers. *)
EXTENDS TimedChannel
=============================================================================
