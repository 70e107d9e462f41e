----------------------------- MODULE MCHostLink ------------------------------
(* Three frames told apart, so that the answer to the previous frame, to this  *)
(* one and to the next one differ.  Inferences shorter than a poll and longer  *)
(* than the fetch of a frame; gaps that put every event on every cycle of a    *)
(* poll.                                                                       *)
EXTENDS HostLinkProps

MCGaps           == 1 .. 3
MCTransferTimes  == 1 .. 4
MCInferenceTimes == (2 .. 6) \cup {40, 41, 42}
=============================================================================
