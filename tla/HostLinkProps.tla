--------------------------- MODULE HostLinkProps -----------------------------
(* Properties of the loop of HostLink.                                      *)
EXTENDS HostLink

Tags == 0 .. Frames - 1

(* The words of a frame are encoded only while the accelerator rests, and the  *)
(* last of them finds the start bit set: it is never too late to be counted    *)
(* for this frame, nor cleared on behalf of the previous one.                  *)
FrameBeginsInference ==
    valid_bin => /\ state = "IDLE"
                 /\ input_loaded => mm_start_inference

(* No write of the host meets the cycle in which the start bit is cleared: in  *)
(* that cycle servant_estu.v drops every write it acknowledges, and a start    *)
(* bit dropped would be awaited for ever.                                      *)
NoWriteDropped == clr_start_inference => ~estu_cyc("START_INFERENCE")

(* Every answer the firmware takes is the complete result of the frame it      *)
(* asked for: not the previous one still flagged, not a partial last layer,    *)
(* not one whose input was overwritten.                                        *)
Loop == INSTANCE FrameLoop WITH asked <- frame, answered <- answer
RefinesFrameLoop == Loop!Spec

(* A result is not lost in the handshake: whichever edge of a poll it arrives  *)
(* on, the firmware leaves exec_inference.                                     *)
ResultReachesHost == (pc = "ESTU_DATA") ~> (pc # "ESTU_DATA")

(* The status register reports the end of a transfer (servant_spi.v says it is *)
(* set on completion and cleared by the access that reads it): the firmware    *)
(* leaves read_spi.                                                            *)
TransferEndIsSeen == (master = "WAIT_ACK") ~> (pc # "SPI_VALID")

=============================================================================
