----------------------------- MODULE UartProps -------------------------------
(* Properties of the serial link of Uart.                                      *)
EXTENDS Uart

(* The transmitter never rests between two bytes of a word: the next byte is   *)
(* passed during the stop bit and its start bit follows without delay, as the  *)
(* header of SerialTransmitter.v promises.                                     *)
BytesWithoutDelay == cnt \in 1 .. N - 1 => txState # "Idle"

(* The receiver at the other end gets the bytes of every answer once and in    *)
(* order, although the word is read from the live result register byte by      *)
(* byte and READY is seen between two bytes.                                   *)
Stream == INSTANCE ByteStream
RefinesByteStream == Stream!Spec

(* When uart_send returns, the whole answer is out, so the handler, which      *)
(* stops the clock next (main.c:110), freezes no byte.  READY does not promise *)
(* it, it is up between two bytes as well: it holds because the polls of the   *)
(* bit-serial core fall between those moments.                                 *)
SentBeforeGate == (polls = CorePolls /\ pc = "RESULT") => cnt = 0 /\ txState = "Idle" /\ oTxd

(* All bytes of an answer arrive.                                              *)
AnswerArrives == uart_wren ~> (got = N)

=============================================================================
