------------------------------- MODULE MCUart --------------------------------
(* Baud rate and queue of soc.v: 4 edges per bit, 8 bytes per word.  Polls of  *)
(* about the length of a byte, so that READY is read in every phase of one.    *)
EXTENDS UartProps

MCAnswers == {5203, 8190}   \* 0b1_0100_0101_0011 and all ones but the lowest
MCPolls   == [r \in {"UART_DATA", "UART_SEND", "UART_READY", "RESULT"} |-> 33 .. 45]
MCWaits   == {320, 325}

(* The edges the bit-serial core really takes between the accesses of          *)
(* uart_send, with two more or fewer: 36 for an instruction of one stage, 70   *)
(* for a load, store or branch, 3 of them in the access itself.                *)
MCCorePolls == [UART_DATA  |-> {103}, UART_SEND |-> 65 .. 69,
                UART_READY |-> 134 .. 138, RESULT |-> {1}]
=============================================================================
