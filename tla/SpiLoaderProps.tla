-------------------------- MODULE SpiLoaderProps -----------------------------
(* Properties of the loader of SpiLoader.                                      *)
EXTENDS SpiLoader

Byte == 0 .. FlashBytes

Length == mm_read_size \div 16     \* words of the transfer

(* When the status register reports the end of a transfer to a weight memory,  *)
(* every word of it is in place, in the byte order of the flash: the report    *)
(* does not overtake the last write, and no earlier transfer shifts this one.  *)
LoadedWhenReported ==
    mm_spi_valid /\ mm_mem_address \in 0..1 /\ stage = "poll" =>
        \A i \in 0 .. Length - 1 :
            INT_MEM[mm_mem_address][i] = Word((mm_spi_adr + 2 * i) % FlashBytes)

(* A memory is written only on behalf of the transfer in progress, at an       *)
(* address that transfer covers, and never after its end was reported.         *)
NoStrayWrite ==
    [][INT_MEM' # INT_MEM => /\ stage = "poll" /\ ~mm_spi_valid
                             /\ wr_addr < Length]_vars

(* The encoder receives the samples of the frame just read in the order of the *)
(* flash, whatever was transferred before.                                     *)
SamplesInOrder ==
    buffer_valid => data_out = Flash((mm_spi_adr + sample) % FlashBytes)

(* A frame does not get stuck in the input buffer.                             *)
FrameDelivered ==
    (stage = "start" /\ mm_mem_address = 2) ~> (sample = 2 * CHANNELS_INT)

(* servant_spi.v, peripherals.h and main.c call the size register the number   *)
(* of bytes to read.                                                           *)
SizeIsInBytes == mm_spi_valid /\ stage = "poll" =>
                     address_mems = mm_read_size % (2 * Depth)
=============================================================================
