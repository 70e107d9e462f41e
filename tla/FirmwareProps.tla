--------------------------- MODULE FirmwareProps -----------------------------
(* Properties of the firmware and the register blocks it drives.               *)
EXTENDS Firmware

FrameAddresses == {INPUT_BUFFER_ADDR + k * OFFSET_CHANNELS : k \in 0 .. Frames - 1}

(* An inference runs only on complete memories: both weight images read whole  *)
(* from their own areas of the flash, the frame whole, the weight memories no  *)
(* longer open to the loader, the program length set, the encoder not bypassed;*)
(* and the globals it is called with were initialized by _start, all of them.  *)
Loaded(m, a, n) == memory[m] = <<<<a, n>>, <<a, n>>>>

InferenceFindsItsInputs ==
    accel.running => /\ Loaded(INT_MEM1_ID, INT_MEM_1_ADDR, WEIGHTS_SIZE_1)
                     /\ Loaded(INT_MEM2_ID, INT_MEM_2_ADDR, WEIGHTS_SIZE_2)
                     /\ Loaded(INPUT_BUFFER_ID, accel.fed, INPUT_CHANNELS)
                     /\ estu.mm_external_wren = 0
                     /\ estu.mm_num_instr = NUM_INSTRUCTIONS
                     /\ ~estu.mm_encoding_bypass
                     /\ bss = 0 .. BssSize - 1 /\ data = 0 .. DataSize - 1

(* An interrupt is possible only in the endless loop of main, with the handler *)
(* in mtvec, the timer set, nothing under way and the accelerator at rest: the *)
(* handler shares the loader, the globals and the registers with main.         *)
InterruptFindsItsHandler ==
    (csr.mie /\ csr.mtie) => /\ InLoop
                             /\ csr.rf[Csr!MTVEC] = irq_entry
                             /\ timer.mtimecmp = TIME
                             /\ master.left = 0 /\ ~encoding
                             /\ ~accel.running /\ ~uart.sending

(* While a transfer runs, nothing it depends on is written: where it goes, and *)
(* the enables of the memories.                                                *)
TransfersUndisturbed ==
    [][master.left > 0 => /\ spi'.mm_mem_address = spi.mm_mem_address
                          /\ spi'.mm_spi_adr = spi.mm_spi_adr
                          /\ estu'.mm_external_wren = estu.mm_external_wren]_vars

(* Every inference is given the frame after that of the previous one, the      *)
(* first one the first: none is skipped, none is used twice between main and   *)
(* the handler.                                                                *)
Number(a) == (a - INPUT_BUFFER_ADDR) \div OFFSET_CHANNELS

FramesInOrder ==
    [][(accel'.running /\ ~accel.running) =>
           Number(accel'.fed) = IF accel.fed = 0 THEN 0
                                ELSE (Number(accel.fed) + 1) % Frames]_vars

(* If the buttons are pressed for good, that is, read zero, which is what the  *)
(* wait of main.c:31-33 ends on, the firmware reaches its loop, and from then  *)
(* on inference follows inference without end.                                 *)
BootsAndSamples ==
    (<>[](gpio.buttons = 0)) => /\ <>InLoop
                               /\ []<>(accel.running)
=============================================================================
