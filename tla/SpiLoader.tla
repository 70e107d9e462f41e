------------------------------ MODULE SpiLoader ------------------------------
(* From flash to memory: servant_spi.v and spi_master_asic.v read a block of   *)
(* the flash, assemble its bytes into 16-bit words and write them to one of    *)
(* the two weight memories or to the input buffer (input_buffer.v), which      *)
(* streams a complete frame to the encoder, one sample per cycle.  One step is *)
(* one edge of the system clock.                                               *)
(*                                                                             *)
(* The eight edges of the command and the 24 address bits are one edge each.   *)
(* The register writes that prepare a transfer are one step and a read of the  *)
(* status register takes one cycle: how an access unfolds on the bus is the    *)
(* subject of HostLink.                                                        *)
EXTENDS Naturals, Sequences

CONSTANTS CounterBits,   \* width of counter_send and mm_read_size: 18 in the code
          Depth,         \* words of a weight memory: 2^14 in the code
          CHANNELS_INT,  \* words of the input buffer: 8 in the code
          FlashBytes,    \* size of the flash
          Requests       \* the transfers the firmware asks for: [sel, adr, size]

ASSUME SpiLoaderAssumption ==
    /\ CounterBits \in Nat /\ CounterBits >= 3
    /\ Depth \in Nat \ {0} /\ CHANNELS_INT \in Nat \ {0} /\ FlashBytes \in Nat \ {0}
    /\ Requests \subseteq [sel : 0..2, adr : 0..FlashBytes - 1, size : 0..2^CounterBits - 1]
    \* The sizes in constants.h: whole words that fit, and a frame fills its buffer.
    /\ \A r \in Requests : /\ r.size \in 16 .. 16 * Depth /\ r.size % 16 = 0
                           /\ r.sel = 2 => r.size = 16 * CHANNELS_INT

VARIABLES
    stage,              \* firmware: "prepare", "start", "poll"
    mm_spi_adr, mm_mem_address, mm_read_size, mm_external_wren,
    mm_spi_start, mm_spi_start_d, mm_spi_valid, valid_rst_cond, spi_rd_ack,
    \* spi_master_asic
    state, counter_clk, counter_send, words_to_read_reg,
    flash_adr,          \* the byte the flash sends
    valid, rd_data, end_transaction,
    \* word assembly
    spi_byte_valid_d, address_mems, data_in_intmems,
    INT_MEM,            \* the weight memories, by memory select
    \* input buffer
    buffer, pointer, read_flag, slow_stream_out, buffer_valid, mem_out,
    sample              \* samples of the frame streamed so far (history)

regs   == <<mm_spi_adr, mm_mem_address, mm_read_size, mm_external_wren>>
status == <<mm_spi_start, mm_spi_start_d, mm_spi_valid, valid_rst_cond, spi_rd_ack>>
master == <<state, counter_clk, counter_send, words_to_read_reg, flash_adr, valid,
            rd_data, end_transaction>>
words  == <<spi_byte_valid_d, address_mems, data_in_intmems, INT_MEM>>
inbuf  == <<buffer, pointer, read_flag, slow_stream_out, buffer_valid, mem_out, sample>>
vars   == <<stage, regs, status, master, words, inbuf>>

Zero == 0
Flash(a) == a + 1        \* the byte at address a of the flash
Word(a) == <<Flash(a), Flash((a + 1) % FlashBytes)>>

-----------------------------------------------------------------------------
(* Firmware: ESTU_WREN, then read_spi.  The write enable follows the select.   *)
(* After a frame the firmware waits for the result of its inference, which     *)
(* needs every sample of the frame (exec_inference).                           *)

Result == mm_mem_address = 2 => sample = 2 * CHANNELS_INT

ExecInference == /\ stage = "prepare" /\ ~Result
                 /\ valid_rst_cond' = FALSE
                 /\ UNCHANGED <<stage, mm_spi_start, regs>>

Prepare == /\ stage = "prepare" /\ Result
           /\ \E r \in Requests :
                /\ mm_spi_adr' = r.adr
                /\ mm_mem_address' = r.sel
                /\ mm_read_size' = r.size
                /\ mm_external_wren' = IF r.sel = 2 THEN {} ELSE {r.sel}
           /\ stage' = "start"
           /\ UNCHANGED mm_spi_start
           /\ valid_rst_cond' = FALSE

(* Writing SPI_START raises the start bit; it falls in the next cycle, with    *)
(* the register still addressed.                                               *)
Start == /\ stage = "start"
         /\ stage' = "poll"
         /\ mm_spi_start' = TRUE
         /\ valid_rst_cond' = FALSE
         /\ UNCHANGED regs

Poll == /\ stage = "poll"
        /\ mm_spi_start' = FALSE
        /\ \E reading \in BOOLEAN :
             /\ valid_rst_cond' = (mm_spi_valid /\ reading)
             /\ stage' = IF mm_spi_valid /\ reading THEN "prepare" ELSE "poll"
        /\ UNCHANGED regs

HostEdge == ExecInference \/ Prepare \/ Start \/ Poll

spi_enable == mm_spi_start /\ ~mm_spi_start_d

StatusEdge ==
    /\ mm_spi_start_d' = mm_spi_start
    /\ mm_spi_valid' = (end_transaction \/ (mm_spi_valid /\ ~valid_rst_cond))
    /\ spi_rd_ack' = end_transaction

-----------------------------------------------------------------------------
(* spi_master_asic *)

IDLE == /\ state = "IDLE"
        /\ counter_clk' = 0 /\ counter_send' = 0
        /\ valid' = FALSE /\ rd_data' = Zero /\ end_transaction' = FALSE
        /\ state' = IF spi_enable THEN "SEND_CMD" ELSE "IDLE"
        /\ words_to_read_reg' = IF spi_enable THEN mm_read_size ELSE words_to_read_reg
        /\ flash_adr' = IF spi_enable THEN mm_spi_adr ELSE flash_adr

SEND == /\ state \in {"SEND_CMD", "SEND_ADDR"}
        /\ state' = IF state = "SEND_CMD" THEN "SEND_ADDR" ELSE "READ_FLASH"
        /\ UNCHANGED <<counter_clk, counter_send, words_to_read_reg, flash_adr,
                       valid, rd_data, end_transaction>>

ByteDone == counter_send % 8 = 7

(* Faulty variant: one bit too many is asked for.                              *)
MutLastBit == counter_send = words_to_read_reg

LastBit == counter_send = (words_to_read_reg + 2^CounterBits - 1) % 2^CounterBits

ClockHigh == /\ state = "READ_FLASH" /\ counter_clk = 0
             /\ counter_clk' = 1
             /\ valid' = FALSE
             /\ UNCHANGED <<state, counter_send, words_to_read_reg, flash_adr,
                            rd_data, end_transaction>>

(* The end of the transfer is looked for only at the end of a byte.            *)
ClockLow == /\ state = "READ_FLASH" /\ counter_clk = 1
            /\ counter_clk' = 0
            /\ valid' = ByteDone
            /\ rd_data' = IF ByteDone THEN Flash(flash_adr) ELSE rd_data
            /\ flash_adr' = IF ByteDone THEN (flash_adr + 1) % FlashBytes ELSE flash_adr
            /\ IF ByteDone /\ LastBit
               THEN state' = "WAIT_ACK" /\ counter_send' = 0
               ELSE state' = state /\ counter_send' = (counter_send + 1) % 2^CounterBits
            /\ UNCHANGED <<words_to_read_reg, end_transaction>>

WAIT_ACK == /\ state = "WAIT_ACK"
            /\ valid' = FALSE
            /\ end_transaction' = ~spi_rd_ack
            /\ state' = IF spi_rd_ack THEN "IDLE" ELSE "WAIT_ACK"
            /\ UNCHANGED <<counter_clk, counter_send, words_to_read_reg, flash_adr, rd_data>>

MasterEdge == IDLE \/ SEND \/ ClockHigh \/ ClockLow \/ WAIT_ACK

-----------------------------------------------------------------------------
(* Word assembly: the low bit of address_mems tells whether a byte completes a *)
(* word; the word is written in the cycle after its second byte.               *)

spi_byte_valid_pulse == valid /\ ~spi_byte_valid_d

rst_out_spi == spi_enable

wen     == address_mems % 2 = 1 /\ spi_byte_valid_d
wr_addr == address_mems \div 2
en_mem(k) == mm_mem_address = k

(* Faulty variant: the address keeps counting from one transfer to the next.   *)
MutNextAddress == IF spi_byte_valid_d THEN (address_mems + 1) % (2 * Depth)
                  ELSE address_mems

NextAddress == IF rst_out_spi THEN 0
               ELSE IF spi_byte_valid_d THEN (address_mems + 1) % (2 * Depth)
               ELSE address_mems

NextData == IF rst_out_spi \/ wen THEN <<Zero, Zero>>
            ELSE IF spi_byte_valid_pulse THEN <<data_in_intmems[2], rd_data>>
            ELSE data_in_intmems

(* The address port of a memory is the loader's only under its write enable.   *)
Writes(k) == en_mem(k) /\ wen /\ k \in mm_external_wren

WordEdge ==
    /\ spi_byte_valid_d' = spi_byte_valid_pulse
    /\ address_mems' = NextAddress
    /\ data_in_intmems' = NextData
    /\ INT_MEM' = [k \in 0..1 |-> IF Writes(k)
                                  THEN [INT_MEM[k] EXCEPT ![wr_addr] = data_in_intmems]
                                  ELSE INT_MEM[k]]

-----------------------------------------------------------------------------
(* input_buffer: words are written at the buffer's own pointer; the last one   *)
(* starts the read-out, which takes two cycles per word.                       *)

wr_en == en_mem(2) /\ wen

Advance == (pointer + 1) % CHANNELS_INT

(* Faulty variant: the read-out takes one cycle per word.                      *)
MutNextPointer == IF wr_en \/ read_flag THEN Advance ELSE pointer

NextPointer == IF wr_en \/ (read_flag /\ slow_stream_out) THEN Advance ELSE pointer

(* Faulty variant: the read-out waits for one word more than there is.         *)
MutNextReadFlag == IF wr_en /\ pointer = CHANNELS_INT THEN TRUE
                   ELSE IF read_flag /\ slow_stream_out /\ pointer = CHANNELS_INT - 1
                   THEN FALSE ELSE read_flag

NextReadFlag == IF wr_en /\ pointer = CHANNELS_INT - 1 THEN TRUE
                ELSE IF read_flag /\ slow_stream_out /\ pointer = CHANNELS_INT - 1
                THEN FALSE ELSE read_flag

data_out == IF slow_stream_out THEN mem_out[1] ELSE mem_out[2]

BufferEdge ==
    /\ buffer' = IF wr_en THEN [buffer EXCEPT ![pointer] = data_in_intmems] ELSE buffer
    /\ mem_out' = buffer[pointer]
    /\ pointer' = NextPointer
    /\ read_flag' = NextReadFlag
    /\ slow_stream_out' = (read_flag # slow_stream_out)
    /\ buffer_valid' = read_flag
    /\ sample' = IF spi_enable THEN 0
                 ELSE IF buffer_valid THEN sample + 1 ELSE sample

-----------------------------------------------------------------------------
Init ==
    /\ stage = "prepare"
    /\ mm_spi_adr = 0 /\ mm_mem_address = 0 /\ mm_read_size = 0 /\ mm_external_wren = {}
    /\ mm_spi_start = FALSE /\ mm_spi_start_d = FALSE /\ mm_spi_valid = FALSE
    /\ valid_rst_cond = FALSE /\ spi_rd_ack = FALSE
    /\ state = "IDLE" /\ counter_clk = 0 /\ counter_send = 0
    /\ words_to_read_reg = 0 /\ flash_adr = 0
    /\ valid = FALSE /\ rd_data = Zero /\ end_transaction = FALSE
    /\ spi_byte_valid_d = FALSE /\ address_mems = 0 /\ data_in_intmems = <<Zero, Zero>>
    /\ INT_MEM = [k \in 0..1 |-> [i \in 0..Depth - 1 |-> <<Zero, Zero>>]]
    /\ buffer = [i \in 0..CHANNELS_INT - 1 |-> <<Zero, Zero>>]
    /\ pointer = 0 /\ read_flag = FALSE /\ slow_stream_out = FALSE
    /\ buffer_valid = FALSE /\ mem_out = <<Zero, Zero>> /\ sample = 0

Next == HostEdge /\ StatusEdge /\ MasterEdge /\ WordEdge /\ BufferEdge

Spec == Init /\ [][Next]_vars

(* The clock runs.                                                             *)
LiveSpec == Spec /\ WF_vars(Next)
=============================================================================
