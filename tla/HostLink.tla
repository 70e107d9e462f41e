------------------------------ MODULE HostLink -------------------------------
(* The loop that turns samples into answers: the firmware (main.c) polls two   *)
(* register blocks over the bus, servant_spi (fetch a frame from flash) and    *)
(* servant_estu (start an inference, read its result), while the encoder and   *)
(* the accelerator run beside it.  One step is one edge of the system clock;   *)
(* the parts read each other's registers as they were before the edge.         *)
(*                                                                             *)
(* The durations that depend on data or on the instruction stream (cycles      *)
(* between two bus accesses, length of a transfer, length of an inference) are *)
(* chosen from small sets, so every phase of a poll meets every event.         *)
EXTENDS Naturals

CONSTANTS Words,           \* spike words of a frame: CHANNELS/2 in estu.v
          Gaps,            \* edges the CPU spends between two accesses
          TransferTimes,   \* edges an SPI transfer takes
          InferenceTimes,  \* edges an inference takes
          Frames           \* frames are told apart modulo Frames

ASSUME HostLinkAssumption ==
    /\ Words \in Nat \ {0}
    /\ Frames \in Nat \ {0, 1}
    /\ Gaps \subseteq Nat \ {0} /\ Gaps # {}
    /\ TransferTimes \subseteq Nat \ {0} /\ TransferTimes # {}
    /\ InferenceTimes \subseteq Nat \ {0} /\ InferenceTimes # {}

VARIABLES
    \* firmware and bus
    pc,        \* the register the firmware accesses next, or is accessing
    frame,     \* the frame it is working on (input_buf_adr)
    answer,    \* the frame whose result it took last (inference_data)
    gap,       \* edges until its next access
    adr,       \* the address on the bus
    cyc,       \* the cycle line of the data bus
    mux_ack,   \* o_wb_cpu_ack of servant_mux
    \* servant_estu
    mm_start_inference, valid_ll, clr_valid_ll_d, o_cpu_rdt,
    acks,      \* <<o_cpu_ack_int, o_cpu_ack_d, o_cpu_ack_dd>>
    \* servant_spi and spi_master_asic
    mm_spi_adr, mm_spi_start, mm_spi_start_d, mm_spi_valid, valid_rst_cond,
    spi_rd_ack, o_wb_spi_rdt, wb_cyc_d, wb_ack,
    master,    \* state of the master: "IDLE", "READ" (command to last bit), "WAIT_ACK"
    to_read,   \* edges left of the transfer
    read_addr_reg, end_transaction,
    \* encoder and start logic of estu.v
    sample,    \* the frame in the input buffer
    to_encode, \* words of it that are still to be encoded
    valid_bin, input_adr, start_inference, start_inf_d, start_inf_dd,
    \* the accelerator
    state,     \* "IDLE", "RUN" (every state of an inference but the last), "VALID_OP"
    to_run,    \* edges left of the inference
    fed,       \* the frame that was in memory when it began
    data_last_layer, valid_last_layer

host  == <<pc, frame, answer, gap, adr, cyc, mux_ack>>
estu  == <<mm_start_inference, valid_ll, clr_valid_ll_d, o_cpu_rdt, acks>>
spi   == <<mm_spi_adr, mm_spi_start, mm_spi_start_d, mm_spi_valid, valid_rst_cond,
           spi_rd_ack, o_wb_spi_rdt, wb_cyc_d, wb_ack, master, to_read,
           read_addr_reg, end_transaction>>
glue  == <<sample, to_encode, valid_bin, input_adr, start_inference,
           start_inf_d, start_inf_dd>>
accel == <<state, to_run, fed, data_last_layer, valid_last_layer>>
vars  == <<host, estu, spi, glue, accel>>

(* What the result register holds when it is not the result of one frame.      *)
Partial == Frames
Mixed   == Frames + 1

-----------------------------------------------------------------------------
(* The bus *)

EstuRegs == {"START_INFERENCE", "ESTU_DATA"}
SpiRegs  == {"SPI_ADDR", "SPI_START", "SPI_VALID"}
Reads    == {"ESTU_DATA", "SPI_VALID"}

estu_cyc(r) == cyc /\ adr = r
spi_cyc     == cyc /\ adr \in SpiRegs
o_cpu_ack   == acks[1]

slave_ack == IF adr \in EstuRegs THEN o_cpu_ack ELSE wb_ack
MuxAck    == mux_ack' = (cyc /\ ~mux_ack /\ slave_ack)

-----------------------------------------------------------------------------
(* Firmware: the accesses of one frame, in the order of irq_entry and read_spi *)
(* (the memory select and the size hold the same value for every frame).       *)

(* Faulty variant: the result is not awaited before the next start.            *)
MutNextAccess(r) == CASE r = "START_INFERENCE" -> "SPI_ADDR"
                      [] r = "SPI_ADDR"        -> "SPI_START"
                      [] r = "SPI_START"       -> "SPI_VALID"
                      [] r = "SPI_VALID"       -> "START_INFERENCE"
                      [] r = "ESTU_DATA"       -> "START_INFERENCE"

NextAccess(r) == CASE r = "START_INFERENCE" -> "SPI_ADDR"
                   [] r = "SPI_ADDR"        -> "SPI_START"
                   [] r = "SPI_START"       -> "SPI_VALID"
                   [] r = "SPI_VALID"       -> "ESTU_DATA"
                   [] r = "ESTU_DATA"       -> "START_INFERENCE"

(* Faulty variant: the result is taken without a look at its flag.             *)
MutPoll(r) == r = "SPI_VALID" => o_wb_spi_rdt

Poll(r) == CASE r = "SPI_VALID" -> o_wb_spi_rdt
             [] r = "ESTU_DATA" -> o_cpu_rdt.valid
             [] OTHER           -> TRUE

NextFrame(f) == (f + 1) % Frames

Compute == /\ ~cyc /\ gap > 0
           /\ gap' = gap - 1
           /\ UNCHANGED <<pc, frame, answer, adr, cyc>>

Request == /\ ~cyc /\ gap = 0
           /\ cyc' = TRUE
           /\ adr' = pc
           /\ UNCHANGED <<pc, frame, answer, gap>>

AwaitAck == /\ cyc /\ ~mux_ack
            /\ UNCHANGED <<pc, frame, answer, gap, adr, cyc>>

Return == /\ cyc /\ mux_ack
          /\ cyc' = FALSE
          /\ gap' \in Gaps
          /\ pc' = IF Poll(pc) THEN NextAccess(pc) ELSE pc
          /\ frame' = IF pc = "START_INFERENCE" THEN NextFrame(frame) ELSE frame
          /\ answer' = IF pc = "ESTU_DATA" /\ Poll(pc) THEN o_cpu_rdt.data ELSE answer
          /\ UNCHANGED adr

HostEdge == MuxAck /\ (Compute \/ Request \/ AwaitAck \/ Return)

-----------------------------------------------------------------------------
(* servant_estu *)

clr_start_inference == start_inf_dd

(* Faulty variant: the clear is not masked in the cycle of the bus answer.     *)
MutClrValid == estu_cyc("ESTU_DATA") /\ valid_ll

clr_valid_ll_ext == estu_cyc("ESTU_DATA") /\ valid_ll /\ ~acks[2]

(* Faulty variant: reading the result leaves its flag set.                     *)
MutValidLl == valid_last_layer \/ valid_ll

ValidLl == IF clr_valid_ll_d THEN FALSE
           ELSE IF valid_last_layer THEN TRUE ELSE valid_ll

AckInt == adr \in EstuRegs /\ cyc /\ \A i \in 1..3 : ~acks[i]

EstuEdge ==
    /\ acks' = <<AckInt, acks[1], acks[2]>>
    /\ clr_valid_ll_d' = clr_valid_ll_ext
    /\ valid_ll' = ValidLl
    /\ mm_start_inference' = IF clr_start_inference THEN FALSE
                             ELSE mm_start_inference \/ estu_cyc("START_INFERENCE")
    /\ o_cpu_rdt' = IF ~clr_start_inference /\ estu_cyc("ESTU_DATA")
                    THEN [valid |-> valid_ll, data |-> data_last_layer]
                    ELSE o_cpu_rdt

-----------------------------------------------------------------------------
(* servant_spi and the flash master *)

spi_enable            == mm_spi_start /\ ~mm_spi_start_d
reading_spi_valid_reg == cyc /\ adr = "SPI_VALID"

SpiRegisters ==
    /\ mm_spi_adr' = IF spi_cyc /\ adr = "SPI_ADDR" THEN frame ELSE mm_spi_adr
    /\ mm_spi_start' = IF adr = "SPI_START" THEN cyc ELSE mm_spi_start
    /\ mm_spi_start_d' = mm_spi_start
    /\ o_wb_spi_rdt' = IF reading_spi_valid_reg THEN mm_spi_valid ELSE o_wb_spi_rdt
    /\ wb_cyc_d' = spi_cyc
    /\ wb_ack' = (spi_cyc /\ ~wb_cyc_d)

SpiStatus ==
    /\ valid_rst_cond' = (mm_spi_valid /\ reading_spi_valid_reg)
    /\ mm_spi_valid' = (end_transaction \/ (mm_spi_valid /\ ~valid_rst_cond))
    /\ spi_rd_ack' = end_transaction

MasterIdle == /\ master = "IDLE"
              /\ end_transaction' = FALSE
              /\ IF spi_enable
                 THEN /\ master' = "READ"
                      /\ read_addr_reg' = mm_spi_adr
                      /\ to_read' \in TransferTimes
                 ELSE UNCHANGED <<master, read_addr_reg, to_read>>

MasterRead == /\ master = "READ"
              /\ to_read' = to_read - 1
              /\ master' = IF to_read = 1 THEN "WAIT_ACK" ELSE "READ"
              /\ UNCHANGED <<read_addr_reg, end_transaction>>

MasterWaitAck == /\ master = "WAIT_ACK"
                 /\ end_transaction' = ~spi_rd_ack
                 /\ master' = IF spi_rd_ack THEN "IDLE" ELSE "WAIT_ACK"
                 /\ UNCHANGED <<read_addr_reg, to_read>>

SpiEdge == SpiRegisters /\ SpiStatus /\ (MasterIdle \/ MasterRead \/ MasterWaitAck)

-----------------------------------------------------------------------------
(* Encoder and start logic of estu.v: the last word of a transfer releases the *)
(* input buffer, every encoded word raises valid_bin for one cycle.            *)

FrameArrives == master = "READ" /\ to_read = 1
input_loaded == input_adr = Words - 1

NextInputAdr == IF valid_last_layer THEN 0
                ELSE IF valid_bin THEN (input_adr + 1) % (2 * Words) ELSE input_adr

Encode == /\ sample' = IF FrameArrives THEN read_addr_reg ELSE sample
          /\ valid_bin' = (to_encode > 0 /\ ~valid_bin)
          /\ to_encode' = IF FrameArrives THEN Words
                          ELSE IF valid_bin' THEN to_encode - 1 ELSE to_encode

GlueEdge ==
    /\ Encode
    /\ input_adr' = NextInputAdr
    /\ start_inference' = (~valid_last_layer /\ input_loaded /\ mm_start_inference /\ valid_bin)
    /\ start_inf_d' = (~valid_last_layer /\ start_inference)
    /\ start_inf_dd' = (~valid_last_layer /\ start_inf_d)

-----------------------------------------------------------------------------
(* The accelerator, reduced to what the host can see of it.  The result        *)
(* register is cleared when the last layer begins and filled bit by bit; a     *)
(* frame encoded over a running inference spoils the result.                   *)

Idle == /\ state = "IDLE"
        /\ state' = IF start_inf_dd THEN "RUN" ELSE "IDLE"
        /\ fed' = IF start_inf_dd THEN sample ELSE fed
        /\ IF start_inf_dd THEN to_run' \in InferenceTimes ELSE UNCHANGED to_run
        /\ valid_last_layer' = FALSE
        /\ UNCHANGED data_last_layer

Infer == /\ state = "RUN" /\ to_run > 0
         /\ to_run' = to_run - 1
         /\ data_last_layer' = IF to_run > 1 THEN Partial
                               ELSE IF sample = fed THEN fed ELSE Mixed
         /\ valid_last_layer' = (to_run = 1)
         /\ UNCHANGED <<state, fed>>

LastLayerDone == /\ state = "RUN" /\ to_run = 0
                 /\ state' = "VALID_OP"
                 /\ valid_last_layer' = FALSE
                 /\ UNCHANGED <<to_run, fed, data_last_layer>>

ValidOp == /\ state = "VALID_OP"
           /\ state' = "IDLE"
           /\ UNCHANGED <<to_run, fed, data_last_layer, valid_last_layer>>

AccelEdge == Idle \/ Infer \/ LastLayerDone \/ ValidOp

-----------------------------------------------------------------------------
Init ==
    /\ pc = "START_INFERENCE" /\ frame = 0 /\ answer = 0 /\ gap \in Gaps
    /\ adr = "START_INFERENCE" /\ cyc = FALSE /\ mux_ack = FALSE
    /\ mm_start_inference = FALSE /\ valid_ll = FALSE /\ clr_valid_ll_d = FALSE
    /\ o_cpu_rdt = [valid |-> FALSE, data |-> 0]
    /\ acks = <<FALSE, FALSE, FALSE>>
    /\ mm_spi_adr = 0 /\ mm_spi_start = FALSE /\ mm_spi_start_d = FALSE
    /\ mm_spi_valid = FALSE /\ valid_rst_cond = FALSE /\ spi_rd_ack = FALSE
    /\ o_wb_spi_rdt = FALSE /\ wb_cyc_d = FALSE /\ wb_ack = FALSE
    /\ master = "IDLE" /\ to_read = 0 /\ read_addr_reg = 0 /\ end_transaction = FALSE
    /\ sample = 0 /\ to_encode = 0 /\ valid_bin = FALSE /\ input_adr = 0
    /\ start_inference = FALSE /\ start_inf_d = FALSE /\ start_inf_dd = FALSE
    /\ state = "IDLE" /\ to_run = 0 /\ fed = 0
    /\ data_last_layer = 0 /\ valid_last_layer = FALSE

Next == HostEdge /\ EstuEdge /\ SpiEdge /\ GlueEdge /\ AccelEdge

Spec == Init /\ [][Next]_vars

(* The clock runs for as long as the firmware is in this loop.                 *)
LiveSpec == Spec /\ WF_vars(Next)
=============================================================================
