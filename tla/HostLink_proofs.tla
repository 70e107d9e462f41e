--------------------------- MODULE HostLink_proofs ---------------------------
(* Proofs about the loop of HostLink, for every number of words of a frame and *)
(* all durations: of the firmware, of transfers and of inferences.             *)
EXTENDS HostLinkProps, TLAPS

-----------------------------------------------------------------------------
(* The inductive invariant, in parts.                                          *)

HostTypes ==
    /\ pc \in EstuRegs \cup SpiRegs /\ adr \in EstuRegs \cup SpiRegs
    /\ gap \in Nat
    /\ cyc \in BOOLEAN /\ mux_ack \in BOOLEAN
    /\ acks[1] \in BOOLEAN /\ acks[2] \in BOOLEAN /\ acks[3] \in BOOLEAN
    /\ wb_ack \in BOOLEAN /\ wb_cyc_d \in BOOLEAN

SpiTypes ==
    /\ mm_spi_start \in BOOLEAN /\ mm_spi_start_d \in BOOLEAN
    /\ mm_spi_valid \in BOOLEAN /\ valid_rst_cond \in BOOLEAN /\ spi_rd_ack \in BOOLEAN
    /\ o_wb_spi_rdt \in BOOLEAN /\ end_transaction \in BOOLEAN
    /\ master \in {"IDLE", "READ", "WAIT_ACK"} /\ to_read \in Nat

AccelTypes ==
    /\ mm_start_inference \in BOOLEAN /\ valid_ll \in BOOLEAN
    /\ clr_valid_ll_d \in BOOLEAN /\ o_cpu_rdt.valid \in BOOLEAN
    /\ to_encode \in Nat /\ input_adr \in Nat /\ valid_bin \in BOOLEAN
    /\ start_inference \in BOOLEAN /\ start_inf_d \in BOOLEAN /\ start_inf_dd \in BOOLEAN
    /\ state \in {"IDLE", "RUN", "VALID_OP"} /\ to_run \in Nat
    /\ valid_last_layer \in BOOLEAN

(* An access takes three edges: it is requested, acknowledged by the slave,    *)
(* acknowledged by the multiplexer.  The flags of one have gone when the next  *)
(* one is requested.                                                           *)
Second == cyc /\ ~mux_ack /\ slave_ack
Third  == cyc /\ mux_ack

AccessInThree ==
    /\ mux_ack => cyc
    /\ cyc => adr = pc
    /\ acks[1] => cyc /\ ~mux_ack /\ pc \in EstuRegs
    /\ acks[2] <=> (mux_ack /\ pc \in EstuRegs)
    /\ acks[3] => ~cyc /\ gap > 0
    /\ wb_ack => cyc /\ ~mux_ack /\ pc \in SpiRegs
    /\ wb_cyc_d => IF cyc THEN pc \in SpiRegs /\ (wb_ack \/ mux_ack) ELSE gap > 0
    /\ cyc /\ pc \in SpiRegs /\ (wb_ack \/ mux_ack) => wb_cyc_d

(* The start bit of a transfer is up for three edges, and its rise is seen     *)
(* once, while the access that sets it is being acknowledged.                  *)
StartPulse ==
    /\ mm_spi_start => /\ adr = "SPI_START" /\ wb_cyc_d
                       /\ cyc \/ pc = "SPI_VALID"
                       /\ Third \/ ~cyc => mm_spi_start_d
    /\ pc = "SPI_START" /\ (Second \/ Third) => mm_spi_start
    /\ pc = "SPI_START" /\ Second => ~mm_spi_start_d
    /\ mm_spi_start_d => \/ pc = "SPI_START" /\ Third
                         \/ pc = "SPI_VALID" /\ ~cyc

(* The handshake that ends a transfer: the flag the firmware polls is up only  *)
(* when the handshake is over or about to be, and nothing of it is left when   *)
(* the firmware has read the flag.                                             *)
TransferEnds ==
    /\ end_transaction => master = "WAIT_ACK"
    /\ spi_rd_ack => end_transaction \/ (master = "IDLE" /\ pc = "SPI_VALID")
    /\ mm_spi_valid => pc = "SPI_VALID" /\ (spi_rd_ack \/ master = "IDLE")
    /\ master = "WAIT_ACK" => pc = "SPI_VALID"
    /\ pc = "SPI_VALID" /\ Third /\ o_wb_spi_rdt => master = "IDLE" /\ valid_rst_cond

(* The stages of a frame.  Before it is in the input buffer the encoder, the   *)
(* start logic and the accelerator rest.                                       *)
AtRest ==
    /\ to_encode = 0 /\ ~valid_bin /\ input_adr = 0
    /\ ~start_inference /\ ~start_inf_d /\ ~start_inf_dd
    /\ state = "IDLE" /\ ~valid_last_layer /\ ~valid_ll

(* Every word is counted: those seen, those left and the one on its way.       *)
Encoding ==
    /\ to_encode > 0 \/ valid_bin
    /\ input_adr + to_encode + (IF valid_bin THEN 1 ELSE 0) = Words
    /\ mm_start_inference
    /\ ~start_inference /\ ~start_inf_d /\ ~start_inf_dd
    /\ state = "IDLE" /\ ~valid_last_layer /\ ~valid_ll

Encoded == to_encode = 0 /\ ~valid_bin

Starting ==
    /\ Encoded
    /\ \/ start_inference /\ ~start_inf_d /\ ~start_inf_dd
       \/ ~start_inference /\ start_inf_d /\ ~start_inf_dd
       \/ ~start_inference /\ ~start_inf_d /\ start_inf_dd
    /\ state = "IDLE" /\ ~valid_last_layer /\ ~valid_ll

Started == Encoded /\ ~start_inference /\ ~start_inf_d /\ ~start_inf_dd

Running ==
    /\ Started /\ state = "RUN" /\ to_run > 0 /\ fed = frame
    /\ ~valid_last_layer /\ ~valid_ll

Delivering ==
    /\ Started /\ state = "RUN" /\ to_run = 0 /\ data_last_layer = frame
    /\ valid_last_layer /\ ~valid_ll

\* The firmware is about to see the result.
Answering == pc = "ESTU_DATA" /\ Third /\ o_cpu_rdt.valid

Flagged ==
    /\ Started /\ state \in {"VALID_OP", "IDLE"} /\ data_last_layer = frame
    /\ ~valid_last_layer /\ input_adr = 0
    /\ valid_ll \/ Answering

(* Until the transfer has begun everything rests; the start bit is set first.  *)
Asking ==
    /\ pc \in {"START_INFERENCE", "SPI_ADDR", "SPI_START"} => AtRest
    /\ pc \in {"START_INFERENCE", "SPI_ADDR"} => master = "IDLE"
    /\ pc = "SPI_START" => master = IF Third THEN "READ" ELSE "IDLE"
    /\ pc \in {"SPI_ADDR", "SPI_START"} => mm_start_inference
    /\ pc = "START_INFERENCE" /\ (Second \/ Third) => mm_start_inference
    /\ pc = "SPI_START" => mm_spi_adr = frame
    /\ pc = "SPI_ADDR" /\ (Second \/ Third) => mm_spi_adr = frame

Fetching ==
    master = "READ" => /\ pc = "SPI_VALID" \/ (pc = "SPI_START" /\ Third)
                       /\ AtRest /\ mm_start_inference
                       /\ read_addr_reg = frame /\ to_read > 0

(* When the frame has arrived it is in one of the stages.                      *)
Answered ==
    /\ pc = "ESTU_DATA" => master = "IDLE"
    /\ pc \in {"SPI_VALID", "ESTU_DATA"} /\ master # "READ" =>
           sample = frame /\ (Encoding \/ Starting \/ Running \/ Delivering \/ Flagged)

(* The flag of the result is cleared by the access that shows it to the        *)
(* firmware, and by no other.                                                  *)
FlagOnce ==
    /\ Answering => clr_valid_ll_d /\ state = "IDLE" /\ Flagged
                    /\ o_cpu_rdt.data = frame
    /\ clr_valid_ll_d => /\ pc = "ESTU_DATA"
                         /\ (Second /\ valid_ll) \/ Answering
    /\ pc = "ESTU_DATA" /\ Second /\ start_inf_dd => ~o_cpu_rdt.valid

OneAsked ==
    /\ frame \in Tags /\ answer \in Tags
    /\ frame = IF pc = "START_INFERENCE" THEN answer ELSE NextFrame(answer)

IInv == /\ HostTypes /\ SpiTypes /\ AccelTypes
        /\ AccessInThree /\ StartPulse /\ TransferEnds
        /\ Asking /\ Fetching /\ Answered /\ FlagOnce /\ OneAsked

-----------------------------------------------------------------------------
(* The edges of an access, and what the firmware does at each.                 *)

SamePlace == pc' = pc /\ frame' = frame /\ answer' = answer

EdgeBetween == ~cyc /\ ~cyc' /\ adr' = adr /\ SamePlace
EdgeRequest == ~cyc /\ gap = 0 /\ cyc' /\ ~Second' /\ ~Third' /\ adr' = pc /\ SamePlace
EdgeFirst   == /\ cyc /\ ~Second /\ ~Third /\ cyc' /\ Second' /\ ~Third'
               /\ adr' = adr /\ SamePlace
EdgeSecond  == Second /\ ~Third /\ cyc' /\ ~Second' /\ Third' /\ adr' = adr /\ SamePlace
EdgeThird   == ~Second /\ Third /\ ~cyc' /\ ~Second' /\ ~Third' /\ adr' = adr /\ Return

(* Every edge is one of these, and accesses keep to their three edges.         *)
LEMMA Accesses ==
  ASSUME HostTypes, AccessInThree, HostEdge, EstuEdge, SpiEdge
  PROVE  /\ HostTypes' /\ AccessInThree'
         /\ EdgeBetween \/ EdgeRequest \/ EdgeFirst \/ EdgeSecond \/ EdgeThird
<1>1. /\ acks'[1] = AckInt /\ acks'[2] = acks[1] /\ acks'[3] = acks[2]
  BY DEF EstuEdge
<1>2. /\ wb_cyc_d' = spi_cyc /\ wb_ack' = (spi_cyc /\ ~wb_cyc_d)
      /\ mux_ack' = (cyc /\ ~mux_ack /\ slave_ack)
  BY DEF SpiEdge, SpiRegisters, HostEdge, MuxAck
<1>3. AckInt = (adr \in EstuRegs /\ cyc /\ ~acks[1] /\ ~acks[2] /\ ~acks[3])
  BY DEF AckInt
<1>4. /\ acks'[1] \in BOOLEAN /\ acks'[2] \in BOOLEAN /\ acks'[3] \in BOOLEAN
      /\ wb_ack' \in BOOLEAN /\ wb_cyc_d' \in BOOLEAN /\ mux_ack' \in BOOLEAN
  BY <1>1, <1>2, <1>3 DEF HostTypes, spi_cyc
<1>5. EstuRegs \cap SpiRegs = {}
  BY DEF EstuRegs, SpiRegs
<1>6. ~cyc => ~acks[1] /\ ~acks[2] /\ ~wb_ack /\ ~mux_ack
  BY DEF AccessInThree
<1> USE DEF SamePlace
<1>7. CASE Compute
  <2>1. ~cyc /\ ~cyc' /\ adr' = adr /\ SamePlace /\ gap' \in Nat
    BY <1>7 DEF Compute, HostTypes
  <2>2. ~acks'[1] /\ ~acks'[2] /\ ~acks'[3] /\ ~wb_ack' /\ ~wb_cyc_d' /\ ~mux_ack'
    BY <1>1, <1>2, <1>3, <1>6, <2>1 DEF spi_cyc
  <2> QED BY <1>4, <2>1, <2>2, <1>7 DEF EdgeBetween, HostTypes, AccessInThree, Compute
<1>8. CASE Request
  <2>1. ~cyc /\ gap = 0 /\ cyc' /\ adr' = pc /\ SamePlace /\ gap' \in Nat /\ cyc' \in BOOLEAN
    BY <1>8 DEF Request, HostTypes
  <2>2. ~acks'[1] /\ ~acks'[2] /\ ~acks'[3] /\ ~wb_ack' /\ ~wb_cyc_d' /\ ~mux_ack'
    BY <1>1, <1>2, <1>3, <1>6, <2>1 DEF spi_cyc
  <2>3. ~Second' /\ ~Third'
    BY <2>2 DEF Second, Third, slave_ack, o_cpu_ack
  <2> QED BY <1>4, <2>1, <2>2, <2>3 DEF EdgeRequest, HostTypes, AccessInThree
<1>9. CASE AwaitAck
  <2>1. cyc /\ ~mux_ack /\ cyc' /\ adr' = adr /\ SamePlace /\ gap' = gap /\ adr = pc
    BY <1>9 DEF AwaitAck, AccessInThree
  <2>2. ~acks[2] /\ ~acks[3]
    BY <2>1 DEF AccessInThree
  <2>3. CASE pc \in EstuRegs
    <3>1. ~wb_ack /\ ~wb_cyc_d /\ ~spi_cyc /\ slave_ack = acks[1]
      BY <1>5, <2>1, <2>3 DEF AccessInThree, spi_cyc, slave_ack, o_cpu_ack
    <3>2. /\ acks'[1] = ~acks[1] /\ acks'[2] = acks[1] /\ ~acks'[3]
          /\ ~wb_ack' /\ ~wb_cyc_d' /\ mux_ack' = acks[1]
      <4>1. ~acks'[3]
        BY <1>1, <2>2
      <4>2. acks'[1] = ~acks[1] /\ acks'[2] = acks[1]
        BY <1>1, <1>3, <2>1, <2>2, <2>3
      <4>3. ~wb_ack' /\ ~wb_cyc_d'
        BY <1>2, <3>1
      <4>4. mux_ack' = acks[1]
        BY <1>2, <2>1, <3>1 DEF HostTypes
      <4> QED BY <4>1, <4>2, <4>3, <4>4
    <3>3. slave_ack' = acks'[1]
      BY <2>1, <2>3 DEF slave_ack, o_cpu_ack
    <3>4. EdgeFirst \/ EdgeSecond
      BY <2>1, <3>1, <3>2, <3>3 DEF EdgeFirst, EdgeSecond, Second, Third, HostTypes
    <3> QED BY <1>4, <1>5, <2>1, <2>3, <3>2, <3>4 DEF HostTypes, AccessInThree
  <2>4. CASE pc \in SpiRegs
    <3>1. ~acks[1] /\ spi_cyc /\ slave_ack = wb_ack /\ wb_cyc_d = wb_ack
      BY <1>5, <2>1, <2>4 DEF AccessInThree, spi_cyc, slave_ack, o_cpu_ack, HostTypes
    <3>2. /\ ~acks'[1] /\ ~acks'[2] /\ ~acks'[3]
          /\ wb_ack' = ~wb_ack /\ wb_cyc_d' /\ mux_ack' = wb_ack
      BY <1>1, <1>2, <1>3, <1>5, <2>1, <2>2, <2>4, <3>1 DEF HostTypes
    <3>3. slave_ack' = wb_ack'
      BY <1>5, <2>1, <2>4 DEF slave_ack, o_cpu_ack
    <3>4. EdgeFirst \/ EdgeSecond
      BY <2>1, <3>1, <3>2, <3>3 DEF EdgeFirst, EdgeSecond, Second, Third, HostTypes
    <3> QED BY <1>4, <1>5, <2>1, <2>4, <3>2, <3>4 DEF HostTypes, AccessInThree
  <2> QED BY <2>3, <2>4 DEF HostTypes
<1>10. CASE Return
  <2>1. cyc /\ mux_ack /\ ~cyc' /\ adr' = adr /\ adr = pc
    BY <1>10 DEF Return, AccessInThree
  <2>2. gap' \in Nat /\ gap' > 0 /\ cyc' \in BOOLEAN
    <3>1. \A g \in Gaps : g \in Nat /\ g > 0
      BY HostLinkAssumption
    <3>2. gap' \in Gaps /\ cyc' = FALSE
      BY <1>10 DEF Return
    <3> QED BY <3>1, <3>2
  <2>3. /\ ~acks'[1] /\ ~acks'[2] /\ ~mux_ack' /\ ~wb_ack'
    BY <1>1, <1>2, <1>3, <1>5, <2>1 DEF AccessInThree, spi_cyc
  <2>4. EdgeThird
    BY <1>10, <2>1, <2>3 DEF EdgeThird, Second, Third
  <2>5. pc' \in EstuRegs \cup SpiRegs /\ adr' \in EstuRegs \cup SpiRegs
    BY <1>10, <2>1 DEF Return, NextAccess, EstuRegs, SpiRegs, HostTypes
  <2> QED BY <1>4, <2>1, <2>2, <2>3, <2>4, <2>5 DEF HostTypes, AccessInThree
<1> QED BY <1>7, <1>8, <1>9, <1>10 DEF HostEdge

-----------------------------------------------------------------------------
(* The transfer of a frame.                                                    *)

Edges == EdgeBetween \/ EdgeRequest \/ EdgeFirst \/ EdgeSecond \/ EdgeThird

(* What the last edge of an access does to the place of the firmware.          *)
LEMMA Returns ==
  ASSUME EdgeThird
  PROVE  /\ pc = "SPI_START" => pc' = "SPI_VALID"
         /\ pc = "SPI_ADDR" => pc' = "SPI_START"
         /\ pc = "SPI_VALID" => pc' = IF o_wb_spi_rdt THEN "ESTU_DATA" ELSE "SPI_VALID"
         /\ pc = "ESTU_DATA" => pc' = IF o_cpu_rdt.valid THEN "START_INFERENCE"
                                                         ELSE "ESTU_DATA"
         /\ pc = "START_INFERENCE" => pc' = "SPI_ADDR" /\ frame' = NextFrame(frame)
         /\ pc # "START_INFERENCE" => frame' = frame
         /\ answer' = IF pc = "ESTU_DATA" /\ o_cpu_rdt.valid THEN o_cpu_rdt.data
                                                             ELSE answer
  BY DEF EdgeThird, Return, NextAccess, Poll

(* The firmware goes on at the third edge only.                                *)
LEMMA Stays ==
  ASSUME Edges
  PROVE  SamePlace \/ (EdgeThird /\ Third /\ ~cyc')
  BY DEF Edges, EdgeBetween, EdgeRequest, EdgeFirst, EdgeSecond, EdgeThird

(* The transfer is started at the second edge of the access that asks for it,  *)
(* and at no other.                                                            *)
LEMMA Enables ==
  ASSUME HostTypes, SpiTypes, AccessInThree, StartPulse
  PROVE  spi_enable <=> pc = "SPI_START" /\ Second
<1>1. ASSUME spi_enable PROVE pc = "SPI_START" /\ Second
  <2>1. mm_spi_start /\ ~mm_spi_start_d
    BY <1>1 DEF spi_enable
  <2>2. adr = "SPI_START" /\ wb_cyc_d /\ cyc /\ ~mux_ack /\ pc = "SPI_START"
    BY <2>1 DEF StartPulse, Third, AccessInThree
  <2>3. wb_ack
    BY <2>2 DEF AccessInThree
  <2> QED BY <2>2, <2>3 DEF Second, slave_ack, EstuRegs
<1> QED BY <1>1 DEF StartPulse, spi_enable

(* The start bit keeps to its access.                                          *)
LEMMA StartPulseStep ==
  ASSUME HostTypes, SpiTypes, AccessInThree, StartPulse, SpiEdge, Edges
  PROVE  StartPulse'
<1>1. /\ mm_spi_start' = (adr = "SPI_START" /\ cyc)
      /\ mm_spi_start_d' = mm_spi_start /\ wb_cyc_d' = spi_cyc
  <2>1. adr # "SPI_START" => ~mm_spi_start
    BY DEF StartPulse
  <2> QED BY <2>1 DEF SpiEdge, SpiRegisters, SpiTypes, HostTypes
<1>2. ~cyc => ~mm_spi_start'
  BY <1>1
<1>3. mm_spi_start /\ cyc => pc = "SPI_START" /\ (Second \/ Third)
  BY DEF StartPulse, AccessInThree, Second, Third, slave_ack, EstuRegs
<1>4. mm_spi_start /\ ~cyc => pc = "SPI_VALID" /\ gap > 0
  BY DEF StartPulse, AccessInThree
<1>5. cyc => adr = pc
  BY DEF AccessInThree
<1>6. CASE EdgeBetween
  <2>1. ~mm_spi_start' /\ ~Second' /\ ~Third' /\ ~cyc' /\ pc' = pc
    BY <1>2, <1>6 DEF EdgeBetween, Second, Third, SamePlace
  <2> QED BY <1>1, <1>4, <1>6, <2>1 DEF StartPulse, EdgeBetween
<1>7. CASE EdgeRequest
  <2>1. ~mm_spi_start' /\ ~Second' /\ ~Third' /\ ~mm_spi_start
    BY <1>2, <1>4, <1>7 DEF EdgeRequest
  <2> QED BY <1>1, <2>1 DEF StartPulse
<1>8. CASE EdgeFirst
  <2>1. /\ ~mm_spi_start_d' /\ Second' /\ ~Third' /\ cyc' /\ pc' = pc /\ adr' = adr
        /\ adr = pc /\ cyc
    BY <1>1, <1>3, <1>5, <1>8 DEF EdgeFirst, SamePlace
  <2> QED BY <1>1, <2>1 DEF StartPulse, spi_cyc, SpiRegs
<1>9. CASE EdgeSecond
  <2>1. /\ ~Second' /\ Third' /\ cyc' /\ pc' = pc /\ adr' = adr /\ adr = pc /\ cyc
    BY <1>5, <1>9 DEF EdgeSecond, SamePlace, Second
  <2>2. pc = "SPI_START" => mm_spi_start
    BY <1>9 DEF StartPulse, EdgeSecond
  <2> QED BY <1>1, <1>3, <2>1, <2>2 DEF StartPulse, spi_cyc, SpiRegs
<1>10. CASE EdgeThird
  <2>1. /\ ~Second' /\ ~Third' /\ ~cyc' /\ adr' = adr /\ adr = pc /\ cyc /\ Third
        /\ pc = "SPI_START" => pc' = "SPI_VALID"
    BY <1>5, <1>10, Returns DEF EdgeThird, Third
  <2>2. pc = "SPI_START" => mm_spi_start
    BY <2>1 DEF StartPulse
  <2> QED BY <1>1, <1>3, <2>1, <2>2 DEF StartPulse, spi_cyc, SpiRegs
<1> QED BY <1>6, <1>7, <1>8, <1>9, <1>10 DEF Edges

(* The end of a transfer is reported once, and has been seen when the firmware *)
(* goes on.                                                                    *)
LEMMA TransferEndsStep ==
  ASSUME HostTypes, SpiTypes, AccessInThree, StartPulse, TransferEnds, Asking, Fetching,
         SpiEdge, Edges
  PROVE  SpiTypes' /\ TransferEnds'
<1>1. /\ mm_spi_start' = (IF adr = "SPI_START" THEN cyc ELSE mm_spi_start)
      /\ mm_spi_start_d' = mm_spi_start
      /\ o_wb_spi_rdt' = IF reading_spi_valid_reg THEN mm_spi_valid ELSE o_wb_spi_rdt
      /\ valid_rst_cond' = (mm_spi_valid /\ reading_spi_valid_reg)
      /\ mm_spi_valid' = (end_transaction \/ (mm_spi_valid /\ ~valid_rst_cond))
      /\ spi_rd_ack' = end_transaction
      /\ MasterIdle \/ MasterRead \/ MasterWaitAck
  BY DEF SpiEdge, SpiRegisters, SpiStatus
<1>2. /\ master' \in {"IDLE", "READ", "WAIT_ACK"} /\ to_read' \in Nat
      /\ end_transaction' \in BOOLEAN
      /\ master = "IDLE" => ~end_transaction' /\ master' = IF spi_enable THEN "READ" ELSE "IDLE"
      /\ master = "READ" => /\ ~end_transaction' /\ master' \in {"READ", "WAIT_ACK"}
      /\ master = "WAIT_ACK" => /\ end_transaction' = ~spi_rd_ack
                                /\ master' = IF spi_rd_ack THEN "IDLE" ELSE "WAIT_ACK"
  <2>1. \A t \in TransferTimes : t \in Nat
    BY HostLinkAssumption
  <2>2. master = "READ" => to_read > 0
    BY DEF Fetching
  <2>3. /\ to_read \in Nat /\ master \in {"IDLE", "READ", "WAIT_ACK"}
        /\ spi_rd_ack \in BOOLEAN /\ end_transaction \in BOOLEAN
    BY DEF SpiTypes
  <2>4. CASE MasterIdle
    BY <2>1, <2>3, <2>4 DEF MasterIdle
  <2>5. CASE MasterRead
    <3>1. ~end_transaction
      BY <2>5 DEF MasterRead, TransferEnds
    <3> QED BY <2>2, <2>3, <2>5, <3>1 DEF MasterRead
  <2>6. CASE MasterWaitAck
    BY <2>3, <2>6 DEF MasterWaitAck
  <2> QED BY <1>1, <2>4, <2>5, <2>6
<1>3. SpiTypes'
  BY <1>1, <1>2 DEF SpiTypes, HostTypes, reading_spi_valid_reg
<1>4. ASSUME pc = "SPI_VALID"
      PROVE  \/ pc' = "SPI_VALID"
             \/ pc' = "ESTU_DATA" /\ master = "IDLE" /\ valid_rst_cond /\ Third
  <2>1. CASE SamePlace
    BY <1>4, <2>1 DEF SamePlace
  <2>2. CASE EdgeThird /\ Third
    <3>1. pc' = IF o_wb_spi_rdt THEN "ESTU_DATA" ELSE "SPI_VALID"
      BY <1>4, <2>2, Returns
    <3> QED BY <1>4, <2>2, <3>1 DEF TransferEnds
  <2> QED BY <2>1, <2>2, Stays
<1>5. end_transaction' => master' = "WAIT_ACK"
  BY <1>2 DEF SpiTypes
<1>6. spi_rd_ack' => end_transaction' \/ (master' = "IDLE" /\ pc' = "SPI_VALID")
  BY <1>1, <1>2, <1>4 DEF TransferEnds, SpiTypes
<1>7. master' = "WAIT_ACK" => pc' = "SPI_VALID"
  <2>1. master = "READ" => pc' = "SPI_VALID"
    <3> SUFFICES ASSUME master = "READ" PROVE pc' = "SPI_VALID"
      OBVIOUS
    <3>1. pc = "SPI_VALID" \/ (pc = "SPI_START" /\ Third)
      BY DEF Fetching
    <3>2. Third => EdgeThird
      BY DEF Edges, EdgeBetween, EdgeRequest, EdgeFirst, EdgeSecond, Third
    <3> QED BY <1>4, <3>1, <3>2, Returns
  <2> QED BY <1>2, <1>4, <2>1 DEF TransferEnds, SpiTypes
<1>8. mm_spi_valid' => pc' = "SPI_VALID" /\ (spi_rd_ack' \/ master' = "IDLE")
  <2>1. mm_spi_valid /\ ~valid_rst_cond => pc' = "SPI_VALID" /\ pc = "SPI_VALID"
    BY <1>4 DEF TransferEnds
  <2>2. end_transaction => pc' = "SPI_VALID"
    BY <1>4 DEF TransferEnds
  <2>3. mm_spi_valid /\ ~end_transaction => master = "IDLE"
    BY DEF TransferEnds
  <2>4. pc = "SPI_VALID" => ~spi_enable
    BY Enables
  <2> QED BY <1>1, <1>2, <2>1, <2>2, <2>3, <2>4
<1>9. pc' = "SPI_VALID" /\ Third' /\ o_wb_spi_rdt' => master' = "IDLE" /\ valid_rst_cond'
  <2> SUFFICES ASSUME pc' = "SPI_VALID", Third', o_wb_spi_rdt' 
               PROVE  master' = "IDLE" /\ valid_rst_cond'
    OBVIOUS
  <2>1. EdgeSecond /\ pc = "SPI_VALID"
    BY DEF Edges, EdgeBetween, EdgeRequest, EdgeFirst, EdgeSecond, EdgeThird, SamePlace, Third
  <2>2. reading_spi_valid_reg
    BY <2>1 DEF EdgeSecond, Second, AccessInThree, reading_spi_valid_reg
  <2>3. mm_spi_valid
    BY <1>1, <2>2
  <2>4. spi_rd_ack \/ master = "IDLE"
    BY <2>3 DEF TransferEnds
  <2>5. ~spi_enable
    BY <2>1, Enables
  <2>6. master = "WAIT_ACK" \/ master = "IDLE"
    BY <2>4 DEF TransferEnds
  <2> QED BY <1>1, <1>2, <2>2, <2>3, <2>4, <2>5, <2>6
<1> QED BY <1>3, <1>5, <1>6, <1>7, <1>8, <1>9 DEF TransferEnds

-----------------------------------------------------------------------------
(* The stages of a frame, at one edge of the encoder and the accelerator.      *)

(* The types of these parts.                                                   *)
LEMMA AccelTypesStep ==
  ASSUME HostTypes, AccelTypes, EstuEdge, GlueEdge, AccelEdge
  PROVE  AccelTypes'
<1>1. /\ mm_start_inference' \in BOOLEAN /\ valid_ll' \in BOOLEAN
      /\ clr_valid_ll_d' \in BOOLEAN
  BY DEF AccelTypes, EstuEdge, clr_start_inference, estu_cyc, ValidLl, clr_valid_ll_ext
<1>2. o_cpu_rdt'.valid \in BOOLEAN
  BY DEF AccelTypes, EstuEdge
<1>3. to_encode' \in Nat /\ valid_bin' \in BOOLEAN
  <2>1. Words \in Nat
    BY HostLinkAssumption
  <2>2. valid_bin' = (to_encode > 0 /\ ~valid_bin)
    BY DEF GlueEdge, Encode
  <2>3. to_encode \in Nat /\ valid_bin \in BOOLEAN
    BY DEF AccelTypes
  <2>4. valid_bin' \in BOOLEAN /\ (valid_bin' => to_encode > 0)
    BY <2>2, <2>3
  <2>5. to_encode' = IF FrameArrives THEN Words
                     ELSE IF valid_bin' THEN to_encode - 1 ELSE to_encode
    BY DEF GlueEdge, Encode
  <2> QED BY <2>1, <2>3, <2>4, <2>5
<1>4. input_adr' \in Nat
  <2>1. PICK w \in Nat \ {0} : w = Words
    BY HostLinkAssumption
  <2>2. (input_adr + 1) % (2 * w) \in Nat
    BY <2>1 DEF AccelTypes
  <2> QED BY <2>1, <2>2 DEF AccelTypes, GlueEdge, NextInputAdr
<1>5. start_inference' \in BOOLEAN /\ start_inf_d' \in BOOLEAN /\ start_inf_dd' \in BOOLEAN
  BY DEF AccelTypes, GlueEdge, input_loaded
<1>6. /\ state' \in {"IDLE", "RUN", "VALID_OP"} /\ to_run' \in Nat
      /\ valid_last_layer' \in BOOLEAN
  <2>1. \A t \in InferenceTimes : t \in Nat
    BY HostLinkAssumption
  <2>2. CASE Idle
    BY <2>1, <2>2 DEF Idle, AccelTypes
  <2>3. CASE Infer
    BY <2>3 DEF Infer, AccelTypes
  <2>4. CASE LastLayerDone
    BY <2>4 DEF LastLayerDone, AccelTypes
  <2>5. CASE ValidOp
    BY <2>5 DEF ValidOp, AccelTypes
  <2> QED BY <2>2, <2>3, <2>4, <2>5 DEF AccelEdge
<1> QED BY <1>1, <1>2, <1>3, <1>4, <1>5, <1>6 DEF AccelTypes

(* Nothing moves until a frame arrives; then all its words are to be encoded.  *)
LEMMA RestStep ==
  ASSUME AccelTypes, AtRest, EstuEdge, GlueEdge, AccelEdge
  PROVE  /\ ~FrameArrives => AtRest'
         /\ FrameArrives /\ mm_start_inference => Encoding' /\ sample' = read_addr_reg
         /\ mm_start_inference => mm_start_inference'
         /\ estu_cyc("START_INFERENCE") => mm_start_inference'
<1>1. Words \in Nat /\ Words > 0
  BY HostLinkAssumption
<1>2. /\ state' = "IDLE" /\ ~valid_last_layer'
  BY DEF AtRest, AccelEdge, Idle, Infer, LastLayerDone, ValidOp
<1>3. /\ ~start_inference' /\ ~start_inf_d' /\ ~start_inf_dd' /\ input_adr' = 0
      /\ ~valid_bin' /\ to_encode' = IF FrameArrives THEN Words ELSE 0
      /\ FrameArrives => sample' = read_addr_reg
  BY DEF AccelTypes, AtRest, GlueEdge, Encode, NextInputAdr
<1>4. estu_cyc("START_INFERENCE") => mm_start_inference'
  BY DEF AtRest, EstuEdge, clr_start_inference
<1>5. ~valid_ll'
  BY DEF AtRest, EstuEdge, ValidLl
<1>6. mm_start_inference => mm_start_inference'
  BY DEF AtRest, EstuEdge, clr_start_inference
<1> QED BY <1>1, <1>2, <1>3, <1>4, <1>5, <1>6 DEF AtRest, Encoding

(* The words are encoded in turn; the last one starts the inference.           *)
LEMMA EncodingStep ==
  ASSUME AccelTypes, Encoding, ~FrameArrives, EstuEdge, GlueEdge, AccelEdge
  PROVE  (Encoding' \/ Starting') /\ sample' = sample
<1>1. Words \in Nat /\ Words > 0 /\ input_adr \in Nat /\ to_encode \in Nat
  BY HostLinkAssumption DEF AccelTypes
<1>2. state' = "IDLE" /\ ~valid_last_layer'
  BY DEF Encoding, AccelEdge, Idle, Infer, LastLayerDone, ValidOp
<1>3. mm_start_inference' /\ ~valid_ll' /\ ~start_inf_d' /\ ~start_inf_dd'
  BY DEF Encoding, EstuEdge, ValidLl, clr_start_inference, GlueEdge
<1>4. sample' = sample
  BY DEF GlueEdge, Encode
<1>5. CASE valid_bin
  <2>1. ~valid_bin' /\ to_encode' = to_encode
    BY <1>1, <1>5 DEF GlueEdge, Encode
  <2>2. input_adr + 1 \in 1 .. Words /\ input_adr + 1 + to_encode = Words
    BY <1>1, <1>5 DEF Encoding
  <2>3. input_adr' = input_adr + 1
    <3>1. (input_adr + 1) % (2 * Words) = input_adr + 1
      BY <1>1, <2>2
    <3> QED BY <1>5, <3>1 DEF GlueEdge, NextInputAdr, Encoding
  <2>4. start_inference' = (to_encode = 0)
    BY <1>1, <1>5, <2>2 DEF GlueEdge, input_loaded, Encoding
  <2>5. CASE to_encode = 0
    BY <1>2, <1>3, <1>4, <2>1, <2>4, <2>5 DEF Starting, Encoded
  <2>6. CASE to_encode > 0
    <3>1. input_adr' + to_encode' + (IF valid_bin' THEN 1 ELSE 0) = Words
      BY <1>1, <2>1, <2>2, <2>3
    <3>2. to_encode' > 0 /\ ~start_inference'
      <4>1. to_encode # 0
        BY <1>1, <2>6
      <4>2. ~start_inference'
        BY <2>4, <4>1
      <4> QED BY <2>1, <2>6, <4>2
    <3> QED BY <1>2, <1>3, <1>4, <3>1, <3>2 DEF Encoding
  <2> QED BY <1>1, <1>4, <2>5, <2>6
<1>6. CASE ~valid_bin
  <2>1. to_encode > 0 /\ input_adr + to_encode = Words
    BY <1>1, <1>6 DEF Encoding
  <2>2. valid_bin' /\ to_encode' = to_encode - 1 /\ input_adr' = input_adr /\ ~start_inference'
    BY <1>6, <2>1 DEF GlueEdge, Encode, NextInputAdr, Encoding
  <2> QED BY <1>1, <1>2, <1>3, <1>4, <2>1, <2>2 DEF Encoding
<1> QED BY <1>5, <1>6

(* The start pulse reaches the accelerator, which takes the frame.             *)
LEMMA StartingStep ==
  ASSUME AccelTypes, Starting, sample = frame, frame' = frame, ~FrameArrives,
         EstuEdge, GlueEdge, AccelEdge
  PROVE  (Starting' \/ Running') /\ sample' = sample
<1>1. ~valid_bin' /\ to_encode' = 0 /\ sample' = sample /\ ~start_inference'
  BY DEF AccelTypes, Starting, Encoded, GlueEdge, Encode
<1>2. ~valid_last_layer' /\ ~valid_ll'
  BY DEF Starting, EstuEdge, ValidLl, AccelEdge, Idle, Infer, LastLayerDone, ValidOp
<1>3. CASE ~start_inf_dd
  <2>1. state' = "IDLE"
    BY <1>3 DEF Starting, AccelEdge, Idle, Infer, LastLayerDone, ValidOp
  <2>2. \/ start_inf_d' /\ ~start_inf_dd'
        \/ ~start_inf_d' /\ start_inf_dd'
    BY <1>3 DEF Starting, GlueEdge
  <2> QED BY <1>1, <1>2, <2>1, <2>2 DEF Starting, Encoded
<1>4. CASE start_inf_dd
  <2>1. ~start_inf_d' /\ ~start_inf_dd'
    BY <1>4 DEF Starting, GlueEdge
  <2>2. state' = "RUN" /\ fed' = sample /\ to_run' \in InferenceTimes
    BY <1>4 DEF Starting, AccelEdge, Idle, Infer, LastLayerDone, ValidOp
  <2>3. to_run' > 0
    <3>1. \A t \in InferenceTimes : t > 0
      BY HostLinkAssumption
    <3> QED BY <2>2, <3>1
  <2> QED BY <1>1, <1>2, <2>1, <2>2, <2>3 DEF Running, Started, Encoded
<1> QED BY <1>3, <1>4

(* An inference that was started is not disturbed.                             *)
LEMMA StartedStep ==
  ASSUME AccelTypes, Started, ~FrameArrives, GlueEdge
  PROVE  Started' /\ sample' = sample
BY DEF AccelTypes, Started, Encoded, GlueEdge, Encode

(* The inference of the frame ends with the result of the frame.               *)
LEMMA RunningStep ==
  ASSUME AccelTypes, Running, sample = frame, frame' = frame, ~FrameArrives,
         EstuEdge, GlueEdge, AccelEdge
  PROVE  (Running' \/ Delivering') /\ sample' = sample
<1>1. Started' /\ sample' = sample
  BY StartedStep DEF Running
<1>2. ~valid_ll'
  BY DEF Running, EstuEdge, ValidLl
<1>3. Infer /\ to_run \in Nat /\ to_run > 0
  BY DEF Running, AccelEdge, Idle, Infer, LastLayerDone, ValidOp, AccelTypes
<1>4. /\ state' = "RUN" /\ to_run' = to_run - 1 /\ fed' = frame
      /\ data_last_layer' = IF to_run > 1 THEN Partial ELSE frame
      /\ valid_last_layer' <=> to_run = 1
  BY <1>3 DEF Running, Infer
<1>5. CASE to_run = 1
  BY <1>1, <1>2, <1>4, <1>5 DEF Delivering
<1>6. CASE to_run > 1
  <2>1. to_run' > 0 /\ ~valid_last_layer'
    BY <1>3, <1>4, <1>6
  <2> QED BY <1>1, <1>2, <1>4, <2>1 DEF Running
<1> QED BY <1>1, <1>3, <1>5, <1>6

(* The result is flagged at the next edge, unless the flag is being cleared.   *)
LEMMA DeliveringStep ==
  ASSUME AccelTypes, Delivering, ~clr_valid_ll_d, frame' = frame, ~FrameArrives,
         EstuEdge, GlueEdge, AccelEdge
  PROVE  Flagged' /\ sample' = sample
<1>1. Started' /\ sample' = sample
  BY StartedStep DEF Delivering
<1>2. valid_ll' /\ input_adr' = 0
  BY DEF Delivering, EstuEdge, ValidLl, GlueEdge, NextInputAdr
<1>3. LastLayerDone
  BY DEF Delivering, AccelEdge, Idle, Infer, LastLayerDone, ValidOp
<1> QED BY <1>1, <1>2, <1>3 DEF Delivering, Flagged, LastLayerDone

(* A flagged result stays until it is read; then everything rests.             *)
LEMMA FlaggedStep ==
  ASSUME AccelTypes, Flagged, frame' = frame, ~FrameArrives,
         EstuEdge, GlueEdge, AccelEdge
  PROVE  /\ sample' = sample /\ state' = "IDLE"
         /\ ~clr_valid_ll_d => (valid_ll' <=> valid_ll)
         /\ clr_valid_ll_d => ~valid_ll'
         /\ valid_ll' \/ Answering' => Flagged'
         /\ ~valid_ll' => AtRest'
<1>1. Started' /\ sample' = sample
  BY StartedStep DEF Flagged
<1>2. input_adr' = 0
  BY DEF Flagged, Started, Encoded, GlueEdge, NextInputAdr
<1>3. state' = "IDLE" /\ data_last_layer' = data_last_layer /\ ~valid_last_layer'
  <2>1. CASE state = "IDLE"
    <3>1. Idle /\ ~start_inf_dd
      BY <2>1 DEF Flagged, Started, AccelEdge, Idle, Infer, LastLayerDone, ValidOp
    <3> QED BY <2>1, <3>1 DEF Idle
  <2>2. CASE state = "VALID_OP"
    <3>1. ValidOp
      BY <2>2 DEF Flagged, AccelEdge, Idle, Infer, LastLayerDone, ValidOp
    <3> QED BY <3>1 DEF ValidOp, Flagged
  <2> QED BY <2>1, <2>2 DEF Flagged
<1>4. /\ ~clr_valid_ll_d => (valid_ll' <=> valid_ll)
      /\ clr_valid_ll_d => ~valid_ll'
  BY DEF Flagged, EstuEdge, ValidLl
<1> QED BY <1>1, <1>2, <1>3, <1>4 DEF Flagged, AtRest, Started, Encoded

-----------------------------------------------------------------------------
(* The firmware and the stages together.                                       *)

Stages == Encoding \/ Starting \/ Running \/ Delivering \/ Flagged

(* A frame arrives at the last edge of a transfer.                             *)
LEMMA Arrives ==
  ASSUME SpiTypes, SpiEdge
  PROVE  /\ FrameArrives => master = "READ" /\ master' = "WAIT_ACK"
         /\ master = "READ" /\ ~FrameArrives =>
                master' = "READ" /\ read_addr_reg' = read_addr_reg
         /\ master = "READ" /\ ~FrameArrives /\ to_read > 0 => to_read' > 0
<1>1. ASSUME master = "READ" PROVE MasterRead /\ to_read \in Nat
  BY <1>1 DEF SpiEdge, MasterIdle, MasterRead, MasterWaitAck, SpiTypes
<1> QED BY <1>1 DEF MasterRead, FrameArrives

(* The flag of the result at one edge.                                         *)
LEMMA FlagStep ==
  ASSUME HostTypes, AccelTypes, AccessInThree, Answered, FlagOnce, Asking, Fetching,
         EstuEdge, Edges
  PROVE  /\ clr_valid_ll_d' => /\ pc = "ESTU_DATA" /\ pc' = "ESTU_DATA" /\ valid_ll
                               /\ \/ EdgeFirst /\ ~clr_valid_ll_d
                                  \/ EdgeSecond /\ o_cpu_rdt'.valid
         /\ Answering' => /\ EdgeSecond /\ pc = "ESTU_DATA" /\ valid_ll /\ Flagged
                          /\ clr_valid_ll_d' /\ o_cpu_rdt'.data = frame
         /\ EdgeFirst /\ pc = "ESTU_DATA" /\ ~valid_ll /\ ~start_inf_dd => ~o_cpu_rdt'.valid
         /\ EdgeSecond /\ pc = "ESTU_DATA" /\ valid_ll => Answering'
<1>1. /\ clr_valid_ll_d' = (estu_cyc("ESTU_DATA") /\ valid_ll /\ ~acks[2])
      /\ ~start_inf_dd /\ estu_cyc("ESTU_DATA") =>
             o_cpu_rdt'.valid = valid_ll /\ o_cpu_rdt'.data = data_last_layer
      /\ start_inf_dd => o_cpu_rdt' = o_cpu_rdt
  BY DEF EstuEdge, clr_valid_ll_ext, clr_start_inference
<1>2. estu_cyc("ESTU_DATA") <=> cyc /\ pc = "ESTU_DATA"
  BY DEF estu_cyc, AccessInThree
<1>3. valid_ll => Flagged
  <2>1. valid_ll => pc \in {"SPI_VALID", "ESTU_DATA"} /\ master # "READ"
    BY DEF Asking, Fetching, AtRest, HostTypes, EstuRegs, SpiRegs
  <2> QED BY <2>1 DEF Answered, Encoding, Starting, Running, Delivering
<1>4. valid_ll => ~start_inf_dd
  BY <1>3 DEF Flagged, Started
<1>5. ASSUME clr_valid_ll_d'
      PROVE  /\ pc = "ESTU_DATA" /\ pc' = "ESTU_DATA" /\ valid_ll
             /\ \/ EdgeFirst /\ ~clr_valid_ll_d
                \/ EdgeSecond /\ o_cpu_rdt'.valid
  <2>1. cyc /\ pc = "ESTU_DATA" /\ valid_ll /\ ~acks[2]
    BY <1>1, <1>2, <1>5
  <2>2. ~Third
    BY <2>1 DEF AccessInThree, Third, EstuRegs
  <2>3. EdgeFirst \/ EdgeSecond
    BY <2>1, <2>2 DEF Edges, EdgeBetween, EdgeRequest, EdgeThird
  <2>4. pc' = pc
    BY <2>3 DEF EdgeFirst, EdgeSecond, SamePlace
  <2>5. EdgeFirst => ~clr_valid_ll_d
    BY DEF FlagOnce, EdgeFirst, Answering
  <2>6. o_cpu_rdt'.valid
    BY <1>1, <1>2, <1>4, <2>1
  <2> QED BY <2>1, <2>3, <2>4, <2>5, <2>6
<1>6. ASSUME Answering'
      PROVE  /\ EdgeSecond /\ pc = "ESTU_DATA" /\ valid_ll /\ Flagged
             /\ clr_valid_ll_d' /\ o_cpu_rdt'.data = frame
  <2>1. EdgeSecond
    BY <1>6 DEF Answering, Third, Edges, EdgeBetween, EdgeRequest, EdgeFirst, EdgeThird
  <2>2. pc = "ESTU_DATA" /\ Second /\ cyc /\ ~Third
    BY <1>6, <2>1 DEF Answering, EdgeSecond, SamePlace, Second
  <2>3. o_cpu_rdt'.valid
    BY <1>6 DEF Answering
  <2>4. ~start_inf_dd
    BY <1>1, <2>2, <2>3 DEF FlagOnce
  <2>5. valid_ll /\ Flagged
    BY <1>1, <1>2, <1>3, <2>2, <2>3, <2>4
  <2>6. ~acks[2]
    BY <2>2 DEF AccessInThree, Third
  <2>7. o_cpu_rdt'.data = frame
    BY <1>1, <1>2, <2>2, <2>4, <2>5 DEF Flagged
  <2> QED BY <1>1, <1>2, <2>1, <2>2, <2>5, <2>6, <2>7
<1>7. EdgeFirst /\ pc = "ESTU_DATA" /\ ~valid_ll /\ ~start_inf_dd => ~o_cpu_rdt'.valid
  BY <1>1, <1>2 DEF EdgeFirst
<1>8. EdgeSecond /\ pc = "ESTU_DATA" /\ valid_ll => Answering'
  BY <1>1, <1>2, <1>4 DEF EdgeSecond, Second, SamePlace, Answering
<1> QED BY <1>5, <1>6, <1>7, <1>8

(* A frame in one of the stages stays in one, until its result is read.        *)
LEMMA StageStep ==
  ASSUME SpiTypes, AccelTypes, FlagOnce, Stages, sample = frame, frame' = frame,
         master # "READ", EstuEdge, SpiEdge, GlueEdge, AccelEdge,
         Flagged => valid_ll' \/ Answering'
  PROVE  Stages' /\ sample' = frame'
<1>1. ~FrameArrives
  BY DEF FrameArrives
<1>2. CASE Encoding
  BY <1>1, <1>2, EncodingStep DEF Stages
<1>3. CASE Starting
  BY <1>1, <1>3, StartingStep DEF Stages
<1>4. CASE Running
  BY <1>1, <1>4, RunningStep DEF Stages
<1>5. CASE Delivering
  <2>1. ~clr_valid_ll_d
    BY <1>5 DEF FlagOnce, Delivering, Flagged
  <2> QED BY <1>1, <1>5, <2>1, DeliveringStep DEF Stages
<1>6. CASE Flagged
  BY <1>1, <1>6, FlaggedStep DEF Stages
<1> QED BY <1>2, <1>3, <1>4, <1>5, <1>6 DEF Stages

(* The whole invariant but the types and the handshakes.                       *)
Place == Asking /\ Fetching /\ Answered /\ FlagOnce /\ OneAsked

Control == /\ HostTypes /\ SpiTypes /\ AccelTypes
           /\ AccessInThree /\ StartPulse /\ TransferEnds

(* The flag is cleared once.                                                   *)
LEMMA FlagOnceStep ==
  ASSUME Control, Place, EstuEdge, SpiEdge, GlueEdge, AccelEdge, Edges
  PROVE  FlagOnce'
<1> USE DEF Control, Place
<1>1. /\ clr_valid_ll_d' => /\ pc = "ESTU_DATA" /\ pc' = "ESTU_DATA" /\ valid_ll
                            /\ \/ EdgeFirst /\ ~clr_valid_ll_d
                               \/ EdgeSecond /\ o_cpu_rdt'.valid
      /\ Answering' => /\ EdgeSecond /\ pc = "ESTU_DATA" /\ valid_ll /\ Flagged
                       /\ clr_valid_ll_d' /\ o_cpu_rdt'.data = frame
      /\ EdgeFirst /\ pc = "ESTU_DATA" /\ ~valid_ll /\ ~start_inf_dd => ~o_cpu_rdt'.valid
  BY FlagStep
<1>2. pc = "ESTU_DATA" => ~FrameArrives /\ Stages /\ (valid_ll => Flagged)
  BY DEF Answered, FrameArrives, Stages, Encoding, Starting, Running, Delivering
<1>3. EdgeFirst \/ EdgeSecond => frame' = frame
  BY DEF EdgeFirst, EdgeSecond, SamePlace
<1>4. pc = "ESTU_DATA" /\ valid_ll /\ (EdgeFirst \/ EdgeSecond) =>
          /\ state' = "IDLE" /\ (Answering' => Flagged')
          /\ ~clr_valid_ll_d => valid_ll'
  BY <1>2, <1>3, FlaggedStep
<1>5. Answering' => clr_valid_ll_d' /\ state' = "IDLE" /\ Flagged' /\ o_cpu_rdt'.data = frame'
  BY <1>1, <1>3, <1>4
<1>6. clr_valid_ll_d' => /\ pc' = "ESTU_DATA"
                         /\ (Second' /\ valid_ll') \/ Answering'
  BY <1>1, <1>4 DEF EdgeFirst, EdgeSecond, Answering
<1>7. ASSUME pc' = "ESTU_DATA", Second', start_inf_dd' PROVE ~o_cpu_rdt'.valid
  <2>1. EdgeFirst /\ pc = "ESTU_DATA"
    BY <1>7 DEF Edges, EdgeBetween, EdgeRequest, EdgeFirst, EdgeSecond, EdgeThird, SamePlace,
                Second
  <2>2. start_inf_d
    BY <1>7 DEF GlueEdge
  <2>3. ~valid_ll /\ ~start_inf_dd
    BY <1>2, <2>1, <2>2 DEF Stages, Encoding, Starting, Running, Delivering, Flagged, Started
  <2> QED BY <1>1, <2>1, <2>3
<1> QED BY <1>5, <1>6, <1>7 DEF FlagOnce

(* The master at an edge of which the access is not the one that starts it.    *)
LEMMA MasterStays ==
  ASSUME Control, SpiEdge, master = "IDLE"
  PROVE  /\ ~(pc = "SPI_START" /\ Second) => master' = "IDLE"
         /\ pc = "SPI_START" /\ Second =>
                master' = "READ" /\ read_addr_reg' = mm_spi_adr /\ to_read' > 0
<1>1. spi_enable <=> pc = "SPI_START" /\ Second
  BY Enables DEF Control
<1>2. MasterIdle
  BY DEF SpiEdge, MasterIdle, MasterRead, MasterWaitAck
<1>3. \A t \in TransferTimes : t > 0
  BY HostLinkAssumption
<1> QED BY <1>1, <1>2, <1>3 DEF MasterIdle

(* While the firmware prepares a frame.                                        *)
LEMMA AskingStep ==
  ASSUME Control, Place, EstuEdge, SpiEdge, GlueEdge, AccelEdge, Edges,
         pc \in {"START_INFERENCE", "SPI_ADDR", "SPI_START"}, ~(pc = "SPI_START" /\ Third)
  PROVE  Asking' /\ Fetching' /\ Answered' /\ OneAsked'
<1>1. AtRest /\ master = "IDLE" /\ ~FrameArrives
  BY DEF Place, Asking, FrameArrives
<1>2. /\ AtRest'
      /\ mm_start_inference => mm_start_inference'
      /\ cyc /\ pc = "START_INFERENCE" => mm_start_inference'
  BY <1>1, RestStep DEF Control, AccessInThree, estu_cyc
<1>4. Frames \in Nat /\ Frames > 1
  BY HostLinkAssumption
<1>5. \A f \in Tags : NextFrame(f) \in Tags
  BY <1>4 DEF Tags, NextFrame
<1>6. mm_spi_adr' = IF cyc /\ pc = "SPI_ADDR" THEN frame ELSE mm_spi_adr
  BY DEF SpiEdge, SpiRegisters, spi_cyc, SpiRegs, Control, AccessInThree
<1>7. Second' \/ Third' => cyc
  BY DEF Edges, EdgeBetween, EdgeRequest, EdgeFirst, EdgeSecond, EdgeThird, Second, Third
<1>8. CASE pc = "START_INFERENCE"
  <2>1. master' = "IDLE"
    BY <1>1, <1>8, MasterStays
  <2>2. CASE SamePlace
    BY <1>2, <1>7, <1>8, <2>1, <2>2
       DEF SamePlace, Asking, Fetching, Answered, OneAsked, Place
  <2>3. CASE EdgeThird /\ Third /\ ~cyc'
    <3>1. /\ pc' = "SPI_ADDR" /\ frame' = NextFrame(frame) /\ answer' = answer
          /\ ~Second' /\ ~Third'
      BY <1>8, <2>3, Returns DEF EdgeThird
    <3>2. cyc
      BY <2>3 DEF Third
    <3> QED BY <1>2, <1>5, <1>8, <2>1, <3>1, <3>2
            DEF Asking, Fetching, Answered, OneAsked, Place
  <2> QED BY <2>2, <2>3, Stays
<1>9. CASE pc = "SPI_ADDR"
  <2>1. master' = "IDLE" /\ mm_start_inference'
    BY <1>1, <1>2, <1>9, MasterStays DEF Place, Asking
  <2>2. CASE SamePlace
    BY <1>2, <1>6, <1>7, <1>9, <2>1, <2>2
       DEF SamePlace, Asking, Fetching, Answered, OneAsked, Place
  <2>3. CASE EdgeThird /\ Third /\ ~cyc'
    <3>1. /\ pc' = "SPI_START" /\ frame' = frame /\ answer' = answer /\ ~Second' /\ ~Third'
      BY <1>9, <2>3, Returns DEF EdgeThird
    <3>2. cyc
      BY <2>3 DEF Third
    <3> QED BY <1>2, <1>6, <1>9, <2>1, <3>1, <3>2
            DEF Asking, Fetching, Answered, OneAsked, Place
  <2> QED BY <2>2, <2>3, Stays
<1>10. CASE pc = "SPI_START"
  <2>1. SamePlace
    BY <1>10, Stays
  <2>2. mm_start_inference' /\ mm_spi_adr' = frame /\ mm_spi_adr = frame
    BY <1>2, <1>6, <1>10 DEF Place, Asking
  <2>3. Third' <=> Second
    BY <1>10 DEF Edges, EdgeBetween, EdgeRequest, EdgeFirst, EdgeSecond, EdgeThird, Second,
                 Third
  <2>4. /\ ~Second => master' = "IDLE"
        /\ Second => master' = "READ" /\ read_addr_reg' = frame /\ to_read' > 0
    BY <1>1, <1>10, <2>2, MasterStays
  <2> QED BY <1>2, <1>10, <2>1, <2>2, <2>3, <2>4
          DEF SamePlace, Asking, Fetching, Answered, OneAsked, Place
<1> QED BY <1>8, <1>9, <1>10

(* While the frame is being fetched.                                           *)
LEMMA FetchingStep ==
  ASSUME Control, Place, EstuEdge, SpiEdge, GlueEdge, AccelEdge, Edges, master = "READ"
  PROVE  Asking' /\ Fetching' /\ Answered' /\ OneAsked'
<1>1. /\ pc = "SPI_VALID" \/ (pc = "SPI_START" /\ Third)
      /\ AtRest /\ mm_start_inference /\ read_addr_reg = frame /\ to_read > 0
  BY DEF Place, Fetching
<1>2. pc' = "SPI_VALID" /\ frame' = frame /\ answer' = answer
  <2>1. CASE SamePlace
    <3>1. ~Third \/ EdgeThird
      BY DEF Edges, EdgeBetween, EdgeRequest, EdgeFirst, EdgeSecond, Third
    <3>2. pc = "SPI_START" => pc' = "SPI_VALID"
      BY <1>1, <3>1, Returns
    <3> QED BY <1>1, <2>1, <3>2 DEF SamePlace
  <2>2. CASE EdgeThird /\ Third
    <3>1. pc = "SPI_VALID" => ~o_wb_spi_rdt
      BY <2>2 DEF Control, TransferEnds
    <3> QED BY <1>1, <2>2, <3>1, Returns
  <2> QED BY <2>1, <2>2, Stays
<1>3. OneAsked'
  BY <1>1, <1>2 DEF Place, OneAsked
<1>4. CASE ~FrameArrives
  <2>1. AtRest' /\ mm_start_inference'
    BY <1>1, <1>4, RestStep DEF Control
  <2>2. master' = "READ" /\ read_addr_reg' = frame' /\ to_read' > 0
    BY <1>1, <1>2, <1>4, Arrives DEF Control
  <2> QED BY <1>2, <1>3, <2>1, <2>2 DEF Asking, Fetching, Answered
<1>5. CASE FrameArrives
  <2>1. Encoding' /\ sample' = frame'
    BY <1>1, <1>2, <1>5, RestStep DEF Control
  <2>2. master' = "WAIT_ACK"
    BY <1>5, Arrives DEF Control
  <2> QED BY <1>2, <1>3, <2>1, <2>2 DEF Asking, Fetching, Answered
<1> QED BY <1>4, <1>5

(* While the firmware waits for the end of the transfer, which has come, and   *)
(* for the result.                                                             *)
LEMMA AnsweredStep ==
  ASSUME Control, Place, EstuEdge, SpiEdge, GlueEdge, AccelEdge, Edges,
         pc \in {"SPI_VALID", "ESTU_DATA"}, master # "READ"
  PROVE  Asking' /\ Fetching' /\ Answered' /\ OneAsked'
<1>1. Stages /\ sample = frame /\ ~FrameArrives
  BY DEF Place, Answered, Stages, FrameArrives
<1>2. master' # "READ" /\ (master = "IDLE" => master' = "IDLE")
  <2>1. master = "IDLE" => master' = "IDLE"
    BY MasterStays
  <2>2. master = "WAIT_ACK" => master' # "READ"
    BY DEF SpiEdge, MasterIdle, MasterRead, MasterWaitAck
  <2> QED BY <2>1, <2>2 DEF Control, SpiTypes
<1>3. Fetching'
  BY <1>2 DEF Fetching
<1>4. clr_valid_ll_d => /\ pc = "ESTU_DATA"
                        /\ (Second /\ valid_ll) \/ Answering
  BY DEF Place, FlagOnce
<1>5. Flagged /\ ~clr_valid_ll_d /\ ~Answering /\ frame' = frame => valid_ll'
  <2>1. Flagged /\ ~Answering => valid_ll
    BY DEF Flagged
  <2> QED BY <1>1, <2>1, FlaggedStep DEF Control
<1>6. ASSUME pc' \in {"SPI_VALID", "ESTU_DATA"}, pc' = "ESTU_DATA" => master = "IDLE",
             frame' = frame, answer' = answer, Flagged => valid_ll' \/ Answering'
      PROVE  Asking' /\ Answered' /\ OneAsked'
  <2>1. Stages' /\ sample' = frame'
    BY <1>1, <1>6, StageStep DEF Control, Place
  <2>2. pc \notin {"START_INFERENCE"} /\ pc' \notin {"START_INFERENCE"}
    BY <1>6
  <2> QED BY <1>2, <1>6, <2>1, <2>2 DEF Asking, Answered, OneAsked, Place, Stages
<1>7. CASE ~EdgeThird
  <2>1. SamePlace /\ ~Third
    BY <1>7, Stays DEF Edges, EdgeBetween, EdgeRequest, EdgeFirst, EdgeSecond, Third
  <2>2. ~Answering
    BY <2>1 DEF Answering
  <2>3. pc = "ESTU_DATA" /\ Second /\ valid_ll => Answering'
    <3>1. Second => EdgeSecond
      BY <1>7 DEF Edges, EdgeBetween, EdgeRequest, EdgeFirst, Second
    <3> QED BY <3>1, FlagStep DEF Control, Place
  <2>4. Flagged => valid_ll' \/ Answering'
    BY <1>4, <1>5, <2>1, <2>2, <2>3 DEF SamePlace
  <2>5. pc = "ESTU_DATA" => master = "IDLE"
    BY DEF Place, Answered
  <2> QED BY <1>3, <1>6, <2>1, <2>4, <2>5 DEF SamePlace
<1>8. CASE EdgeThird /\ ~Answering
  <2>1. Third /\ ~Second /\ ~clr_valid_ll_d
    BY <1>4, <1>8 DEF EdgeThird
  <2>2. /\ pc = "SPI_VALID" => pc' = IF o_wb_spi_rdt THEN "ESTU_DATA" ELSE "SPI_VALID"
        /\ pc = "ESTU_DATA" => pc' = "ESTU_DATA"
        /\ frame' = frame /\ answer' = answer
    BY <1>8, <2>1, Returns DEF Answering
  <2>3. pc = "ESTU_DATA" => master = "IDLE"
    BY DEF Place, Answered
  <2>4. pc = "SPI_VALID" /\ o_wb_spi_rdt => master = "IDLE"
    BY <2>1 DEF Control, TransferEnds
  <2>5. Flagged => valid_ll'
    BY <1>5, <1>8, <2>1, <2>2
  <2> QED BY <1>3, <1>6, <2>2, <2>3, <2>4, <2>5
<1>9. CASE EdgeThird /\ Answering
  <2>1. Flagged /\ clr_valid_ll_d /\ o_cpu_rdt.data = frame /\ pc = "ESTU_DATA"
        /\ o_cpu_rdt.valid /\ master = "IDLE"
    BY <1>9 DEF Place, FlagOnce, Answering, Answered
  <2>2. /\ pc' = "START_INFERENCE" /\ frame' = frame /\ answer' = frame
        /\ ~Second' /\ ~Third'
    BY <1>9, <2>1, Returns DEF EdgeThird
  <2>3. AtRest'
    BY <1>1, <2>1, <2>2, FlaggedStep DEF Control
  <2>4. OneAsked'
    BY <2>2 DEF Place, OneAsked
  <2> QED BY <1>2, <1>3, <2>1, <2>2, <2>3, <2>4 DEF Asking, Answered
<1> QED BY <1>7, <1>8, <1>9
-----------------------------------------------------------------------------
(* The loop begins at rest, with frame 0 answered.                             *)
LEMMA InitIInv == Init => IInv
<1> SUFFICES ASSUME Init PROVE IInv
  OBVIOUS
<1>1. Frames \in Nat /\ Frames > 1 /\ \A g \in Gaps : g \in Nat
  BY HostLinkAssumption
<1>2. ~Second /\ ~Third
  BY DEF Init, Second, Third
<1>3. HostTypes /\ SpiTypes /\ AccelTypes
  BY <1>1 DEF Init, HostTypes, SpiTypes, AccelTypes, EstuRegs, SpiRegs
<1>4. AccessInThree /\ StartPulse /\ TransferEnds
  BY <1>2 DEF Init, AccessInThree, StartPulse, TransferEnds
<1>5. AtRest
  BY DEF Init, AtRest
<1>6. Asking /\ Fetching /\ Answered
  BY <1>2, <1>5 DEF Init, Asking, Fetching, Answered
<1>7. FlagOnce
  BY <1>2 DEF Init, FlagOnce, Answering
<1>8. OneAsked
  BY <1>1 DEF Init, OneAsked, Tags
<1> QED BY <1>3, <1>4, <1>6, <1>7, <1>8 DEF IInv

(* Every edge of the clock keeps the invariant.                                *)
LEMMA NextIInv == IInv /\ Next => IInv'
<1> SUFFICES ASSUME IInv, Next PROVE IInv'
  OBVIOUS
<1>1. Control /\ Place
  BY DEF IInv, Control, Place
<1>2. HostEdge /\ EstuEdge /\ SpiEdge /\ GlueEdge /\ AccelEdge
  BY DEF Next
<1>3. HostTypes' /\ AccessInThree' /\ Edges
  BY <1>1, <1>2, Accesses DEF Control, Edges
<1>4. SpiTypes' /\ TransferEnds' /\ StartPulse'
  BY <1>1, <1>2, <1>3, StartPulseStep, TransferEndsStep DEF Control, Place
<1>5. AccelTypes'
  BY <1>1, <1>2, AccelTypesStep DEF Control
<1>6. FlagOnce'
  BY <1>1, <1>2, <1>3, FlagOnceStep
<1>7. Asking' /\ Fetching' /\ Answered' /\ OneAsked'
  <2>1. CASE master = "READ"
    BY <1>1, <1>2, <1>3, <2>1, FetchingStep
  <2>2. CASE master # "READ" /\ pc \in {"SPI_VALID", "ESTU_DATA"}
    BY <1>1, <1>2, <1>3, <2>2, AnsweredStep
  <2>3. CASE master # "READ" /\ pc \notin {"SPI_VALID", "ESTU_DATA"}
    <3>1. pc \in {"START_INFERENCE", "SPI_ADDR", "SPI_START"}
      BY <1>1, <2>3 DEF Control, HostTypes, EstuRegs, SpiRegs
    <3>2. ~(pc = "SPI_START" /\ Third)
      BY <1>1, <2>3 DEF Place, Asking
    <3> QED BY <1>1, <1>2, <1>3, <3>1, <3>2, AskingStep
  <2> QED BY <2>1, <2>2, <2>3
<1> QED BY <1>3, <1>4, <1>5, <1>6, <1>7 DEF IInv

(* The invariant is inductive.                                                 *)
THEOREM Inductive == Spec => []IInv
<1>1. IInv /\ UNCHANGED vars => IInv'
  <2> SUFFICES ASSUME IInv, UNCHANGED vars PROVE IInv'
    OBVIOUS
  <2>1. /\ pc' = pc /\ frame' = frame /\ answer' = answer /\ gap' = gap /\ adr' = adr
        /\ cyc' = cyc /\ mux_ack' = mux_ack /\ acks' = acks
    BY DEF vars, host, estu
  <2>2. /\ mm_start_inference' = mm_start_inference /\ valid_ll' = valid_ll
        /\ clr_valid_ll_d' = clr_valid_ll_d /\ o_cpu_rdt' = o_cpu_rdt
    BY DEF vars, estu
  <2>3. /\ mm_spi_adr' = mm_spi_adr /\ mm_spi_start' = mm_spi_start
        /\ mm_spi_start_d' = mm_spi_start_d /\ mm_spi_valid' = mm_spi_valid
        /\ valid_rst_cond' = valid_rst_cond /\ spi_rd_ack' = spi_rd_ack
        /\ o_wb_spi_rdt' = o_wb_spi_rdt /\ wb_cyc_d' = wb_cyc_d /\ wb_ack' = wb_ack
        /\ master' = master /\ to_read' = to_read /\ read_addr_reg' = read_addr_reg
        /\ end_transaction' = end_transaction
    BY DEF vars, spi
  <2>4. /\ sample' = sample /\ to_encode' = to_encode /\ valid_bin' = valid_bin
        /\ input_adr' = input_adr /\ start_inference' = start_inference
        /\ start_inf_d' = start_inf_d /\ start_inf_dd' = start_inf_dd
    BY DEF vars, glue
  <2>5. /\ state' = state /\ to_run' = to_run /\ fed' = fed
        /\ data_last_layer' = data_last_layer /\ valid_last_layer' = valid_last_layer
    BY DEF vars, accel
  <2>6. /\ (Second' <=> Second) /\ (Third' <=> Third) /\ (Answering' <=> Answering)
    BY <2>1, <2>2, <2>3 DEF Second, Third, slave_ack, o_cpu_ack, Answering
  <2>7. HostTypes' /\ SpiTypes' /\ AccelTypes'
    BY <2>1, <2>2, <2>3, <2>4, <2>5 DEF IInv, HostTypes, SpiTypes, AccelTypes
  <2>8. AccessInThree' /\ StartPulse' /\ TransferEnds'
    BY <2>1, <2>3, <2>6 DEF IInv, AccessInThree, StartPulse, TransferEnds
  <2>9. (AtRest' <=> AtRest) /\ (Stages' <=> Stages) /\ (Flagged' <=> Flagged)
    BY <2>1, <2>2, <2>4, <2>5, <2>6
       DEF AtRest, Stages, Encoding, Starting, Running, Delivering, Flagged, Started, Encoded
  <2>10. Asking' /\ Fetching'
    BY <2>1, <2>2, <2>3, <2>6, <2>9 DEF IInv, Asking, Fetching
  <2>11. Answered' /\ FlagOnce' /\ OneAsked'
    BY <2>1, <2>2, <2>3, <2>4, <2>5, <2>6, <2>9 DEF IInv, Answered, FlagOnce, OneAsked, Stages
  <2> QED BY <2>7, <2>8, <2>10, <2>11 DEF IInv
<1> QED BY InitIInv, NextIInv, <1>1, PTL DEF Spec

(* Words are encoded only while the accelerator rests, and the last one finds  *)
(* the start bit set, however slow the firmware, the flash or the accelerator. *)
THEOREM FramesBegin == Spec => []FrameBeginsInference
<1>1. IInv => FrameBeginsInference
  <2> SUFFICES ASSUME IInv, valid_bin PROVE state = "IDLE" /\ mm_start_inference
    BY DEF FrameBeginsInference
  <2>1. pc \in {"SPI_VALID", "ESTU_DATA"} /\ master # "READ"
    BY DEF IInv, Asking, Fetching, AtRest, HostTypes, EstuRegs, SpiRegs
  <2>2. Encoding
    BY <2>1 DEF IInv, Answered, Starting, Running, Delivering, Flagged, Started, Encoded
  <2> QED BY <2>2 DEF Encoding
<1> QED BY Inductive, <1>1, PTL

(* The firmware never sets the start bit in the cycle that clears it.          *)
THEOREM WritesKept == Spec => []NoWriteDropped
<1>1. IInv => NoWriteDropped
  <2> SUFFICES ASSUME IInv, start_inf_dd PROVE ~estu_cyc("START_INFERENCE")
    BY DEF NoWriteDropped, clr_start_inference
  <2>1. pc \in {"SPI_VALID", "ESTU_DATA"}
    BY DEF IInv, Asking, AtRest, HostTypes, EstuRegs, SpiRegs
  <2> QED BY <2>1 DEF IInv, AccessInThree, estu_cyc
<1> QED BY Inductive, <1>1, PTL

(* The step of the firmware is a question, an answer or neither.               *)
LEMMA LoopStep ==
  ASSUME IInv, [Next]_vars
  PROVE  [Loop!Next]_(Loop!loop)
<1> USE DEF Loop!Next, Loop!Ask, Loop!Answer, Loop!loop
<1>1. CASE UNCHANGED vars
  BY <1>1 DEF vars, host
<1>2. CASE Next
  <2>1. Edges
    BY <1>2, Accesses DEF IInv, Next, Edges
  <2>2. CASE SamePlace
    BY <2>2 DEF SamePlace
  <2>3. CASE EdgeThird /\ Third
    <3>1. CASE pc = "START_INFERENCE"
      <4>1. frame' = NextFrame(frame) /\ answer' = answer /\ answer = frame
        BY <2>3, <3>1, Returns DEF IInv, OneAsked
      <4> QED BY <4>1 DEF NextFrame
    <3>2. CASE pc = "ESTU_DATA" /\ o_cpu_rdt.valid
      <4>1. frame' = frame /\ answer' = frame
        BY <2>3, <3>2, Returns DEF IInv, FlagOnce, Answering
      <4>2. frame = (answer + 1) % Frames /\ answer \in 0 .. Frames - 1
            /\ Frames \in Nat /\ Frames > 1
        BY <3>2, HostLinkAssumption DEF IInv, OneAsked, NextFrame, Tags
      <4>3. answer # frame
        <5>1. CASE answer + 1 < Frames
          BY <4>2, <5>1
        <5>2. CASE answer + 1 = Frames
          BY <4>2, <5>2
        <5> QED BY <4>2, <5>1, <5>2
      <4> QED BY <4>1, <4>3
    <3>3. CASE pc # "START_INFERENCE" /\ ~(pc = "ESTU_DATA" /\ o_cpu_rdt.valid)
      BY <2>3, <3>3, Returns
    <3> QED BY <3>1, <3>2, <3>3
  <2> QED BY <2>1, <2>2, <2>3, Stays
<1> QED BY <1>1, <1>2

(* The loop implements FrameLoop: every answer the firmware takes is that of   *)
(* the frame it asked for, and it asks for one frame at a time.                *)
THEOREM AnswersInTurn == Spec => RefinesFrameLoop
<1>1. Init => Loop!Init
  BY DEF Init, Loop!Init
<1>2. IInv /\ [Next]_vars => [Loop!Next]_(Loop!loop)
  BY LoopStep
<1> QED BY <1>1, <1>2, Inductive, PTL DEF Spec, Loop!Spec, RefinesFrameLoop
=============================================================================
