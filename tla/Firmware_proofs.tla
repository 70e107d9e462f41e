--------------------------- MODULE Firmware_proofs ---------------------------
(* Proofs about the firmware and the devices it drives, for every size of its  *)
(* sections, every address of the handler and every number of frames.          *)
EXTENDS FirmwareProps, TLAPS

At(routine, steps) == pc[1] = routine /\ pc[2] \in steps

(* The core has executed this step of main.                                    *)
Past(p) == pc[1] = "irq_entry" \/ (pc[1] = "main" /\ pc[2] > p)

(* The step of OneInference and that of read_spi which the core executes next, *)
(* or 0.                                                                       *)
InferenceStep == IF At("main", 24 .. 34) THEN pc[2] - 23
                 ELSE IF At("irq_entry", 1 .. 11) THEN pc[2] ELSE 0

ReadStep == IF At("main", 9 .. 13) THEN pc[2] - 8
            ELSE IF At("main", 15 .. 19) THEN pc[2] - 14
            ELSE IF InferenceStep \in 2 .. 6 THEN InferenceStep - 1 ELSE 0

(* The arguments of that read_spi.                                             *)
Into    == IF At("main", 9 .. 13) THEN INT_MEM1_ID
           ELSE IF At("main", 15 .. 19) THEN INT_MEM2_ID ELSE INPUT_BUFFER_ID
From    == IF At("main", 9 .. 13) THEN INT_MEM_1_ADDR
           ELSE IF At("main", 15 .. 19) THEN INT_MEM_2_ADDR ELSE input_buf_adr
HowMuch == IF At("main", 9 .. 13) THEN WEIGHTS_SIZE_1
           ELSE IF At("main", 15 .. 19) THEN WEIGHTS_SIZE_2 ELSE INPUT_CHANNELS

-----------------------------------------------------------------------------
(* The inductive invariant.                                                    *)

Types ==
    /\ pc \in ({"_enter"} \X {0}) \cup ({"bss"} \X (0 .. BssSize))
              \cup ({"data"} \X (0 .. DataSize)) \cup ({"main"} \X (1 .. 38))
              \cup ({"irq_entry"} \X (1 .. 13))
    /\ DOMAIN csr = {"mie", "mpie", "mtie", "mcause", "rf"}
    /\ DOMAIN csr.rf = {Csr!MSCRATCH, Csr!MTVEC, Csr!MEPC, Csr!MTVAL}
    /\ csr.mie \in BOOLEAN /\ csr.mtie \in BOOLEAN
    /\ DOMAIN uart = {"uart_data", "uart_hp", "sending"} /\ uart.sending \in BOOLEAN
    /\ estu \in [mm_start_inference : BOOLEAN, mm_num_instr : Nat, mm_external_wren : Nat,
                 mm_encoding_bypass : BOOLEAN, valid_ll : BOOLEAN]
    /\ spi \in [mm_spi_adr : Nat, mm_mem_address : Nat, mm_read_size : Nat,
                mm_spi_valid : BOOLEAN]
    /\ master \in [adr : Nat, size : Nat, left : 0 .. 2]
    /\ memory \in [0 .. 2 -> [1 .. 2 -> Nat \X Nat]]
    /\ encoding \in BOOLEAN
    /\ accel \in [running : BOOLEAN, fed : Nat, result : Nat]
    /\ timer \in [mtimecmp : Nat, o_irq : BOOLEAN]
    /\ n_gate_serv \in BOOLEAN

(* _start initializes the sections before it calls main.                       *)
Sections ==
    /\ pc[1] = "_enter" => bss = {} /\ data = {}
    /\ pc[1] = "bss"    => bss = 0 .. pc[2] - 1 /\ data = {}
    /\ pc[1] = "data"   => bss = 0 .. BssSize - 1 /\ data = 0 .. pc[2] - 1
    /\ Past(0)          => bss = 0 .. BssSize - 1 /\ data = 0 .. DataSize - 1

(* Interrupts are disabled from the fifth step of main to its last, their      *)
(* enable in mie comes after the timer, and the handler runs disabled.         *)
Enabling ==
    /\ ~Past(36) => ~csr.mtie
    /\ At("main", 6 .. 37) \/ pc[1] = "irq_entry" => ~csr.mie
    /\ Past(7) => csr.rf[Csr!MTVEC] = irq_entry

(* The timer compares with zero until main writes it; the fast clock stops at  *)
(* the end of the handler only.                                                *)
Clocks ==
    /\ timer.mtimecmp = IF Past(35) THEN TIME ELSE 0
    /\ n_gate_serv \/ At("irq_entry", {13})

(* A transfer runs only while the core polls for its end, with the registers   *)
(* the core has just written.                                                  *)
Transferring ==
    /\ IF ReadStep = 5 THEN spi.mm_spi_valid <=> master.left = 0
                       ELSE master.left = 0 /\ ~spi.mm_spi_valid
    /\ ReadStep > 1 => spi.mm_spi_adr = From
    /\ ReadStep > 2 => spi.mm_mem_address = Into
    /\ ReadStep > 3 => spi.mm_read_size = HowMuch
    /\ ReadStep = 5 => master.adr = From /\ master.size = HowMuch

(* The write enables follow the weight memory that is being loaded; the two    *)
(* images stay once they are loaded.                                           *)
Memories ==
    /\ estu.mm_external_wren = IF At("main", 9 .. 14) THEN 1
                               ELSE IF At("main", 15 .. 20) THEN 2 ELSE 0
    /\ ReadStep = 5 /\ master.left < 2 => memory[Into][1] = <<From, HowMuch>>
    /\ ReadStep = 5 /\ master.left = 0 => memory[Into][2] = <<From, HowMuch>>
    /\ Past(13) => Loaded(INT_MEM1_ID, INT_MEM_1_ADDR, WEIGHTS_SIZE_1)
    /\ Past(19) => Loaded(INT_MEM2_ID, INT_MEM_2_ADDR, WEIGHTS_SIZE_2)

SettingUp == /\ ~estu.mm_encoding_bypass
             /\ Past(23) => estu.mm_num_instr = NUM_INSTRUCTIONS

(* The accelerator is at rest, waits for the frame, holds all of it, computes, *)
(* or has an answer.                                                           *)
Rests    == ~estu.mm_start_inference /\ ~encoding /\ ~accel.running /\ ~estu.valid_ll
Waits    == estu.mm_start_inference /\ ~encoding /\ ~accel.running /\ ~estu.valid_ll
Holds    == estu.mm_start_inference /\ encoding /\ ~accel.running /\ ~estu.valid_ll
Computes == ~estu.mm_start_inference /\ ~encoding /\ accel.running /\ ~estu.valid_ll
Knows    == ~estu.mm_start_inference /\ ~encoding /\ ~accel.running /\ estu.valid_ll

(* The frame has been read.                                                    *)
FrameRead == InferenceStep \in {7, 8} \/ (InferenceStep = 6 /\ master.left = 0)

Accelerating ==
    IF FrameRead THEN Holds \/ Computes \/ Knows
    ELSE IF InferenceStep \in 2 .. 6 THEN Waits ELSE Rests

(* The frame to be used next.                                                  *)
Due(a) == a = IF accel.fed = 0 THEN INPUT_BUFFER_ADDR ELSE NextFrame(accel.fed)

Frame == memory[INPUT_BUFFER_ID][2][1]

FramesInTurn ==
    /\ accel.fed \in FrameAddresses \cup {0}
    /\ ~Past(21) => accel.fed = 0
    /\ Past(21) => input_buf_adr \in FrameAddresses
    /\ Past(21) /\ ~FrameRead => Due(input_buf_adr)
    /\ FrameRead => /\ Loaded(INPUT_BUFFER_ID, Frame, INPUT_CHANNELS)
                    /\ Frame \in FrameAddresses
                    /\ IF Holds THEN Due(Frame) ELSE accel.fed = Frame
                    /\ input_buf_adr = IF InferenceStep = 8 THEN NextFrame(Frame) ELSE Frame

Sending == uart.sending => InferenceStep = 11

IInv == /\ Types /\ Sections /\ Enabling /\ Clocks /\ Transferring /\ Memories
        /\ SettingUp /\ Accelerating /\ FramesInTurn /\ Sending

-----------------------------------------------------------------------------
(* The program, step by step.                                                  *)

(* Where main and the handler write to, poll, access a control register or     *)
(* assign a global.                                                            *)
LEMMA Lengths == Len(main) = 37 /\ Len(Handler) = 12
BY DEF main, Handler, AwaitButton, Interrupts, LoadWeights, SetUp, OneInference, Enable,
       read_spi, uart_send, mtimer_set_raw_time_cmp

(* main up to the loading of the weights.                                      *)
LEMMA MainStarts ==
    /\ main[1] = Write(SERVANT_GPIO_ADDR, 10) /\ main[2] = Poll(SERVANT_GPIO_ADDR)
    /\ main[3] = Write(SERVANT_GPIO_ADDR, 5) /\ main[4] = Write(UART_HP, 1)
    /\ main[5] = CsrStep("clear_csr", "mstatus", MSTATUS_MIE_BIT_MASK)
    /\ main[6] = CsrStep("write_csr", "mie", {})
    /\ main[7] = CsrStep("write_csr", "mtvec", irq_entry)
BY DEF main, AwaitButton, Interrupts, LoadWeights, SetUp, OneInference, Enable,
       read_spi, uart_send, mtimer_set_raw_time_cmp

(* The weights and the settings.                                               *)
LEMMA MainLoads ==
    /\ main[8] = Write(ESTU_WREN, 1) /\ main[9] = Write(SPI_ADDR, INT_MEM_1_ADDR)
    /\ main[10] = Write(SPI_SEL_MEM_OUT, INT_MEM1_ID)
    /\ main[11] = Write(SPI_READ_SIZE_ADDR, WEIGHTS_SIZE_1)
    /\ main[12] = Write(SPI_START_ADDR, 1) /\ main[13] = Poll(SPI_VALID_ADDR)
    /\ main[14] = Write(ESTU_WREN, 2) /\ main[15] = Write(SPI_ADDR, INT_MEM_2_ADDR)
    /\ main[16] = Write(SPI_SEL_MEM_OUT, INT_MEM2_ID)
    /\ main[17] = Write(SPI_READ_SIZE_ADDR, WEIGHTS_SIZE_2)
    /\ main[18] = Write(SPI_START_ADDR, 1) /\ main[19] = Poll(SPI_VALID_ADDR)
    /\ main[20] = Write(ESTU_WREN, 0) /\ main[21] = SetBuffer(INPUT_BUFFER_ADDR)
    /\ main[22] = Write(ESTU_ENCODING_BYPASS, 0)
    /\ main[23] = Write(ESTU_NUM_INSTRUCTIONS, NUM_INSTRUCTIONS)
BY DEF main, AwaitButton, Interrupts, LoadWeights, SetUp, OneInference, Enable,
       read_spi, uart_send, mtimer_set_raw_time_cmp

(* An inference, from the given offset of the program on.                      *)
InfersFrom(program, o) ==
    /\ program[o + 1] = Write(ESTU_START_INFERENCE, 1)
    /\ program[o + 2] = Write(SPI_ADDR, input_buf_adr)
    /\ program[o + 3] = Write(SPI_SEL_MEM_OUT, INPUT_BUFFER_ID)
    /\ program[o + 4] = Write(SPI_READ_SIZE_ADDR, INPUT_CHANNELS)
    /\ program[o + 5] = Write(SPI_START_ADDR, 1)
    /\ program[o + 6] = Poll(SPI_VALID_ADDR)
    /\ program[o + 7] = SetBuffer(NextFrame(input_buf_adr))
    /\ program[o + 8] = Poll(ESTU_DATA)
    /\ program[o + 9] = Write(UART_DATA_ADDR, inference_data)
    /\ program[o + 10] = Write(UART_SEND_ADDR, 1)
    /\ program[o + 11] = Poll(UART_READY_ADDR)

(* The inference of main and the enabling of interrupts.                       *)
LEMMA MainInfers ==
    /\ InfersFrom(main, 23)
    /\ main[35] = Write(RISCV_MTIMECMP_ADDR, TIME)
    /\ main[36] = CsrStep("set_csr", "mie", MIE_MTI_BIT_MASK)
    /\ main[37] = CsrStep("set_csr", "mstatus", MSTATUS_MIE_BIT_MASK)
BY DEF main, AwaitButton, Interrupts, LoadWeights, SetUp, OneInference, Enable,
       read_spi, uart_send, mtimer_set_raw_time_cmp, InfersFrom

(* The handler.                                                                *)
LEMMA HandlerInfers == InfersFrom(Handler, 0) /\ Handler[12] = Write(CLOCK_GATE_CTRL, 1)
BY DEF Handler, OneInference, read_spi, uart_send, InfersFrom

(* The routines the core runs steps of, and their steps.                       *)
LEMMA Steps ==
    ASSUME NEW op, Running(op)
    PROVE  \/ pc[1] = "main" /\ pc[2] <= 37 /\ Current = main[pc[2]] /\ main[pc[2]].op = op
           \/ /\ pc[1] = "irq_entry" /\ pc[2] <= 12
              /\ Current = Handler[pc[2]] /\ Handler[pc[2]].op = op
BY Lengths DEF Running, Current, Code

(* What is written, polled, accessed and assigned where.                       *)
LEMMA Programmed ==
    ASSUME Types, NEW op, Running(op)
    PROVE  \/ /\ op = "write" /\ (At("main", {1, 3, 4}) \/ InferenceStep = 9)
              /\ \E a \in {SERVANT_GPIO_ADDR, UART_HP, UART_DATA_ADDR} : \E v : Current = Write(a, v)
           \/ /\ op = "write" /\ At("main", {8, 14, 20})
              /\ Current = Write(ESTU_WREN, IF pc[2] = 8 THEN 1 ELSE IF pc[2] = 14 THEN 2 ELSE 0)
           \/ /\ op = "write" /\ At("main", {22}) /\ Current = Write(ESTU_ENCODING_BYPASS, 0)
           \/ /\ op = "write" /\ At("main", {23})
              /\ Current = Write(ESTU_NUM_INSTRUCTIONS, NUM_INSTRUCTIONS)
           \/ /\ op = "write" /\ InferenceStep = 1 /\ Current = Write(ESTU_START_INFERENCE, 1)
           \/ /\ op = "write" /\ ReadStep = 1 /\ Current = Write(SPI_ADDR, From)
           \/ /\ op = "write" /\ ReadStep = 2 /\ Current = Write(SPI_SEL_MEM_OUT, Into)
           \/ /\ op = "write" /\ ReadStep = 3 /\ Current = Write(SPI_READ_SIZE_ADDR, HowMuch)
           \/ /\ op = "write" /\ ReadStep = 4 /\ Current = Write(SPI_START_ADDR, 1)
           \/ /\ op = "write" /\ InferenceStep = 10 /\ Current = Write(UART_SEND_ADDR, 1)
           \/ /\ op = "write" /\ At("main", {35}) /\ Current = Write(RISCV_MTIMECMP_ADDR, TIME)
           \/ /\ op = "write" /\ At("irq_entry", {12}) /\ Current = Write(CLOCK_GATE_CTRL, 1)
           \/ /\ op = "poll" /\ At("main", {2}) /\ Current = Poll(SERVANT_GPIO_ADDR)
           \/ /\ op = "poll" /\ ReadStep = 5 /\ Current = Poll(SPI_VALID_ADDR)
           \/ /\ op = "poll" /\ InferenceStep = 8 /\ Current = Poll(ESTU_DATA)
           \/ /\ op = "poll" /\ InferenceStep = 11 /\ Current = Poll(UART_READY_ADDR)
           \/ /\ op = "csr" /\ At("main", {5, 6, 7, 36, 37}) /\ Current = main[pc[2]]
           \/ /\ op = "set" /\ At("main", {21}) /\ Current = SetBuffer(INPUT_BUFFER_ADDR)
           \/ /\ op = "set" /\ InferenceStep = 7
              /\ Current = SetBuffer(NextFrame(input_buf_adr))
<1> USE DEF Write, Poll, CsrStep, SetBuffer, InfersFrom
<1>1. pc[2] \in Nat /\ pc[2] > 0
  BY Steps DEF Types
<1>2. CASE pc[1] = "main" /\ pc[2] \in 1 .. 7
  BY <1>2, Steps, MainStarts DEF At, InferenceStep, ReadStep
<1>3. CASE pc[1] = "main" /\ pc[2] \in 8 .. 23
  BY <1>3, Steps, MainLoads DEF At, InferenceStep, ReadStep, Into, From, HowMuch
<1>4. CASE pc[1] = "main" /\ pc[2] \in 24 .. 37
  BY <1>4, Steps, MainInfers DEF At, InferenceStep, ReadStep, Into, From, HowMuch
<1>5. CASE pc[1] = "irq_entry" /\ pc[2] \in 1 .. 12
  BY <1>5, Steps, HandlerInfers DEF At, InferenceStep, ReadStep, Into, From, HowMuch
<1> QED BY <1>1, <1>2, <1>3, <1>4, <1>5, Steps

-----------------------------------------------------------------------------
(* What a write does.                                                          *)

Others == UNCHANGED <<globals, csr, memory, encoding, accel>>

(* The slave an address selects.                                               *)
LEMMA Slaves ==
    ASSUME NEW r
    PROVE  /\ Slave(<<2, r>>) = "UART" /\ Slave(<<4, r>>) = "ACC" /\ Slave(<<8, r>>) = "TIMER"
           /\ Slave(<<10, r>>) = "SPI" /\ Slave(<<12, r>>) = "GPIO" /\ Slave(<<14, r>>) = "CLK"
BY DEF Slave

(* A write that sets the display, the lines of the UART or its data.           *)
LEMMA DisplayWritten ==
    ASSUME WriteStep, NEW v,
           NEW a \in {SERVANT_GPIO_ADDR, UART_HP, UART_DATA_ADDR}, Current = Write(a, v)
    PROVE  /\ UNCHANGED <<estu, spi, master, timer, n_gate_serv>> /\ Others /\ Advance
           /\ uart'.sending = uart.sending /\ DOMAIN uart' = DOMAIN uart
<1>1. CASE a = SERVANT_GPIO_ADDR
  <2>1. Slave(a) = "GPIO"
    BY <1>1, Slaves DEF SERVANT_GPIO_ADDR
  <2>2. UNCHANGED <<uart, estu, spi, master, timer, n_gate_serv>>
    BY <2>1 DEF WriteStep, Write
  <2> QED BY <2>2 DEF WriteStep, Others
<1>2. ASSUME NEW r \in {0, 3}, a = <<2, r>>
      PROVE  /\ UNCHANGED <<estu, spi, master, timer, n_gate_serv>>
             /\ uart'.sending = uart.sending /\ DOMAIN uart' = DOMAIN uart
  <2>1. Slave(a) = "UART" /\ a[2] = r
    BY <1>2, Slaves
  <2>2. UNCHANGED <<estu, spi, master, timer, n_gate_serv>> /\ uart' = UartWrite(r, v)
    BY <2>1 DEF WriteStep, Write
  <2> QED BY <2>2 DEF UartWrite
<1> QED BY <1>1, <1>2 DEF WriteStep, Others, UART_HP, UART_DATA_ADDR

(* A write to the accelerator, to the loader, to the sender.                   *)
LEMMA EstuWritten ==
    ASSUME WriteStep, NEW v, NEW r, Current = Write(<<4, r>>, v)
    PROVE  /\ UNCHANGED <<uart, spi, master, timer, n_gate_serv>> /\ Others /\ Advance
           /\ estu' = EstuWrite(r, v)
<1>1. Slave(<<4, r>>) = "ACC" /\ Current.adr = <<4, r>> /\ Current.value = v
  BY Slaves DEF Write
<1> QED BY <1>1 DEF WriteStep, Others

(* The registers of servant_spi, the start among them.                         *)
LEMMA SpiWritten ==
    ASSUME WriteStep, NEW v, NEW r, Current = Write(<<10, r>>, v)
    PROVE  /\ UNCHANGED <<uart, estu, timer, n_gate_serv>> /\ Others /\ Advance
           /\ spi' = SpiWrite(r, v) /\ master' = Begins(r, v)
<1>1. Slave(<<10, r>>) = "SPI" /\ Current.adr = <<10, r>> /\ Current.value = v
  BY Slaves DEF Write
<1> QED BY <1>1 DEF WriteStep, Others

(* What every write leaves alone.                                              *)
LEMMA WriteKeeps == ASSUME WriteStep PROVE Others /\ Advance
BY DEF WriteStep, Others

(* The start of the sender, the timer and the clock gate.                      *)
LEMMA SendWritten ==
    ASSUME WriteStep, Current = Write(UART_SEND_ADDR, 1)
    PROVE  /\ UNCHANGED <<estu, spi, master, timer, n_gate_serv>> /\ Others /\ Advance
           /\ uart' = [uart EXCEPT !.sending = TRUE]
<1>1. Slave(<<2, 1>>) = "UART" /\ Current.adr = <<2, 1>> /\ Current.value = 1
  BY Slaves DEF Write, UART_SEND_ADDR
<1>2. UNCHANGED <<estu, spi, master, timer, n_gate_serv>> /\ uart' = UartWrite(1, 1)
  BY <1>1 DEF WriteStep
<1>3. UartWrite(1, 1) = [uart EXCEPT !.sending = TRUE]
  <2>1. 1 % 2 = 1
    OBVIOUS
  <2>2. UartWrite(1, 1) = [uart EXCEPT !.sending = uart.sending \/ 1 % 2 = 1]
    BY DEF UartWrite
  <2>3. (uart.sending \/ 1 % 2 = 1) = TRUE
    BY <2>1
  <2> QED BY <2>2, <2>3
<1> QED BY <1>2, <1>3, WriteKeeps

(* The comparison value, which ends the request of reset.                      *)
LEMMA TimerWritten ==
    ASSUME WriteStep, Current = Write(RISCV_MTIMECMP_ADDR, TIME)
    PROVE  /\ UNCHANGED <<uart, estu, spi, master, n_gate_serv>> /\ Others /\ Advance
           /\ timer' = [mtimecmp |-> TIME, o_irq |-> FALSE]
<1>1. Slave(<<8, 0>>) = "TIMER" /\ Current.adr = <<8, 0>> /\ Current.value = TIME
  BY Slaves DEF Write, RISCV_MTIMECMP_ADDR
<1>2. UNCHANGED <<uart, estu, spi, master, n_gate_serv>>
  BY <1>1 DEF WriteStep
<1>3. timer' = [mtimecmp |-> TIME % 65536, o_irq |-> FALSE]
  BY <1>1 DEF WriteStep
<1>4. timer' = [mtimecmp |-> TIME, o_irq |-> FALSE]
  BY <1>3 DEF TIME
<1> QED BY <1>2, <1>4, WriteKeeps

(* The gate, which a request holds open.                                       *)
LEMMA GateWritten ==
    ASSUME WriteStep, Current = Write(CLOCK_GATE_CTRL, 1)
    PROVE  /\ UNCHANGED <<uart, estu, spi, master, timer>> /\ Others /\ Advance
           /\ n_gate_serv' \in BOOLEAN
<1>1. Slave(<<14, 0>>) = "CLK" /\ Current.adr = <<14, 0>> /\ Current.value = 1
  BY Slaves DEF Write, CLOCK_GATE_CTRL
<1>2. UNCHANGED <<uart, estu, spi, master, timer>>
  BY <1>1 DEF WriteStep
<1>3. n_gate_serv' = (1 % 2 = 0 \/ timer.o_irq)
  BY <1>1 DEF WriteStep
<1>4. n_gate_serv' \in BOOLEAN
  BY <1>3
<1> QED BY <1>2, <1>4, WriteKeeps

-----------------------------------------------------------------------------
(* The control registers the firmware uses.                                    *)

(* A register of one part of the header is in no other.                        *)
LEMMA InHeader ==
    ASSUME NEW q \in Csr!Parts, NEW r \in DOMAIN q,
           \A p \in Csr!Parts : r \in DOMAIN p => p = q
    PROVE  r \in DOMAIN Csr!Header /\ Csr!Header[r] = q[r]
BY DEF Csr!Header

(* Their addresses and functions; what a trap replaces or raises is none of    *)
(* the registers.                                                              *)
LEMMA Addresses ==
    /\ Csr!Header["mstatus"].adr = 768 /\ Csr!Header["mie"].adr = 772
    /\ Csr!Header["mtvec"].adr = 773
    /\ \A r \in {"mstatus", "mie", "mtvec"} : Csr!Header[r].functions = Csr!WithMask
    /\ Csr!None \notin DOMAIN Csr!Header /\ "ebreak" \notin DOMAIN Csr!Header
<1>1. /\ \A p \in Csr!Parts : "mstatus" \in DOMAIN p => p = Csr!MachineStatus
      /\ \A p \in Csr!Parts : "mie" \in DOMAIN p => p = Csr!EnabledInterrupts
      /\ \A p \in Csr!Parts : "mtvec" \in DOMAIN p => p = Csr!MachineTrapVector
      /\ \A p \in Csr!Parts : Csr!None \notin DOMAIN p /\ "ebreak" \notin DOMAIN p
  BY DEF Csr!None, Csr!Parts,
         Csr!Identity, Csr!MachineStatus, Csr!MachineTrapVector,
         Csr!PendingInterrupts, Csr!EnabledInterrupts, Csr!CounterInhibit,
         Csr!CounterEnable, Csr!TrapReturn, Csr!TrapCause,
         Csr!SupervisorCause, Csr!SupervisorStatus, Csr!SupervisorVector,
         Csr!SupervisorPending, Csr!SupervisorEnabled, Csr!UserStatus,
         Csr!UserPending, Csr!UserEnabled, Csr!UserCause, Csr!UserVector,
         Csr!FloatingPoint, Csr!UserCounters, Csr!SupervisorMemory,
         Csr!Hypervisor, Csr!HypervisorTime, Csr!VirtualSupervisor,
         Csr!VirtualTrap, Csr!BaseBound, Csr!BaseBoundData,
         Csr!ProtectionConfig, Csr!ProtectionAddress, Csr!EventCounters,
         Csr!EventCountersHigh, Csr!EventSelectors, Csr!Triggers, Csr!Debug,
         Csr!HypervisorInterrupts, Csr!TrapInstruction
<1>2. Csr!MachineStatus \in Csr!Parts /\ Csr!EnabledInterrupts \in Csr!Parts
      /\ Csr!MachineTrapVector \in Csr!Parts
  BY DEF Csr!Parts
<1>3. "mstatus" \in DOMAIN Csr!MachineStatus /\ Csr!MachineStatus["mstatus"].adr = 768
      /\ Csr!MachineStatus["mstatus"].functions = Csr!WithMask
  BY DEF Csr!MachineStatus, Csr!Masked
<1>4. "mie" \in DOMAIN Csr!EnabledInterrupts /\ Csr!EnabledInterrupts["mie"].adr = 772
      /\ Csr!EnabledInterrupts["mie"].functions = Csr!WithMask
  BY DEF Csr!EnabledInterrupts, Csr!MachineInterrupts, Csr!Masked
<1>5. "mtvec" \in DOMAIN Csr!MachineTrapVector /\ Csr!MachineTrapVector["mtvec"].adr = 773
      /\ Csr!MachineTrapVector["mtvec"].functions = Csr!WithMask
  BY DEF Csr!MachineTrapVector, Csr!Vector, Csr!Masked
<1>6. Csr!Header["mstatus"] = Csr!MachineStatus["mstatus"]
  BY <1>1, <1>2, <1>3, InHeader
<1>7. Csr!Header["mie"] = Csr!EnabledInterrupts["mie"]
  BY <1>1, <1>2, <1>4, InHeader
<1>8. Csr!Header["mtvec"] = Csr!MachineTrapVector["mtvec"]
  BY <1>1, <1>2, <1>5, InHeader
<1>9. \A r : r \in DOMAIN Csr!Header => \E p \in Csr!Parts : r \in DOMAIN p
  BY DEF Csr!Header
<1> QED BY <1>1, <1>3, <1>4, <1>5, <1>6, <1>7, <1>8, <1>9

(* Four bits of each address, and what they select.                            *)
LEMMA Decoded ==
    /\ Csr!mstatus_en("mstatus") /\ ~Csr!csr_en("mstatus") /\ ~Csr!mie_en("mstatus")
    /\ ~Csr!mstatus_en("mie") /\ ~Csr!csr_en("mie") /\ Csr!mie_en("mie")
    /\ ~Csr!mcause_en("mie")
    /\ ~Csr!mcause_en("mstatus")
    /\ ~Csr!mstatus_en("mtvec") /\ Csr!csr_en("mtvec") /\ ~Csr!mie_en("mtvec")
    /\ Csr!csr_addr("mtvec") = Csr!MTVEC
<1>1. /\ (768 \div 2^6) % 2 = 0 /\ (768 \div 2^2) % 2 = 0
      /\ (768 \div 2^1) % 2 = 0 /\ (768 \div 2^0) % 2 = 0
  OBVIOUS
<1>2. /\ (772 \div 2^6) % 2 = 0 /\ (772 \div 2^2) % 2 = 1
      /\ (772 \div 2^1) % 2 = 0 /\ (772 \div 2^0) % 2 = 0
  OBVIOUS
<1>3. /\ (773 \div 2^6) % 2 = 0 /\ (773 \div 2^2) % 2 = 1
      /\ (773 \div 2^1) % 2 = 0 /\ (773 \div 2^0) % 2 = 1
  OBVIOUS
<1> USE Addresses DEF Csr!op26, Csr!op22, Csr!op21, Csr!op20, Csr!AddressBit
<1>4. /\ Csr!op26("mstatus") = FALSE /\ Csr!op22("mstatus") = FALSE
      /\ Csr!op21("mstatus") = FALSE /\ Csr!op20("mstatus") = FALSE
  BY <1>1
<1>5. /\ Csr!op26("mie") = FALSE /\ Csr!op22("mie") = TRUE
      /\ Csr!op21("mie") = FALSE /\ Csr!op20("mie") = FALSE
  BY <1>2
<1>6. /\ Csr!op26("mtvec") = FALSE /\ Csr!op22("mtvec") = TRUE
      /\ Csr!op21("mtvec") = FALSE /\ Csr!op20("mtvec") = TRUE
  BY <1>3
<1> HIDE DEF Csr!op26, Csr!op22, Csr!op21, Csr!op20
<1>7. Csr!csr_addr("mtvec") = Csr!MTVEC
  BY <1>6, Zenon DEF Csr!csr_addr, Csr!MTVEC
<1> QED BY <1>4, <1>5, <1>6, <1>7
        DEF Csr!mstatus_en, Csr!csr_en, Csr!mie_en, Csr!mcause_en

(* An access changes the register that is named and no other one of the three: *)
(* the enable of interrupts in mstatus,                                        *)
LEMMA StatusAccessed ==
    ASSUME Types, NEW insn, NEW d, NEW s, s = Csr!AfterAccess(csr, "mstatus", insn, d)
    PROVE  /\ DOMAIN s = DOMAIN csr /\ s.mtie = csr.mtie /\ s.rf = csr.rf
           /\ s.mie = (3 \in Csr!csr_in(csr, "mstatus", insn, d))
BY Decoded DEF Types, Csr!AfterAccess

(* that of the timer in mie,                                                   *)
LEMMA EnableAccessed ==
    ASSUME Types, NEW insn, NEW d, NEW s, s = Csr!AfterAccess(csr, "mie", insn, d)
    PROVE  /\ DOMAIN s = DOMAIN csr /\ s.mie = csr.mie /\ s.rf = csr.rf
           /\ s.mtie = (7 \in Csr!csr_in(csr, "mie", insn, d))
BY Decoded DEF Types, Csr!AfterAccess

(* the address of the handler in mtvec.                                        *)
LEMMA VectorAccessed ==
    ASSUME Types, NEW insn, NEW d, NEW s, s = Csr!AfterAccess(csr, "mtvec", insn, d)
    PROVE  /\ DOMAIN s = DOMAIN csr /\ s.mie = csr.mie /\ s.mtie = csr.mtie
           /\ s.rf = [csr.rf EXCEPT ![Csr!MTVEC] = Csr!csr_in(csr, "mtvec", insn, d)]
BY Decoded DEF Types, Csr!AfterAccess

(* The accesses of main.                                                       *)
LEMMA CsrWritten ==
    ASSUME Types, CsrAccess, At("main", {5, 6, 7, 36, 37}), Current = main[pc[2]]
    PROVE  /\ UNCHANGED <<globals, devices>> /\ Advance
           /\ DOMAIN csr' = DOMAIN csr /\ DOMAIN csr'.rf = DOMAIN csr.rf
           /\ csr'.mie \in BOOLEAN /\ csr'.mtie \in BOOLEAN
           /\ pc[2] = 5 => ~csr'.mie /\ csr'.mtie = csr.mtie
           /\ pc[2] = 6 => csr'.mie = csr.mie /\ ~csr'.mtie
           /\ pc[2] = 7 => csr'.mie = csr.mie /\ csr'.mtie = csr.mtie
                           /\ csr'.rf[Csr!MTVEC] = irq_entry
           /\ pc[2] = 36 => csr'.mie = csr.mie /\ csr'.rf = csr.rf
           /\ pc[2] = 37 => csr'.mtie = csr.mtie /\ csr'.rf = csr.rf
<1>1. /\ UNCHANGED <<globals, devices>> /\ Advance
      /\ csr' = Csr!AfterAccess(csr, Current.reg,
                                Csr!Instruction(Csr!Macro(Current.macro)), Current.value)
  BY DEF CsrAccess
<1> DEFINE In(r, insn, d) == Csr!csr_in(csr, r, insn, d)
<1>2. \A r, d : /\ In(r, "csrrw", d) = d
                /\ In(r, "csrrc", d) = Csr!csr_out(csr, r) \ d
  BY DEF Csr!csr_in
<1>3. /\ Csr!Instruction(Csr!Macro("clear_csr")) = "csrrc"
      /\ Csr!Instruction(Csr!Macro("write_csr")) = "csrrw"
  BY DEF Csr!Instruction, Csr!Macro
<1> HIDE DEF In
<1> DEFINE Shape == /\ DOMAIN csr' = DOMAIN csr /\ DOMAIN csr'.rf = DOMAIN csr.rf
                    /\ csr'.mie \in BOOLEAN /\ csr'.mtie \in BOOLEAN
<1>4. ASSUME pc[2] = 5 PROVE Shape /\ ~csr'.mie /\ csr'.mtie = csr.mtie
  <2>1. csr' = Csr!AfterAccess(csr, "mstatus", "csrrc", MSTATUS_MIE_BIT_MASK)
    BY <1>1, <1>3, <1>4, MainStarts DEF CsrStep
  <2>2. (3 \in Csr!csr_in(csr, "mstatus", "csrrc", MSTATUS_MIE_BIT_MASK)) = FALSE
    BY <1>2 DEF In, MSTATUS_MIE_BIT_MASK
  <2>3. DOMAIN csr' = DOMAIN csr /\ csr'.mie = (3 \in Csr!csr_in(csr, "mstatus", "csrrc", MSTATUS_MIE_BIT_MASK))
        /\ csr'.mtie = csr.mtie /\ csr'.rf = csr.rf
    BY <2>1, StatusAccessed
  <2> QED BY <2>2, <2>3 DEF Types
<1>5. ASSUME pc[2] = 6 PROVE Shape /\ csr'.mie = csr.mie /\ ~csr'.mtie
  <2>1. PICK zero : zero = {}
    OBVIOUS
  <2>2. csr' = Csr!AfterAccess(csr, "mie", "csrrw", zero)
    BY <1>1, <1>3, <1>5, <2>1, MainStarts DEF CsrStep
  <2>3. (7 \in Csr!csr_in(csr, "mie", "csrrw", zero)) = FALSE
    BY <1>2, <2>1 DEF In
  <2>4. DOMAIN csr' = DOMAIN csr /\ csr'.mtie = (7 \in Csr!csr_in(csr, "mie", "csrrw", zero))
        /\ csr'.mie = csr.mie /\ csr'.rf = csr.rf
    BY <2>2, EnableAccessed
  <2> QED BY <2>3, <2>4 DEF Types
<1>6. ASSUME pc[2] = 7 PROVE Shape /\ csr'.mie = csr.mie /\ csr'.mtie = csr.mtie
                              /\ csr'.rf[Csr!MTVEC] = irq_entry
  <2>1. csr' = Csr!AfterAccess(csr, "mtvec", "csrrw", irq_entry)
    BY <1>1, <1>3, <1>6, MainStarts DEF CsrStep
  <2>2. Csr!csr_in(csr, "mtvec", "csrrw", irq_entry) = irq_entry
    BY <1>2 DEF In
  <2>3. DOMAIN csr' = DOMAIN csr /\ csr'.rf = [csr.rf EXCEPT ![Csr!MTVEC] = Csr!csr_in(csr, "mtvec", "csrrw", irq_entry)]
        /\ csr'.mie = csr.mie /\ csr'.mtie = csr.mtie
    BY <2>1, VectorAccessed
  <2> QED BY <2>2, <2>3 DEF Types
<1>7. ASSUME pc[2] = 36 PROVE Shape /\ csr'.mie = csr.mie /\ csr'.rf = csr.rf
  <2>1. PICK insn : csr' = Csr!AfterAccess(csr, "mie", insn, MIE_MTI_BIT_MASK)
    BY <1>1, <1>7, MainInfers DEF CsrStep
  <2>3. DOMAIN csr' = DOMAIN csr /\ csr'.mtie = (7 \in Csr!csr_in(csr, "mie", insn, MIE_MTI_BIT_MASK))
        /\ csr'.mie = csr.mie /\ csr'.rf = csr.rf
    BY <2>1, EnableAccessed
  <2> QED BY <2>3 DEF Types
<1>8. ASSUME pc[2] = 37 PROVE Shape /\ csr'.mtie = csr.mtie /\ csr'.rf = csr.rf
  <2>1. PICK insn : csr' = Csr!AfterAccess(csr, "mstatus", insn, MSTATUS_MIE_BIT_MASK)
    BY <1>1, <1>8, MainInfers DEF CsrStep
  <2>3. DOMAIN csr' = DOMAIN csr /\ csr'.mie = (3 \in Csr!csr_in(csr, "mstatus", insn, MSTATUS_MIE_BIT_MASK))
        /\ csr'.mtie = csr.mtie /\ csr'.rf = csr.rf
    BY <2>1, StatusAccessed
  <2> QED BY <2>3 DEF Types
<1>9. Shape
  BY <1>4, <1>5, <1>6, <1>7, <1>8 DEF At
<1> QED BY <1>1, <1>4, <1>5, <1>6, <1>7, <1>8, <1>9

(* A trap of the firmware enters the handler with interrupts disabled.         *)
LEMMA Trapped ==
    ASSUME Types, NEW insn \in {Csr!None, "ebreak"}, NEW irq, Trap(insn, irq),
           csr.rf[Csr!MTVEC] = irq_entry
    PROVE  /\ UNCHANGED <<globals, devices>> /\ pc' = <<"irq_entry", 1>>
           /\ DOMAIN csr' = DOMAIN csr /\ DOMAIN csr'.rf = DOMAIN csr.rf
           /\ csr'.mie = FALSE /\ csr'.mtie = csr.mtie
           /\ csr'.rf[Csr!MTVEC] = irq_entry
<1>1. ~Csr!Accesses(insn) /\ insn # "mret"
  BY Addresses DEF Csr!Accesses, Csr!None
<1>2. Csr!TrapTarget(csr, insn) = irq_entry
  <2>1. (insn = "mret" \/ (Csr!Accesses(insn) /\ Csr!csr_en(insn) /\ Csr!csr_addr(insn)[1])) = FALSE
    BY <1>1
  <2> QED BY <2>1 DEF Csr!TrapTarget, Csr!MTVEC
<1>3. csr' = Csr!AfterTrap(csr, insn, FALSE, irq, {}, {})
  BY DEF Trap
<1>4. /\ csr'.rf = [csr.rf EXCEPT ![Csr!MEPC] = {}, ![Csr!MTVAL] = {}]
      /\ csr'.mie = FALSE /\ csr'.mtie = Csr!mtie_of_trap(csr, insn, FALSE)
      /\ DOMAIN csr' = {"mie", "mpie", "mtie", "mcause", "rf"}
  BY <1>3 DEF Csr!AfterTrap
<1>5. Csr!mtie_of_trap(csr, insn, FALSE) = csr.mtie
  BY <1>1 DEF Csr!mtie_of_trap
<1>6. Csr!MTVEC # Csr!MEPC /\ Csr!MTVEC # Csr!MTVAL
  BY DEF Csr!MTVEC, Csr!MEPC, Csr!MTVAL
<1>7. csr'.rf[Csr!MTVEC] = csr.rf[Csr!MTVEC] /\ DOMAIN csr'.rf = DOMAIN csr.rf
  BY <1>4, <1>6 DEF Types
<1>8. UNCHANGED <<globals, devices>> /\ pc' = <<"irq_entry", 1>>
  BY <1>2 DEF Trap
<1> QED BY <1>4, <1>5, <1>7, <1>8 DEF Types

-----------------------------------------------------------------------------
(* The frames.                                                                 *)

(* The remainder of a number below the modulus, and of the modulus.            *)
LEMMA Remainders ==
    ASSUME NEW m \in Nat \ {0}
    PROVE  (m % m) = 0 /\ \A w \in 0 .. m - 1 : (w % m) = w
BY SMT

(* The first frame is one; after each comes one, the next by number, and all   *)
(* addresses fit into the register of servant_spi.                             *)
LEMMA FrameFacts ==
    /\ INPUT_BUFFER_ADDR \in FrameAddresses /\ Number(INPUT_BUFFER_ADDR) = 0
    /\ \A a \in FrameAddresses :
           /\ a \in Nat /\ a > 0 /\ a < FlashSize
           /\ NextFrame(a) \in FrameAddresses
           /\ Number(NextFrame(a)) = (Number(a) + 1) % Frames
<1> DEFINE base == INPUT_BUFFER_ADDR
<1>1. base \in Nat /\ base > 0 /\ FlashSize \in Nat
  BY SMT DEF INPUT_BUFFER_ADDR, INT_MEM_2_ADDR, INT_MEM_1_ADDR, INT_MEM1_DEPTH, INT_MEM2_DEPTH,
             FlashSize
<1>2. Frames \in Nat \ {0} /\ base + Frames * 16 <= FlashSize
  BY FirmwareAssumption, FlashAssumption DEF OFFSET_CHANNELS
<1>3. FrameAddresses = {base + k * 16 : k \in 0 .. Frames - 1}
  BY DEF FrameAddresses, OFFSET_CHANNELS
<1>4. \A a : /\ Number(a) = (a - base) \div 16
             /\ NextFrame(a) = base + ((a + 16 - base) % (Frames * 16))
  BY DEF Number, NextFrame, OFFSET_CHANNELS
<1> HIDE DEF base
<1>5. base \in FrameAddresses /\ Number(base) = 0
  <2>1. base + 0 * 16 = base /\ 0 \in 0 .. Frames - 1
    BY <1>1, <1>2
  <2>2. (base - base) \div 16 = 0
    BY <1>1
  <2> QED BY <1>3, <1>4, <2>1, <2>2
<1>6. ASSUME NEW a \in FrameAddresses
      PROVE  /\ a \in Nat /\ a > 0 /\ a < FlashSize
             /\ NextFrame(a) \in FrameAddresses
             /\ Number(NextFrame(a)) = (Number(a) + 1) % Frames
  <2>1. PICK k \in 0 .. Frames - 1 : a = base + k * 16
    BY <1>3
  <2>2. PICK m \in Nat \ {0} : m = Frames * 16
    BY <1>2
  <2>3. a \in Nat /\ a > 0 /\ a < FlashSize /\ (a - base) \div 16 = k
    BY <1>1, <1>2, <2>1
  <2>4. NextFrame(a) = base + ((k * 16 + 16) % m)
    BY <1>1, <1>4, <2>1, <2>2
  <2>5. Number(a) = k
    BY <1>4, <2>3
  <2>6. CASE k + 1 < Frames
    <3>1. (k * 16 + 16) % m = (k + 1) * 16 /\ (k + 1) % Frames = k + 1
      <4>1. k * 16 + 16 \in 0 .. m - 1 /\ k + 1 \in 0 .. Frames - 1
        BY <1>2, <2>2, <2>6
      <4>2. (k * 16 + 16) % m = k * 16 + 16
        BY <4>1, Remainders
      <4>3. (k + 1) % Frames = k + 1
        BY <4>1, <1>2, Remainders
      <4> QED BY <4>2, <4>3
    <3>2. NextFrame(a) = base + (k + 1) * 16 /\ k + 1 \in 0 .. Frames - 1
      BY <1>2, <2>4, <2>6, <3>1
    <3>3. NextFrame(a) \in FrameAddresses
      BY <1>3, <3>2
    <3>4. (base + (k + 1) * 16 - base) \div 16 = k + 1
      BY <1>1
    <3>5. Number(NextFrame(a)) = k + 1
      <4>1. PICK b \in Int : b = NextFrame(a) /\ b = base + (k + 1) * 16
        BY <1>1, <3>2
      <4>2. Number(b) = (b - base) \div 16
        BY <1>4
      <4> QED BY <1>1, <3>4, <4>1, <4>2
    <3> QED BY <2>3, <2>5, <3>1, <3>3, <3>5
  <2>7. CASE k + 1 = Frames
    <3>1. (k * 16 + 16) % m = 0 /\ (k + 1) % Frames = 0
      <4>1. k * 16 + 16 = m
        BY <1>2, <2>2, <2>7
      <4> QED BY <4>1, <1>2, <2>2, <2>7, Remainders
    <3>2. NextFrame(a) = base
      BY <1>1, <2>4, <3>1
    <3> QED BY <1>5, <2>3, <2>7, <2>5, <3>1, <3>2
  <2> QED BY <1>2, <2>3, <2>6, <2>7
<1> QED BY <1>5, <1>6 DEF base

-----------------------------------------------------------------------------
(* The steps.                                                                  *)

(* The sections stay once main runs.                                           *)
LEMMA SectionsKept == Sections /\ UNCHANGED <<bss, data>> /\ Past(0) /\ Past(0)' => Sections'
BY DEF Sections, Past


(* The display and the data of the UART.                                     *)
LEMMA DisplayStep ==
    ASSUME IInv, WriteStep, At("main", {1, 3, 4}) \/ InferenceStep = 9,
           NEW v, NEW a \in {SERVANT_GPIO_ADDR, UART_HP, UART_DATA_ADDR}, Current = Write(a, v)
    PROVE  IInv'
<1>1. /\ UNCHANGED <<bss, data, input_buf_adr, csr, estu, spi, master, memory,
                     encoding, accel, timer, n_gate_serv>>
      /\ uart'.sending = uart.sending /\ DOMAIN uart' = DOMAIN uart
      /\ pc' = <<pc[1], pc[2] + 1>>
  BY DisplayWritten DEF Others, Advance, globals
<1> USE <1>1 DEF IInv, At, Past, InferenceStep, ReadStep, Into, From, HowMuch, FrameRead
<1>2. Types'
  BY DEF Types
<1>3. Sections'
  BY SectionsKept DEF Types, Past
<1>4. Enabling' /\ Clocks' /\ SettingUp' /\ Sending'
  BY DEF Types, Enabling, Clocks, SettingUp, Sending, Accelerating
<1>5. Transferring' /\ Memories'
  BY DEF Types, Transferring, Memories, Loaded
<1>6. Accelerating'
  BY DEF Types, Transferring, Accelerating, Rests, Waits, Holds, Computes, Knows
<1>7. FramesInTurn'
  BY DEF Types, FramesInTurn, Due, Frame, Loaded, Transferring, Accelerating, Rests, Waits,
     Holds, Computes, Knows
<1> QED BY <1>2, <1>3, <1>4, <1>5, <1>6, <1>7

(* The write enables of the weight memories.                                 *)
LEMMA EnableStep ==
    ASSUME IInv, WriteStep, At("main", {8, 14, 20}), NEW v \in 0 .. 2, Current = Write(ESTU_WREN, v),
           v = IF pc[2] = 8 THEN 1 ELSE IF pc[2] = 14 THEN 2 ELSE 0
    PROVE  IInv'
<1>1. /\ UNCHANGED <<bss, data, input_buf_adr, csr, uart, spi, master, memory,
                     encoding, accel, timer, n_gate_serv>>
      /\ estu' = [estu EXCEPT !.mm_external_wren = v]
      /\ pc' = <<pc[1], pc[2] + 1>>
  BY EstuWritten DEF EstuWrite, ESTU_WREN, Others, Advance, globals
<1> USE <1>1 DEF IInv, At, Past, InferenceStep, ReadStep, Into, From, HowMuch, FrameRead
<1>2. Types'
  BY DEF Types
<1>3. Sections'
  BY SectionsKept DEF Types, Past
<1>4. Enabling' /\ Clocks' /\ SettingUp' /\ Sending'
  BY DEF Types, Enabling, Clocks, SettingUp, Sending, Accelerating
<1>5. Transferring' /\ Memories'
  BY DEF Types, Transferring, Memories, Loaded
<1>6. Accelerating'
  BY DEF Types, Transferring, Accelerating, Rests, Waits, Holds, Computes, Knows
<1>7. FramesInTurn'
  BY DEF Types, FramesInTurn, Due, Frame, Loaded, Transferring, Accelerating, Rests, Waits,
     Holds, Computes, Knows
<1> QED BY <1>2, <1>3, <1>4, <1>5, <1>6, <1>7

(* The encoder is not bypassed.                                              *)
LEMMA BypassStep ==
    ASSUME IInv, WriteStep, At("main", {22}), Current = Write(ESTU_ENCODING_BYPASS, 0)
    PROVE  IInv'
<1>0. PICK off \in BOOLEAN : off = FALSE
  OBVIOUS
<1>1. /\ UNCHANGED <<bss, data, input_buf_adr, csr, uart, spi, master, memory,
                     encoding, accel, timer, n_gate_serv>>
      /\ estu' = [estu EXCEPT !.mm_encoding_bypass = off]
      /\ pc' = <<pc[1], pc[2] + 1>>
  <2>1. (0 % 2 = 1) = off
    BY <1>0
  <2>2. /\ UNCHANGED <<uart, spi, master, timer, n_gate_serv>> /\ Others /\ Advance
        /\ estu' = [estu EXCEPT !.mm_encoding_bypass = (0 % 2 = 1)]
    BY EstuWritten DEF EstuWrite, ESTU_ENCODING_BYPASS
  <2> QED BY <2>1, <2>2 DEF Others, Advance, globals
<1> USE <1>0, <1>1 DEF IInv, At, Past, InferenceStep, ReadStep, Into, From, HowMuch, FrameRead
<1>2. Types'
  BY DEF Types
<1>3. Sections'
  BY SectionsKept DEF Types, Past
<1>4. Enabling' /\ Clocks' /\ SettingUp' /\ Sending'
  BY DEF Types, Enabling, Clocks, SettingUp, Sending, Accelerating
<1>5. Transferring' /\ Memories'
  BY DEF Types, Transferring, Memories, Loaded
<1>6. Accelerating'
  BY DEF Types, Transferring, Accelerating, Rests, Waits, Holds, Computes, Knows
<1>7. FramesInTurn'
  BY DEF Types, FramesInTurn, Due, Frame, Loaded, Transferring, Accelerating, Rests, Waits,
     Holds, Computes, Knows
<1> QED BY <1>2, <1>3, <1>4, <1>5, <1>6, <1>7

(* The length of the program.                                                *)
LEMMA LengthStep ==
    ASSUME IInv, WriteStep, At("main", {23}), Current = Write(ESTU_NUM_INSTRUCTIONS, NUM_INSTRUCTIONS)
    PROVE  IInv'
<1>1. /\ UNCHANGED <<bss, data, input_buf_adr, csr, uart, spi, master, memory,
                     encoding, accel, timer, n_gate_serv>>
      /\ estu' = [estu EXCEPT !.mm_num_instr = NUM_INSTRUCTIONS]
      /\ pc' = <<pc[1], pc[2] + 1>>
      /\ NUM_INSTRUCTIONS \in Nat
  BY EstuWritten DEF EstuWrite, ESTU_NUM_INSTRUCTIONS, NUM_INSTRUCTIONS, Others, Advance, globals
<1> USE <1>1 DEF IInv, At, Past, InferenceStep, ReadStep, Into, From, HowMuch, FrameRead
<1>2. Types'
  BY DEF Types
<1>3. Sections'
  BY SectionsKept DEF Types, Past
<1>4. Enabling' /\ Clocks' /\ SettingUp' /\ Sending'
  BY DEF Types, Enabling, Clocks, SettingUp, Sending, Accelerating
<1>5. Transferring' /\ Memories'
  BY DEF Types, Transferring, Memories, Loaded
<1>6. Accelerating'
  BY DEF Types, Transferring, Accelerating, Rests, Waits, Holds, Computes, Knows
<1>7. FramesInTurn'
  BY DEF Types, FramesInTurn, Due, Frame, Loaded, Transferring, Accelerating, Rests, Waits,
     Holds, Computes, Knows
<1> QED BY <1>2, <1>3, <1>4, <1>5, <1>6, <1>7

(* The start bit: from now on the accelerator waits for the frame.           *)
LEMMA StartStep ==
    ASSUME IInv, WriteStep, InferenceStep = 1, Current = Write(ESTU_START_INFERENCE, 1)
    PROVE  IInv'
<1>0. PICK on \in BOOLEAN : on = TRUE
  OBVIOUS
<1>1. /\ UNCHANGED <<bss, data, input_buf_adr, csr, uart, spi, master, memory,
                     encoding, accel, timer, n_gate_serv>>
      /\ estu' = [estu EXCEPT !.mm_start_inference = on] /\ on \in BOOLEAN
      /\ pc' = <<pc[1], pc[2] + 1>>
  <2>0. 1 % 2 = 1
    OBVIOUS
  <2>1. (1 % 2 = 1) = TRUE
    BY <2>0
  <2>2. /\ UNCHANGED <<uart, spi, master, timer, n_gate_serv>> /\ Others /\ Advance
        /\ estu' = [estu EXCEPT !.mm_start_inference = (1 % 2 = 1)]
    BY EstuWritten DEF EstuWrite, ESTU_START_INFERENCE
  <2> QED BY <1>0, <2>1, <2>2 DEF Others, Advance, globals
<1> USE <1>1 DEF IInv, At, Past, InferenceStep, ReadStep, Into, From, HowMuch, FrameRead
<1>2. Types'
  BY DEF Types
<1>3. Sections'
  BY SectionsKept DEF Types, Past
<1>4. Enabling' /\ Clocks' /\ SettingUp' /\ Sending'
  BY DEF Types, Enabling, Clocks, SettingUp, Sending, Accelerating
<1>5. Transferring' /\ Memories'
  BY DEF Types, Transferring, Memories, Loaded
<1>6. Accelerating'
  BY <1>0 DEF Types, Transferring, Accelerating, Rests, Waits, Holds, Computes, Knows
<1>7. FramesInTurn'
  BY <1>0 DEF Types, FramesInTurn, Due, Frame, Loaded, Transferring, Accelerating, Rests, Waits,
     Holds, Computes, Knows
<1> QED BY <1>2, <1>3, <1>4, <1>5, <1>6, <1>7

(* The answer is sent.                                                       *)
LEMMA SendStep ==
    ASSUME IInv, WriteStep, InferenceStep = 10, Current = Write(UART_SEND_ADDR, 1)
    PROVE  IInv'
<1>1. /\ UNCHANGED <<bss, data, input_buf_adr, csr, estu, spi, master, memory,
                     encoding, accel, timer, n_gate_serv>>
      /\ uart' = [uart EXCEPT !.sending = TRUE]
      /\ pc' = <<pc[1], pc[2] + 1>>
  BY SendWritten DEF Others, Advance, globals
<1> USE <1>1 DEF IInv, At, Past, InferenceStep, ReadStep, Into, From, HowMuch, FrameRead
<1>2. Types'
  BY DEF Types
<1>3. Sections'
  BY SectionsKept DEF Types, Past
<1>4. Enabling' /\ Clocks' /\ SettingUp' /\ Sending'
  BY DEF Types, Enabling, Clocks, SettingUp, Sending, Accelerating
<1>5. Transferring' /\ Memories'
  BY DEF Types, Transferring, Memories, Loaded
<1>6. Accelerating'
  BY DEF Types, Transferring, Accelerating, Rests, Waits, Holds, Computes, Knows
<1>7. FramesInTurn'
  BY DEF Types, FramesInTurn, Due, Frame, Loaded, Transferring, Accelerating, Rests, Waits,
     Holds, Computes, Knows
<1> QED BY <1>2, <1>3, <1>4, <1>5, <1>6, <1>7

(* The comparison value of the timer.                                        *)
LEMMA CompareStep ==
    ASSUME IInv, WriteStep, At("main", {35}), Current = Write(RISCV_MTIMECMP_ADDR, TIME)
    PROVE  IInv'
<1>1. /\ UNCHANGED <<bss, data, input_buf_adr, csr, uart, estu, spi, master, memory,
                     encoding, accel, n_gate_serv>>
      /\ timer' = [mtimecmp |-> TIME, o_irq |-> FALSE]
      /\ pc' = <<pc[1], pc[2] + 1>>
      /\ TIME \in Nat
  BY TimerWritten DEF Others, Advance, globals, TIME
<1> USE <1>1 DEF IInv, At, Past, InferenceStep, ReadStep, Into, From, HowMuch, FrameRead
<1>2. Types'
  BY DEF Types
<1>3. Sections'
  BY SectionsKept DEF Types, Past
<1>4. Enabling' /\ Clocks' /\ SettingUp' /\ Sending'
  BY DEF Types, Enabling, Clocks, SettingUp, Sending, Accelerating
<1>5. Transferring' /\ Memories'
  BY DEF Types, Transferring, Memories, Loaded
<1>6. Accelerating'
  BY DEF Types, Transferring, Accelerating, Rests, Waits, Holds, Computes, Knows
<1>7. FramesInTurn'
  BY DEF Types, FramesInTurn, Due, Frame, Loaded, Transferring, Accelerating, Rests, Waits,
     Holds, Computes, Knows
<1> QED BY <1>2, <1>3, <1>4, <1>5, <1>6, <1>7

(* The gate.                                                                 *)
LEMMA GateStep ==
    ASSUME IInv, WriteStep, At("irq_entry", {12}), Current = Write(CLOCK_GATE_CTRL, 1)
    PROVE  IInv'
<1>1. /\ UNCHANGED <<bss, data, input_buf_adr, csr, uart, estu, spi, master, memory,
                     encoding, accel, timer>>
      /\ n_gate_serv' \in BOOLEAN
      /\ pc' = <<pc[1], pc[2] + 1>>
  BY GateWritten DEF Others, Advance, globals
<1> USE <1>1 DEF IInv, At, Past, InferenceStep, ReadStep, Into, From, HowMuch, FrameRead
<1>2. Types'
  BY DEF Types
<1>3. Sections'
  BY SectionsKept DEF Types, Past
<1>4. Enabling' /\ Clocks' /\ SettingUp' /\ Sending'
  BY DEF Types, Enabling, Clocks, SettingUp, Sending, Accelerating
<1>5. Transferring' /\ Memories'
  BY DEF Types, Transferring, Memories, Loaded
<1>6. Accelerating'
  BY DEF Types, Transferring, Accelerating, Rests, Waits, Holds, Computes, Knows
<1>7. FramesInTurn'
  BY DEF Types, FramesInTurn, Due, Frame, Loaded, Transferring, Accelerating, Rests, Waits,
     Holds, Computes, Knows
<1> QED BY <1>2, <1>3, <1>4, <1>5, <1>6, <1>7

(* The addresses of the images and of the frame fit into the register.         *)
LEMMA FromFits == ASSUME IInv, ReadStep \in 1 .. 5 PROVE From \in Nat /\ From < FlashSize
<1>1. INT_MEM_1_ADDR \in Nat /\ INT_MEM_1_ADDR < FlashSize
      /\ INT_MEM_2_ADDR \in Nat /\ INT_MEM_2_ADDR < FlashSize
  BY SMT DEF INT_MEM_2_ADDR, INT_MEM_1_ADDR, INT_MEM1_DEPTH, FlashSize
<1>2. ~At("main", 9 .. 13) /\ ~At("main", 15 .. 19) => Past(21)
  BY DEF ReadStep, InferenceStep, At, Past
<1> QED BY <1>1, <1>2, FrameFacts DEF From, IInv, FramesInTurn

(* The address of a transfer.                                                *)
LEMMA AddressStep ==
    ASSUME IInv, WriteStep, ReadStep = 1, Current = Write(SPI_ADDR, From)
    PROVE  IInv'
<1>1. /\ UNCHANGED <<bss, data, input_buf_adr, csr, uart, estu, master, memory,
                     encoding, accel, timer, n_gate_serv>>
      /\ spi' = [spi EXCEPT !.mm_spi_adr = From] /\ From \in Nat
      /\ pc' = <<pc[1], pc[2] + 1>>
  <2>1. /\ UNCHANGED <<uart, estu, timer, n_gate_serv>> /\ Others /\ Advance
        /\ spi' = SpiWrite(0, From) /\ master' = Begins(0, From)
    BY SpiWritten DEF SPI_ADDR
  <2>2. PICK a \in Nat, m \in Nat \ {0} : a = From /\ m = FlashSize /\ a < m
    BY FromFits, SMT DEF FlashSize
  <2>3. a % m = a
    BY <2>2, Remainders
  <2>4. spi' = [spi EXCEPT !.mm_spi_adr = a % m] /\ master' = master
    BY <2>1, <2>2 DEF SpiWrite, Begins
  <2> QED BY <2>1, <2>2, <2>3, <2>4 DEF Others, Advance, globals
<1> USE <1>1 DEF IInv, At, Past, InferenceStep, ReadStep, Into, From, HowMuch, FrameRead
<1>2. Types'
  BY DEF Types
<1>3. Sections'
  BY SectionsKept DEF Types, Past
<1>4. Enabling' /\ Clocks' /\ SettingUp' /\ Sending'
  BY DEF Types, Enabling, Clocks, SettingUp, Sending, Accelerating
<1>5. Transferring' /\ Memories'
  BY DEF Types, Transferring, Memories, Loaded
<1>6. Accelerating'
  BY DEF Types, Transferring, Accelerating, Rests, Waits, Holds, Computes, Knows
<1>7. FramesInTurn'
  BY DEF Types, FramesInTurn, Due, Frame, Loaded, Transferring, Accelerating, Rests, Waits,
     Holds, Computes, Knows
<1> QED BY <1>2, <1>3, <1>4, <1>5, <1>6, <1>7

(* The memory it goes to.                                                    *)
LEMMA TargetStep ==
    ASSUME IInv, WriteStep, ReadStep = 2, Current = Write(SPI_SEL_MEM_OUT, Into)
    PROVE  IInv'
<1>1. /\ UNCHANGED <<bss, data, input_buf_adr, csr, uart, estu, master, memory,
                     encoding, accel, timer, n_gate_serv>>
      /\ spi' = [spi EXCEPT !.mm_mem_address = Into] /\ Into \in Nat
      /\ pc' = <<pc[1], pc[2] + 1>>
  <2>1. /\ UNCHANGED <<uart, estu, timer, n_gate_serv>> /\ Others /\ Advance
        /\ spi' = SpiWrite(1, Into) /\ master' = Begins(1, Into)
    BY SpiWritten DEF SPI_SEL_MEM_OUT
  <2>2. spi' = [spi EXCEPT !.mm_mem_address = Into] /\ master' = master
    BY <2>1 DEF SpiWrite, Begins
  <2>3. Into \in Nat
    BY DEF Into, INT_MEM1_ID, INT_MEM2_ID, INPUT_BUFFER_ID
  <2> QED BY <2>1, <2>2, <2>3 DEF Others, Advance, globals
<1> USE <1>1 DEF IInv, At, Past, InferenceStep, ReadStep, Into, From, HowMuch, FrameRead
<1>2. Types'
  BY DEF Types
<1>3. Sections'
  BY SectionsKept DEF Types, Past
<1>4. Enabling' /\ Clocks' /\ SettingUp' /\ Sending'
  BY DEF Types, Enabling, Clocks, SettingUp, Sending, Accelerating
<1>5. Transferring' /\ Memories'
  BY DEF Types, Transferring, Memories, Loaded
<1>6. Accelerating'
  BY DEF Types, Transferring, Accelerating, Rests, Waits, Holds, Computes, Knows
<1>7. FramesInTurn'
  BY DEF Types, FramesInTurn, Due, Frame, Loaded, Transferring, Accelerating, Rests, Waits,
     Holds, Computes, Knows
<1> QED BY <1>2, <1>3, <1>4, <1>5, <1>6, <1>7

(* Its size.                                                                 *)
LEMMA SizeStep ==
    ASSUME IInv, WriteStep, ReadStep = 3, Current = Write(SPI_READ_SIZE_ADDR, HowMuch)
    PROVE  IInv'
<1>1. /\ UNCHANGED <<bss, data, input_buf_adr, csr, uart, estu, master, memory,
                     encoding, accel, timer, n_gate_serv>>
      /\ spi' = [spi EXCEPT !.mm_read_size = HowMuch] /\ HowMuch \in Nat
      /\ pc' = <<pc[1], pc[2] + 1>>
  <2>1. /\ UNCHANGED <<uart, estu, timer, n_gate_serv>> /\ Others /\ Advance
        /\ spi' = SpiWrite(2, HowMuch) /\ master' = Begins(2, HowMuch)
    BY SpiWritten DEF SPI_READ_SIZE_ADDR
  <2>2. spi' = [spi EXCEPT !.mm_read_size = HowMuch % 262144] /\ master' = master
    BY <2>1, SMT DEF SpiWrite, Begins
  <2>3. HowMuch \in Nat /\ HowMuch % 262144 = HowMuch
    BY SMT DEF HowMuch, WEIGHTS_SIZE_1, WEIGHTS_SIZE_2, INPUT_CHANNELS
  <2>4. spi' = [spi EXCEPT !.mm_read_size = HowMuch]
    BY <2>2, <2>3, SMT
  <2> QED BY <2>1, <2>2, <2>3, <2>4 DEF Others, Advance, globals
<1> USE <1>1 DEF IInv, At, Past, InferenceStep, ReadStep, Into, From, HowMuch, FrameRead
<1>2. Types'
  BY DEF Types
<1>3. Sections'
  BY SectionsKept DEF Types, Past
<1>4. Enabling' /\ Clocks' /\ SettingUp' /\ Sending'
  BY DEF Types, Enabling, Clocks, SettingUp, Sending, Accelerating
<1>5. Transferring' /\ Memories'
  BY DEF Types, Transferring, Memories, Loaded
<1>6. Accelerating'
  BY DEF Types, Transferring, Accelerating, Rests, Waits, Holds, Computes, Knows
<1>7. FramesInTurn'
  BY DEF Types, FramesInTurn, Due, Frame, Loaded, Transferring, Accelerating, Rests, Waits,
     Holds, Computes, Knows
<1> QED BY <1>2, <1>3, <1>4, <1>5, <1>6, <1>7

(* The start of a transfer, which finds the loader idle.                     *)
LEMMA BeginStep ==
    ASSUME IInv, WriteStep, ReadStep = 4, Current = Write(SPI_START_ADDR, 1)
    PROVE  IInv'
<1>1. /\ UNCHANGED <<bss, data, input_buf_adr, csr, uart, estu, spi, memory,
                     encoding, accel, timer, n_gate_serv>>
      /\ master' = [adr |-> spi.mm_spi_adr, size |-> spi.mm_read_size, left |-> 2]
      /\ pc' = <<pc[1], pc[2] + 1>>
  <2>1. /\ UNCHANGED <<uart, estu, timer, n_gate_serv>> /\ Others /\ Advance
        /\ spi' = SpiWrite(3, 1) /\ master' = Begins(3, 1)
    BY SpiWritten DEF SPI_START_ADDR
  <2>2. spi' = spi
    BY <2>1 DEF SpiWrite
  <2>3. master.left = 0 /\ 1 % 2 = 1
    BY DEF IInv, Transferring
  <2>4. master' = [adr |-> spi.mm_spi_adr, size |-> spi.mm_read_size, left |-> 2]
    BY <2>1, <2>3 DEF Begins
  <2> QED BY <2>1, <2>2, <2>4 DEF Others, Advance, globals
<1> USE <1>1 DEF IInv, At, Past, InferenceStep, ReadStep, Into, From, HowMuch, FrameRead
<1>2. Types'
  BY DEF Types
<1>3. Sections'
  BY SectionsKept DEF Types, Past
<1>4. Enabling' /\ Clocks' /\ SettingUp' /\ Sending'
  BY DEF Types, Enabling, Clocks, SettingUp, Sending, Accelerating
<1>5. Transferring' /\ Memories'
  BY DEF Types, Transferring, Memories, Loaded
<1>6. Accelerating'
  BY DEF Types, Transferring, Accelerating, Rests, Waits, Holds, Computes, Knows
<1>7. FramesInTurn'
  BY DEF Types, FramesInTurn, Due, Frame, Loaded, Transferring, Accelerating, Rests, Waits,
     Holds, Computes, Knows
<1> QED BY <1>2, <1>3, <1>4, <1>5, <1>6, <1>7

(* The buttons are found to read zero.                                       *)
LEMMA ButtonStep ==
    ASSUME IInv, PollStep, At("main", {2}), Current = Poll(SERVANT_GPIO_ADDR)
    PROVE  IInv'
<1>1. /\ UNCHANGED <<bss, data, input_buf_adr, csr, uart, estu, spi, master, memory,
                     encoding, accel, timer, n_gate_serv>>
      /\ pc' = <<pc[1], pc[2] + 1>>
  <2>1. Current.adr = SERVANT_GPIO_ADDR
    BY DEF Poll
  <2>2. Found(SERVANT_GPIO_ADDR) /\ Advance
        /\ UNCHANGED <<bss, data, input_buf_adr, csr, uart, master, memory, encoding, accel, timer,
                       n_gate_serv>>
    BY <2>1 DEF PollStep
  <2>3. /\ spi' = SpiRead(SERVANT_GPIO_ADDR)
        /\ estu' = IF SERVANT_GPIO_ADDR = ESTU_DATA THEN [estu EXCEPT !.valid_ll = FALSE] ELSE estu
    BY <2>1 DEF PollStep
  <2> QED BY <2>2, <2>3 DEF SpiRead, Advance, SERVANT_GPIO_ADDR, SPI_VALID_ADDR, ESTU_DATA
<1> USE <1>1 DEF IInv, At, Past, InferenceStep, ReadStep, Into, From, HowMuch, FrameRead
<1>2. Types'
  BY DEF Types
<1>3. Sections'
  BY SectionsKept DEF Types, Past
<1>4. Enabling' /\ Clocks' /\ SettingUp' /\ Sending'
  BY DEF Types, Enabling, Clocks, SettingUp, Sending, Accelerating
<1>5. Transferring' /\ Memories'
  BY DEF Types, Transferring, Memories, Loaded
<1>6. Accelerating'
  BY DEF Types, Transferring, Accelerating, Rests, Waits, Holds, Computes, Knows
<1>7. FramesInTurn'
  BY DEF Types, FramesInTurn, Due, Frame, Loaded, Transferring, Accelerating, Rests, Waits,
     Holds, Computes, Knows
<1> QED BY <1>2, <1>3, <1>4, <1>5, <1>6, <1>7

(* The answer is found sent.                                                 *)
LEMMA SentStep ==
    ASSUME IInv, PollStep, InferenceStep = 11, Current = Poll(UART_READY_ADDR)
    PROVE  IInv'
<1>1. /\ UNCHANGED <<bss, data, input_buf_adr, csr, uart, estu, spi, master, memory,
                     encoding, accel, timer, n_gate_serv>>
      /\ ~uart.sending
      /\ pc' = <<pc[1], pc[2] + 1>>
  <2>1. Current.adr = UART_READY_ADDR
    BY DEF Poll
  <2>2. Found(UART_READY_ADDR) /\ Advance
        /\ UNCHANGED <<bss, data, input_buf_adr, csr, uart, master, memory, encoding, accel, timer,
                       n_gate_serv>>
    BY <2>1 DEF PollStep
  <2>3. /\ spi' = SpiRead(UART_READY_ADDR)
        /\ estu' = IF UART_READY_ADDR = ESTU_DATA THEN [estu EXCEPT !.valid_ll = FALSE] ELSE estu
    BY <2>1 DEF PollStep
  <2>4. ~uart.sending
    BY <2>2 DEF Found, SERVANT_GPIO_ADDR, SPI_VALID_ADDR, ESTU_DATA, UART_READY_ADDR
  <2> QED BY <2>2, <2>3, <2>4 DEF SpiRead, Advance, UART_READY_ADDR, SPI_VALID_ADDR, ESTU_DATA
<1> USE <1>1 DEF IInv, At, Past, InferenceStep, ReadStep, Into, From, HowMuch, FrameRead
<1>2. Types'
  BY DEF Types
<1>3. Sections'
  BY SectionsKept DEF Types, Past
<1>4. Enabling' /\ Clocks' /\ SettingUp' /\ Sending'
  BY DEF Types, Enabling, Clocks, SettingUp, Sending, Accelerating
<1>5. Transferring' /\ Memories'
  BY DEF Types, Transferring, Memories, Loaded
<1>6. Accelerating'
  BY DEF Types, Transferring, Accelerating, Rests, Waits, Holds, Computes, Knows
<1>7. FramesInTurn'
  BY DEF Types, FramesInTurn, Due, Frame, Loaded, Transferring, Accelerating, Rests, Waits,
     Holds, Computes, Knows
<1> QED BY <1>2, <1>3, <1>4, <1>5, <1>6, <1>7

(* The transfer is found complete.                                           *)
LEMMA LoadedStep ==
    ASSUME IInv, PollStep, ReadStep = 5, Current = Poll(SPI_VALID_ADDR)
    PROVE  IInv'
<1>0. PICK off \in BOOLEAN : off = FALSE
  OBVIOUS
<1>1. /\ UNCHANGED <<bss, data, input_buf_adr, csr, uart, estu, master, memory,
                     encoding, accel, timer, n_gate_serv>>
      /\ spi.mm_spi_valid
      /\ spi' = [spi EXCEPT !.mm_spi_valid = off] /\ ~off /\ off \in BOOLEAN
      /\ pc' = <<pc[1], pc[2] + 1>>
  <2>1. Current.adr = SPI_VALID_ADDR
    BY DEF Poll
  <2>2. Found(SPI_VALID_ADDR) /\ Advance
        /\ UNCHANGED <<bss, data, input_buf_adr, csr, uart, master, memory, encoding, accel, timer,
                       n_gate_serv>>
    BY <2>1 DEF PollStep
  <2>3. /\ spi' = SpiRead(SPI_VALID_ADDR)
        /\ estu' = IF SPI_VALID_ADDR = ESTU_DATA THEN [estu EXCEPT !.valid_ll = FALSE] ELSE estu
    BY <2>1 DEF PollStep
  <2>4. spi.mm_spi_valid
    BY <2>2 DEF Found, SERVANT_GPIO_ADDR, SPI_VALID_ADDR, ESTU_DATA, UART_READY_ADDR
  <2>5. SPI_VALID_ADDR # ESTU_DATA
    BY DEF SPI_VALID_ADDR, ESTU_DATA
  <2> QED BY <1>0, <2>2, <2>3, <2>4, <2>5 DEF SpiRead, Advance
<1> USE <1>1 DEF IInv, At, Past, InferenceStep, ReadStep, Into, From, HowMuch, FrameRead
<1>2. Types'
  BY DEF Types
<1>3. Sections'
  BY SectionsKept DEF Types, Past
<1>4. Enabling' /\ Clocks' /\ SettingUp' /\ Sending'
  BY DEF Types, Enabling, Clocks, SettingUp, Sending, Accelerating
<1>5. Transferring' /\ Memories'
  <2>1. master.left = 0 /\ memory[Into] = <<<<From, HowMuch>>, <<From, HowMuch>>>>
    <3>1. Into \in 0 .. 2
      BY DEF INT_MEM1_ID, INT_MEM2_ID, INPUT_BUFFER_ID
    <3>2. PICK m \in 0 .. 2, a \in Nat \X Nat : m = Into /\ a = memory[Into][1]
      BY <3>1 DEF Types
    <3>3. memory[m] \in [1 .. 2 -> Nat \X Nat]
      BY DEF Types
    <3>4. master.left = 0 /\ memory[m][1] = <<From, HowMuch>> /\ memory[m][2] = <<From, HowMuch>>
      BY <3>2 DEF Types, Transferring, Memories
    <3>5. memory[m] = <<<<From, HowMuch>>, <<From, HowMuch>>>>
      BY <3>3, <3>4
    <3> QED BY <3>2, <3>4, <3>5
  <2>2. Transferring'
    BY DEF Types, Transferring
  <2>3. CASE At("main", {13})
    BY <2>1, <2>3 DEF Types, Transferring, Memories, Loaded
  <2>4. CASE At("main", {19})
    BY <2>1, <2>4 DEF Types, Transferring, Memories, Loaded
  <2>5. CASE InferenceStep = 6
    BY <2>1, <2>5 DEF Types, Transferring, Memories, Loaded
  <2> QED BY <2>2, <2>3, <2>4, <2>5 DEF Types
<1>6. Accelerating'
  BY DEF Types, Transferring, Accelerating, Rests, Waits, Holds, Computes, Knows
<1>7. FramesInTurn'
  BY DEF Types, FramesInTurn, Due, Frame, Loaded, Transferring, Accelerating, Rests, Waits,
     Holds, Computes, Knows
<1> QED BY <1>2, <1>3, <1>4, <1>5, <1>6, <1>7

(* The answer is found.                                                      *)
LEMMA AnswerStep ==
    ASSUME IInv, PollStep, InferenceStep = 8, Current = Poll(ESTU_DATA)
    PROVE  IInv'
<1>0. PICK off \in BOOLEAN : off = FALSE
  OBVIOUS
<1>1. /\ UNCHANGED <<bss, data, input_buf_adr, csr, uart, spi, master, memory,
                     encoding, accel, timer, n_gate_serv>>
      /\ estu.valid_ll
      /\ estu' = [estu EXCEPT !.valid_ll = off] /\ ~off /\ off \in BOOLEAN
      /\ pc' = <<pc[1], pc[2] + 1>>
  <2>1. Current.adr = ESTU_DATA
    BY DEF Poll
  <2>2. Found(ESTU_DATA) /\ Advance
        /\ UNCHANGED <<bss, data, input_buf_adr, csr, uart, master, memory, encoding, accel, timer,
                       n_gate_serv>>
    BY <2>1 DEF PollStep
  <2>3. /\ spi' = SpiRead(ESTU_DATA)
        /\ estu' = IF ESTU_DATA = ESTU_DATA THEN [estu EXCEPT !.valid_ll = FALSE] ELSE estu
    BY <2>1 DEF PollStep
  <2>4. estu.valid_ll
    BY <2>2 DEF Found, SERVANT_GPIO_ADDR, SPI_VALID_ADDR, ESTU_DATA, UART_READY_ADDR
  <2>5. SPI_VALID_ADDR # ESTU_DATA
    BY DEF SPI_VALID_ADDR, ESTU_DATA
  <2> QED BY <1>0, <2>2, <2>3, <2>4, <2>5 DEF SpiRead, Advance
<1> USE <1>1 DEF IInv, At, Past, InferenceStep, ReadStep, Into, From, HowMuch, FrameRead
<1>2. Types'
  BY DEF Types
<1>3. Sections'
  BY SectionsKept DEF Types, Past
<1>4. Enabling' /\ Clocks' /\ SettingUp' /\ Sending'
  BY DEF Types, Enabling, Clocks, SettingUp, Sending, Accelerating
<1>5. Transferring' /\ Memories'
  BY DEF Types, Transferring, Memories, Loaded
<1>6. Accelerating'
  BY DEF Types, Transferring, Accelerating, Rests, Waits, Holds, Computes, Knows
<1>7. FramesInTurn'
  BY FrameFacts DEF Types, FramesInTurn, Due, Frame, Loaded, Transferring, Accelerating, Rests, Waits,
     Holds, Computes, Knows
<1> QED BY <1>2, <1>3, <1>4, <1>5, <1>6, <1>7

(* The accesses to the control registers.                                    *)
LEMMA CsrStepped ==
    ASSUME IInv, CsrAccess, At("main", {5, 6, 7, 36, 37}), Current = main[pc[2]]
    PROVE  IInv'
<1>1. /\ UNCHANGED <<bss, data, input_buf_adr, uart, estu, spi, master, memory,
                     encoding, accel, timer, n_gate_serv>>
      /\ DOMAIN csr' = DOMAIN csr /\ DOMAIN csr'.rf = DOMAIN csr.rf
      /\ csr'.mie \in BOOLEAN /\ csr'.mtie \in BOOLEAN
      /\ pc[2] = 5 => ~csr'.mie /\ csr'.mtie = csr.mtie
      /\ pc[2] = 6 => csr'.mie = csr.mie /\ ~csr'.mtie
      /\ pc[2] = 7 => csr'.mie = csr.mie /\ csr'.mtie = csr.mtie
                      /\ csr'.rf[Csr!MTVEC] = irq_entry
      /\ pc[2] = 36 => csr'.mie = csr.mie /\ csr'.rf = csr.rf
      /\ pc[2] = 37 => csr'.mtie = csr.mtie /\ csr'.rf = csr.rf
      /\ pc' = <<pc[1], pc[2] + 1>>
  BY CsrWritten DEF IInv, Advance, globals, devices
<1> USE <1>1 DEF IInv, At, Past, InferenceStep, ReadStep, Into, From, HowMuch, FrameRead
<1>2. Types'
  BY DEF Types
<1>3. Sections'
  BY SectionsKept DEF Types, Past
<1>4. Enabling' /\ Clocks' /\ SettingUp' /\ Sending'
  BY DEF Types, Enabling, Clocks, SettingUp, Sending, Accelerating
<1>5. Transferring' /\ Memories'
  BY DEF Types, Transferring, Memories, Loaded
<1>6. Accelerating'
  BY DEF Types, Transferring, Accelerating, Rests, Waits, Holds, Computes, Knows
<1>7. FramesInTurn'
  BY DEF Types, FramesInTurn, Due, Frame, Loaded, Transferring, Accelerating, Rests, Waits,
     Holds, Computes, Knows
<1> QED BY <1>2, <1>3, <1>4, <1>5, <1>6, <1>7

(* The first frame.                                                          *)
LEMMA BufferStep ==
    ASSUME IInv, AssignBuffer, At("main", {21}), Current = SetBuffer(INPUT_BUFFER_ADDR)
    PROVE  IInv'
<1>1. /\ UNCHANGED <<bss, data, csr, uart, estu, spi, master, memory, encoding,
                     accel, timer, n_gate_serv>>
      /\ input_buf_adr' = INPUT_BUFFER_ADDR
      /\ pc' = <<pc[1], pc[2] + 1>>
  BY DEF AssignBuffer, SetBuffer, Advance, devices
<1> USE <1>1 DEF IInv, At, Past, InferenceStep, ReadStep, Into, From, HowMuch, FrameRead
<1>2. Types'
  BY DEF Types
<1>3. Sections'
  BY SectionsKept DEF Types, Past
<1>4. Enabling' /\ Clocks' /\ SettingUp' /\ Sending'
  BY DEF Types, Enabling, Clocks, SettingUp, Sending, Accelerating
<1>5. Transferring' /\ Memories'
  BY DEF Types, Transferring, Memories, Loaded
<1>6. Accelerating'
  BY DEF Types, Transferring, Accelerating, Rests, Waits, Holds, Computes, Knows
<1>7. FramesInTurn'
  BY FrameFacts DEF Types, FramesInTurn, Due, Frame, Loaded, Transferring, Accelerating, Rests, Waits,
     Holds, Computes, Knows
<1> QED BY <1>2, <1>3, <1>4, <1>5, <1>6, <1>7

(* The next frame.                                                           *)
LEMMA NextStep ==
    ASSUME IInv, AssignBuffer, InferenceStep = 7, Current = SetBuffer(NextFrame(input_buf_adr))
    PROVE  IInv'
<1>1. /\ UNCHANGED <<bss, data, csr, uart, estu, spi, master, memory, encoding,
                     accel, timer, n_gate_serv>>
      /\ input_buf_adr' = NextFrame(input_buf_adr)
      /\ pc' = <<pc[1], pc[2] + 1>>
  BY DEF AssignBuffer, SetBuffer, Advance, devices
<1> USE <1>1 DEF IInv, At, Past, InferenceStep, ReadStep, Into, From, HowMuch, FrameRead
<1>2. Types'
  BY DEF Types
<1>3. Sections'
  BY SectionsKept DEF Types, Past
<1>4. Enabling' /\ Clocks' /\ SettingUp' /\ Sending'
  BY DEF Types, Enabling, Clocks, SettingUp, Sending, Accelerating
<1>5. Transferring' /\ Memories'
  BY DEF Types, Transferring, Memories, Loaded
<1>6. Accelerating'
  BY DEF Types, Transferring, Accelerating, Rests, Waits, Holds, Computes, Knows
<1>7. FramesInTurn'
  BY FrameFacts DEF Types, FramesInTurn, Due, Frame, Loaded, Transferring, Accelerating, Rests, Waits,
     Holds, Computes, Knows
<1> QED BY <1>2, <1>3, <1>4, <1>5, <1>6, <1>7

(* _start clears .bss and copies .data byte by byte.                         *)
LEMMA BootStep ==
    ASSUME IInv, _enter \/ ClearBss \/ CopyData
    PROVE  IInv'
<1>1. /\ UNCHANGED <<input_buf_adr, csr, uart, estu, spi, master, memory, encoding,
                     accel, timer, n_gate_serv>>
      /\ pc[1] \in {"_enter", "bss", "data"} /\ (pc'[1] \in {"bss", "data"} \/ pc' = <<"main", 1>>)
      /\ Types' /\ Sections'
  <2>1. CASE _enter
    BY <2>1, FirmwareAssumption DEF _enter, IInv, Types, Sections, Past, globals, devices
  <2>2. CASE ClearBss
    <3>1. PICK i \in 0 .. BssSize : pc = <<"bss", i>> /\ bss = 0 .. i - 1 /\ data = {}
      <4>1. pc[1] = "bss" /\ pc \in {"bss"} \X (0 .. BssSize)
        BY <2>2 DEF ClearBss, IInv, Types
      <4>2. pc = <<"bss", pc[2]>> /\ pc[2] \in 0 .. BssSize
        BY <4>1
      <4>3. bss = 0 .. pc[2] - 1 /\ data = {}
        BY <4>1 DEF IInv, Sections
      <4> QED BY <4>2, <4>3
    <3>2. UNCHANGED <<data, input_buf_adr, csr, uart, estu, spi, master, memory,
                      encoding, accel, timer, n_gate_serv>>
      BY <2>2 DEF ClearBss, devices
    <3>3. CASE i < BssSize
      <4>1. bss' = bss \cup {i} /\ pc' = <<"bss", i + 1>>
        BY <2>2, <3>1, <3>3 DEF ClearBss, InSection, Advance
      <4>2. (0 .. i - 1) \cup {i} = 0 .. (i + 1) - 1 /\ i + 1 \in 0 .. BssSize
        BY <3>3, FirmwareAssumption
      <4> QED BY <3>1, <3>2, <4>1, <4>2 DEF IInv, Types, Sections, Past
    <3>4. CASE i = BssSize
      <4>1. bss' = bss /\ pc' = <<"data", 0>>
        BY <2>2, <3>1, <3>4, FirmwareAssumption DEF ClearBss, InSection
      <4>2. (0 .. 0 - 1) = {} /\ 0 \in 0 .. DataSize
        BY FirmwareAssumption
      <4> QED BY <3>1, <3>2, <3>4, <4>1, <4>2 DEF IInv, Types, Sections, Past
    <3> QED BY <3>3, <3>4, FirmwareAssumption
  <2>3. CASE CopyData
    <3>1. PICK i \in 0 .. DataSize :
              pc = <<"data", i>> /\ bss = 0 .. BssSize - 1 /\ data = 0 .. i - 1
      <4>1. pc[1] = "data" /\ pc \in {"data"} \X (0 .. DataSize)
        BY <2>3 DEF CopyData, IInv, Types
      <4>2. pc = <<"data", pc[2]>> /\ pc[2] \in 0 .. DataSize
        BY <4>1
      <4>3. bss = 0 .. BssSize - 1 /\ data = 0 .. pc[2] - 1
        BY <4>1 DEF IInv, Sections
      <4> QED BY <4>2, <4>3
    <3>2. UNCHANGED <<bss, input_buf_adr, csr, uart, estu, spi, master, memory,
                      encoding, accel, timer, n_gate_serv>>
      BY <2>3 DEF CopyData, devices
    <3>3. CASE i < DataSize
      <4>1. data' = data \cup {i} /\ pc' = <<"data", i + 1>>
        BY <2>3, <3>1, <3>3 DEF CopyData, InSection, Advance
      <4>2. (0 .. i - 1) \cup {i} = 0 .. (i + 1) - 1 /\ i + 1 \in 0 .. DataSize
        BY <3>3, FirmwareAssumption
      <4> QED BY <3>1, <3>2, <4>1, <4>2 DEF IInv, Types, Sections, Past
    <3>4. CASE i = DataSize
      <4>1. data' = data /\ pc' = <<"main", 1>>
        BY <2>3, <3>1, <3>4, FirmwareAssumption DEF CopyData, InSection
      <4> QED BY <3>1, <3>2, <3>4, <4>1 DEF IInv, Types, Sections, Past
    <3> QED BY <3>3, <3>4, FirmwareAssumption
  <2> QED BY <2>1, <2>2, <2>3
<1> USE <1>1 DEF IInv, At, Past, InferenceStep, ReadStep, Into, From, HowMuch, FrameRead
<1>2. Types'
  OBVIOUS
<1>3. Sections'
  OBVIOUS
<1>4. Enabling' /\ Clocks' /\ SettingUp' /\ Sending'
  BY DEF Types, Enabling, Clocks, SettingUp, Sending, Accelerating
<1>5. Transferring' /\ Memories'
  BY DEF Types, Transferring, Memories, Loaded
<1>6. Accelerating'
  BY DEF Types, Transferring, Accelerating, Rests, Waits, Holds, Computes, Knows
<1>7. FramesInTurn'
  BY DEF Types, FramesInTurn, Due, Frame, Loaded, Transferring, Accelerating, Rests, Waits,
     Holds, Computes, Knows
<1> QED BY <1>2, <1>3, <1>4, <1>5, <1>6, <1>7

(* An interrupt is taken in the loop of main only, wfi ends the handler;     *)
(* both enter it again.                                                      *)
LEMMA TrapStep ==
    ASSUME IInv, Interrupt \/ Wfi
    PROVE  IInv'
<1>1. /\ UNCHANGED <<bss, data, input_buf_adr, uart, estu, spi, master, memory,
                     encoding, accel, timer, n_gate_serv>>
      /\ DOMAIN csr' = DOMAIN csr /\ DOMAIN csr'.rf = DOMAIN csr.rf
      /\ csr'.mie \in BOOLEAN /\ ~csr'.mie /\ csr'.mtie = csr.mtie
      /\ csr'.rf[Csr!MTVEC] = irq_entry
      /\ pc' = <<"irq_entry", 1>>
      /\ At("main", {38}) \/ At("irq_entry", {13})
      /\ n_gate_serv
  <2>1. At("main", {38}) \/ At("irq_entry", {13})
    <3>1. CASE Interrupt
      BY <3>1 DEF Interrupt, IInv, Types, Enabling, At, Past
    <3>2. CASE Wfi
      BY <3>2, Lengths DEF Wfi, AtWfi, IInv, Types, At
    <3> QED BY <3>1, <3>2
  <2>2. csr.rf[Csr!MTVEC] = irq_entry
    BY <2>1 DEF IInv, Enabling, At, Past
  <2>3. n_gate_serv /\ \E insn \in {Csr!None, "ebreak"}, irq \in BOOLEAN : Trap(insn, irq)
    BY DEF Interrupt, Wfi
  <2>4. /\ UNCHANGED <<globals, devices>> /\ pc' = <<"irq_entry", 1>>
        /\ DOMAIN csr' = DOMAIN csr /\ DOMAIN csr'.rf = DOMAIN csr.rf
        /\ csr'.mie = FALSE /\ csr'.mtie = csr.mtie
        /\ csr'.rf[Csr!MTVEC] = irq_entry
    BY <2>2, <2>3, Trapped DEF IInv
  <2> QED BY <2>1, <2>3, <2>4 DEF globals, devices
<1> USE <1>1 DEF IInv, At, Past, InferenceStep, ReadStep, Into, From, HowMuch, FrameRead
<1>2. Types'
  BY DEF Types
<1>3. Sections'
  BY SectionsKept DEF Types, Past
<1>4. Enabling' /\ Clocks' /\ SettingUp' /\ Sending'
  BY DEF Types, Enabling, Clocks, SettingUp, Sending, Accelerating
<1>5. Transferring' /\ Memories'
  BY DEF Types, Transferring, Memories, Loaded
<1>6. Accelerating'
  BY DEF Types, Transferring, Accelerating, Rests, Waits, Holds, Computes, Knows
<1>7. FramesInTurn'
  BY DEF Types, FramesInTurn, Due, Frame, Loaded, Transferring, Accelerating, Rests, Waits,
     Holds, Computes, Knows
<1> QED BY <1>2, <1>3, <1>4, <1>5, <1>6, <1>7

(* The button and the sender of the UART.                                    *)
LEMMA PressStep ==
    ASSUME IInv, Press \/ Sent
    PROVE  IInv'
<1>1. /\ UNCHANGED <<pc, bss, data, input_buf_adr, csr, estu, spi, master, memory,
                     encoding, accel, timer, n_gate_serv>>
      /\ DOMAIN uart' = DOMAIN uart /\ uart'.sending \in BOOLEAN /\ (uart'.sending => uart.sending)
  <2>1. CASE Press
    BY <2>1 DEF Press, IInv, Types, globals
  <2>2. CASE Sent
    <3>1. PICK off \in BOOLEAN : off = FALSE
      OBVIOUS
    <3>2. uart' = [uart EXCEPT !.sending = off]
      BY <2>2, <3>1 DEF Sent
    <3> QED BY <2>2, <3>1, <3>2 DEF Sent, IInv, Types, globals
  <2> QED BY <2>1, <2>2
<1> USE <1>1 DEF IInv, At, Past, InferenceStep, ReadStep, Into, From, HowMuch, FrameRead
<1>2. Types'
  BY DEF Types
<1>3. Sections'
  BY DEF Sections, Past
<1>4. Enabling' /\ Clocks' /\ SettingUp' /\ Sending'
  BY DEF Types, Enabling, Clocks, SettingUp, Sending, Accelerating
<1>5. Transferring' /\ Memories'
  BY DEF Types, Transferring, Memories, Loaded
<1>6. Accelerating'
  BY DEF Types, Transferring, Accelerating, Rests, Waits, Holds, Computes, Knows
<1>7. FramesInTurn'
  BY DEF Types, FramesInTurn, Due, Frame, Loaded, Transferring, Accelerating, Rests, Waits,
     Holds, Computes, Knows
<1> QED BY <1>2, <1>3, <1>4, <1>5, <1>6, <1>7

(* The timer, and the request that opens the gate.                           *)
LEMMA TimerStep ==
    ASSUME IInv, Timer
    PROVE  IInv'
<1>1. /\ UNCHANGED <<pc, bss, data, input_buf_adr, csr, uart, estu, spi, master,
                     memory, encoding, accel>>
      /\ timer'.mtimecmp = timer.mtimecmp /\ timer' \in [mtimecmp : Nat, o_irq : BOOLEAN]
      /\ n_gate_serv' \in BOOLEAN /\ (n_gate_serv => n_gate_serv')
  BY DEF Timer, IInv, Types, globals
<1> USE <1>1 DEF IInv, At, Past, InferenceStep, ReadStep, Into, From, HowMuch, FrameRead
<1>2. Types'
  BY DEF Types
<1>3. Sections'
  BY DEF Sections, Past
<1>4. Enabling' /\ Clocks' /\ SettingUp' /\ Sending'
  BY DEF Types, Enabling, Clocks, SettingUp, Sending, Accelerating
<1>5. Transferring' /\ Memories'
  BY DEF Types, Transferring, Memories, Loaded
<1>6. Accelerating'
  BY DEF Types, Transferring, Accelerating, Rests, Waits, Holds, Computes, Knows
<1>7. FramesInTurn'
  BY DEF Types, FramesInTurn, Due, Frame, Loaded, Transferring, Accelerating, Rests, Waits,
     Holds, Computes, Knows
<1> QED BY <1>2, <1>3, <1>4, <1>5, <1>6, <1>7

(* The frame is encoded: the accelerator starts on the frame it holds.       *)
LEMMA EncodedStep ==
    ASSUME IInv, Encoded
    PROVE  IInv'
<1>0. PICK on \in BOOLEAN, off \in BOOLEAN : on = TRUE /\ off = FALSE
  OBVIOUS
<1>1. /\ UNCHANGED <<pc, bss, data, input_buf_adr, csr, uart, spi, master, memory,
                     timer, n_gate_serv>>
      /\ FrameRead /\ Holds /\ encoding' = FALSE
      /\ accel' = [accel EXCEPT !.running = on, !.fed = Frame] /\ on \in BOOLEAN /\ on
      /\ estu' = [estu EXCEPT !.mm_start_inference = off] /\ off \in BOOLEAN /\ ~off
      /\ Frame \in FrameAddresses /\ Frame \in Nat /\ Frame > 0
  <2>1. FrameRead /\ Holds /\ encoding' = FALSE
    BY DEF Encoded, IInv, Accelerating, Rests, Waits, Holds, Computes, Knows
  <2>2. /\ accel' = [accel EXCEPT !.running = TRUE, !.fed = Frame]
        /\ estu' = [estu EXCEPT !.mm_start_inference = FALSE]
    BY <2>1 DEF Encoded, Holds, Frame, INPUT_BUFFER_ID
  <2>3. Frame \in FrameAddresses
    BY <2>1 DEF IInv, FramesInTurn
  <2> QED BY <1>0, <2>1, <2>2, <2>3, FrameFacts DEF Encoded, globals
<1> USE <1>1 DEF IInv, At, Past, InferenceStep, ReadStep, Into, From, HowMuch, FrameRead
<1>2. Types'
  BY DEF Types
<1>3. Sections'
  BY SectionsKept DEF Types, Past
<1>4. Enabling' /\ Clocks' /\ SettingUp' /\ Sending'
  BY DEF Types, Enabling, Clocks, SettingUp, Sending, Accelerating
<1>5. Transferring' /\ Memories'
  BY DEF Types, Transferring, Memories, Loaded
<1>6. Accelerating'
  BY DEF Types, Transferring, Accelerating, Rests, Waits, Holds, Computes, Knows
<1>7. FramesInTurn'
  BY DEF Types, FramesInTurn, Due, Frame, Loaded, Transferring, Accelerating, Rests, Waits,
     Holds, Computes, Knows
<1> QED BY <1>2, <1>3, <1>4, <1>5, <1>6, <1>7

(* The accelerator has an answer.                                            *)
LEMMA InferredStep ==
    ASSUME IInv, Inferred
    PROVE  IInv'
<1>0. PICK on \in BOOLEAN, off \in BOOLEAN : on = TRUE /\ off = FALSE
  OBVIOUS
<1>1. /\ UNCHANGED <<pc, bss, data, input_buf_adr, csr, uart, spi, master, memory,
                     encoding, timer, n_gate_serv>>
      /\ FrameRead /\ Computes
      /\ accel' = [accel EXCEPT !.running = off, !.result = accel.fed] /\ off \in BOOLEAN /\ ~off
      /\ estu' = [estu EXCEPT !.valid_ll = on] /\ on \in BOOLEAN /\ on
  <2>1. FrameRead /\ Computes
    BY DEF Inferred, IInv, Accelerating, Rests, Waits, Holds, Computes, Knows
  <2> QED BY <1>0, <2>1 DEF Inferred, globals
<1> USE <1>1 DEF IInv, At, Past, InferenceStep, ReadStep, Into, From, HowMuch, FrameRead
<1>2. Types'
  BY DEF Types
<1>3. Sections'
  BY SectionsKept DEF Types, Past
<1>4. Enabling' /\ Clocks' /\ SettingUp' /\ Sending'
  BY DEF Types, Enabling, Clocks, SettingUp, Sending, Accelerating
<1>5. Transferring' /\ Memories'
  BY DEF Types, Transferring, Memories, Loaded
<1>6. Accelerating'
  BY DEF Types, Transferring, Accelerating, Rests, Waits, Holds, Computes, Knows
<1>7. FramesInTurn'
  BY DEF Types, FramesInTurn, Due, Frame, Loaded, Transferring, Accelerating, Rests, Waits,
     Holds, Computes, Knows
<1> QED BY <1>2, <1>3, <1>4, <1>5, <1>6, <1>7

(* A transfer runs only at the poll for its end, and fills the halves of the   *)
(* memory it was started for, in order.                                        *)
LEMMA Transferred ==
    ASSUME IInv, Transfer
    PROVE  /\ ReadStep = 5
           /\ UNCHANGED <<pc, bss, data, input_buf_adr, csr, uart, estu, accel,
                          timer, n_gate_serv>>
           /\ \E half \in 1 .. 2, m \in 0 .. 2, a \in Nat, n \in Nat \ {0},
                 valid \in BOOLEAN, full \in BOOLEAN :
                  /\ master.left = 3 - half /\ m = Into /\ a = From /\ n = HowMuch
                  /\ master' = [master EXCEPT !.left = 2 - half]
                  /\ memory' = [memory EXCEPT ![m][half] = <<a, n>>]
                  /\ spi' = [spi EXCEPT !.mm_spi_valid = valid] /\ (valid <=> half = 2)
                  /\ encoding' = full /\ (full <=> InferenceStep = 6 /\ half = 2)
<1>1. ReadStep = 5 /\ master.left \in 1 .. 2
  BY DEF Transfer, IInv, Types, Transferring
<1>2. PICK half \in 1 .. 2 : half = 3 - master.left
  BY <1>1
<1>3. PICK m \in 0 .. 2, a \in Nat, n \in Nat \ {0} : m = Into /\ a = From /\ n = HowMuch
  <2>1. Into \in 0 .. 2
    BY DEF Into, INT_MEM1_ID, INT_MEM2_ID, INPUT_BUFFER_ID
  <2>2. HowMuch \in Nat \ {0}
    BY SMT DEF HowMuch, WEIGHTS_SIZE_1, WEIGHTS_SIZE_2, INPUT_CHANNELS
  <2> QED BY <1>1, <2>1, <2>2, FromFits
<1>4. spi.mm_mem_address = m /\ master.adr = a /\ master.size = n
  BY <1>1, <1>3 DEF IInv, Transferring
<1>5. Writable(m) /\ (m = 2 <=> InferenceStep = 6)
  <2>1. CASE At("main", {13})
    <3>1. m = 0 /\ estu.mm_external_wren = 1 /\ InferenceStep = 0
      BY <1>3, <2>1 DEF Into, INT_MEM1_ID, IInv, Memories, At, InferenceStep
    <3>2. (1 \div 2^0) % 2 = 1
      OBVIOUS
    <3> QED BY <3>1, <3>2 DEF Writable
  <2>2. CASE At("main", {19})
    <3>1. m = 1 /\ estu.mm_external_wren = 2 /\ InferenceStep = 0
      BY <1>3, <2>2 DEF Into, INT_MEM2_ID, IInv, Memories, At, InferenceStep
    <3>2. (2 \div 2^1) % 2 = 1
      OBVIOUS
    <3> QED BY <3>1, <3>2 DEF Writable
  <2>3. CASE InferenceStep = 6
    BY <1>3, <2>3 DEF Into, INPUT_BUFFER_ID, Writable, At, InferenceStep
  <2> QED BY <1>1, <2>1, <2>2, <2>3 DEF ReadStep, InferenceStep, At, IInv, Types
<1>6. /\ UNCHANGED <<pc, bss, data, input_buf_adr, csr, uart, estu, accel, timer,
                     n_gate_serv>>
      /\ master' = [master EXCEPT !.left = 2 - half]
      /\ memory' = [memory EXCEPT ![m][half] = <<a, n>>]
      /\ encoding' = (encoding \/ (m = 2 /\ half = 2))
      /\ spi' = [spi EXCEPT !.mm_spi_valid = spi.mm_spi_valid \/ master.left = 1]
  <2>1. 2 - half = master.left - 1 /\ 3 - master.left = half
    BY <1>1, <1>2
  <2> QED BY <1>4, <1>5, <2>1 DEF Transfer, globals
<1>7. PICK valid \in BOOLEAN : valid = (spi.mm_spi_valid \/ master.left = 1)
  OBVIOUS
<1>8. PICK full \in BOOLEAN : full = (encoding \/ (m = 2 /\ half = 2))
  OBVIOUS
<1>9. valid <=> half = 2
  <2>1. ~spi.mm_spi_valid
    BY <1>1 DEF IInv, Transferring
  <2>2. master.left = 1 <=> half = 2
    BY <1>1, <1>2
  <2> QED BY <1>7, <2>1, <2>2
<1>10. ~encoding
  BY <1>1, <1>2 DEF IInv, Accelerating, FrameRead, Rests, Waits, ReadStep, InferenceStep, At
<1>11. full <=> InferenceStep = 6 /\ half = 2
  BY <1>5, <1>8, <1>10
<1>12. master.left = 3 - half
  BY <1>1, <1>2
<1> QED BY <1>1, <1>3, <1>6, <1>7, <1>8, <1>9, <1>11, <1>12

(* A transfer; the frame is encoded when it is complete.                       *)
LEMMA TransferStep == ASSUME IInv, Transfer PROVE IInv'
<1>1. /\ ReadStep = 5
      /\ UNCHANGED <<pc, bss, data, input_buf_adr, csr, uart, estu, accel, timer,
                     n_gate_serv>>
  BY Transferred
<1>2. PICK half \in 1 .. 2, m \in 0 .. 2, a \in Nat, n \in Nat \ {0},
           valid \in BOOLEAN, full \in BOOLEAN :
          /\ master.left = 3 - half /\ m = Into /\ a = From /\ n = HowMuch
          /\ master' = [master EXCEPT !.left = 2 - half]
          /\ memory' = [memory EXCEPT ![m][half] = <<a, n>>]
          /\ spi' = [spi EXCEPT !.mm_spi_valid = valid] /\ (valid <=> half = 2)
          /\ encoding' = full /\ (full <=> InferenceStep = 6 /\ half = 2)
  BY Transferred
<1>3. /\ InferenceStep' = InferenceStep /\ ReadStep' = ReadStep /\ \A p : Past(p)' = Past(p)
      /\ Into' = m /\ From' = a /\ HowMuch' = n
  BY <1>1, <1>2 DEF InferenceStep, ReadStep, Past, At, Into, From, HowMuch
<1>4. /\ memory' \in [0 .. 2 -> [1 .. 2 -> Nat \X Nat]] /\ memory'[m][half] = <<a, n>>
      /\ \A k \in 0 .. 2, h \in 1 .. 2 : k # m \/ h # half => memory'[k][h] = memory[k][h]
      /\ \A k \in 0 .. 2 : k # m => memory'[k] = memory[k]
  BY <1>2 DEF IInv, Types
<1>5. Types'
  BY <1>1, <1>2, <1>4 DEF IInv, Types
<1>6. Sections' /\ Enabling' /\ Clocks' /\ SettingUp' /\ Sending'
  BY <1>1, <1>3 DEF IInv, Sections, Enabling, Clocks, SettingUp, Sending, Past, At
<1>7. Transferring'
  BY <1>1, <1>2, <1>3 DEF IInv, Types, Transferring
<1>8. Memories'
  <2>1. estu'.mm_external_wren = IF At("main", 9 .. 14)' THEN 1
                                 ELSE IF At("main", 15 .. 20)' THEN 2 ELSE 0
    BY <1>1 DEF IInv, Memories, At
  <2>2. /\ ReadStep = 5 /\ master'.left < 2 => memory'[m][1] = <<a, n>>
        /\ ReadStep = 5 /\ master'.left = 0 => memory'[m][2] = <<a, n>>
    BY <1>1, <1>2, <1>4 DEF IInv, Types, Memories
  <2>3. /\ Past(13) => m # 0 /\ Loaded(INT_MEM1_ID, INT_MEM_1_ADDR, WEIGHTS_SIZE_1)
        /\ Past(19) => m = 2 /\ Loaded(INT_MEM2_ID, INT_MEM_2_ADDR, WEIGHTS_SIZE_2)
    BY <1>1, <1>2 DEF IInv, Types, Memories, Past, ReadStep, InferenceStep, At, Into, INT_MEM1_ID,
                      INT_MEM2_ID, INPUT_BUFFER_ID
  <2> QED BY <1>3, <1>4, <2>1, <2>2, <2>3 DEF Memories, Loaded, INT_MEM1_ID, INT_MEM2_ID
<1>9. CASE InferenceStep = 6 /\ half = 2
  <2>1. FrameRead' /\ ~FrameRead /\ Waits /\ Holds'
    BY <1>1, <1>2, <1>3, <1>9 DEF FrameRead, IInv, Types, Accelerating, Waits, Holds
  <2>2. m = 2 /\ a = input_buf_adr /\ n = INPUT_CHANNELS /\ Past(21)
    BY <1>2, <1>9 DEF Into, From, HowMuch, InferenceStep, At, Past, INPUT_BUFFER_ID
  <2>3. memory'[2][1] = <<a, n>> /\ memory'[2][2] = <<a, n>>
    BY <1>1, <1>2, <1>4, <1>9, <2>2 DEF IInv, Types, Memories
  <2>4. memory'[2] = <<<<a, n>>, <<a, n>>>> /\ Frame' = a
    BY <1>4, <2>3 DEF Frame, INPUT_BUFFER_ID
  <2>5. Due(a) /\ Due(a)' /\ a \in FrameAddresses
    BY <1>1, <2>1, <2>2 DEF IInv, FramesInTurn, Due
  <2>6. Accelerating'
    BY <2>1 DEF Accelerating
  <2>7. FramesInTurn'
    BY <1>1, <1>3, <1>9, <2>1, <2>2, <2>4, <2>5
       DEF IInv, FramesInTurn, Loaded, INPUT_BUFFER_ID, Due
  <2> QED BY <1>5, <1>6, <1>7, <1>8, <2>6, <2>7 DEF IInv
<1>10. CASE ~(InferenceStep = 6 /\ half = 2)
  <2>1. ~FrameRead /\ ~FrameRead' /\ ~encoding'
    BY <1>1, <1>2, <1>3, <1>10 DEF FrameRead, IInv, Types, ReadStep, InferenceStep, At
  <2>2. Accelerating'
    BY <1>1, <1>3, <2>1 DEF IInv, Accelerating, Waits, Rests
  <2>3. FramesInTurn'
    BY <1>1, <1>3, <2>1 DEF IInv, FramesInTurn, Due
  <2> QED BY <1>5, <1>6, <1>7, <1>8, <2>2, <2>3 DEF IInv
<1> QED BY <1>9, <1>10

-----------------------------------------------------------------------------
(* The invariant and the properties.                                           *)

(* A write is one of those above.                                              *)
LEMMA Writes == IInv /\ WriteStep => IInv'
BY Programmed, DisplayStep, EnableStep, BypassStep, LengthStep, StartStep, AddressStep, TargetStep,
   SizeStep, BeginStep, SendStep, CompareStep, GateStep DEF WriteStep, IInv

(* A poll that ends is one of those above.                                     *)
LEMMA Polls == IInv /\ PollStep => IInv'
BY Programmed, ButtonStep, LoadedStep, AnswerStep, SentStep DEF PollStep, IInv

(* So is an access to a control register, and an assignment.                   *)
LEMMA Assigns == IInv /\ (CsrAccess \/ AssignBuffer) => IInv'
BY Programmed, CsrStepped, BufferStep, NextStep DEF CsrAccess, AssignBuffer, IInv

(* The state of reset.                                                         *)
LEMMA Starts == Init => IInv
<1> SUFFICES ASSUME Init PROVE IInv
  OBVIOUS
<1>1. pc = <<"_enter", 0>> /\ ~FrameRead /\ InferenceStep = 0 /\ ReadStep = 0
      /\ \A p : ~Past(p)
  BY DEF Init, InferenceStep, ReadStep, FrameRead, Past, At
<1>2. Types
  <2>1. PICK off \in BOOLEAN, on \in BOOLEAN : off = FALSE /\ on = TRUE
    OBVIOUS
  <2>2. /\ uart = [uart_data |-> 0, uart_hp |-> off, sending |-> off]
        /\ estu = [mm_start_inference |-> off, mm_num_instr |-> 0, mm_external_wren |-> 0,
                   mm_encoding_bypass |-> off, valid_ll |-> off]
        /\ spi = [mm_spi_adr |-> 0, mm_mem_address |-> 0, mm_read_size |-> 0, mm_spi_valid |-> off]
        /\ accel = [running |-> off, fed |-> 0, result |-> 0]
        /\ timer = [mtimecmp |-> 0, o_irq |-> on]
        /\ encoding = off /\ n_gate_serv = on
    BY <2>1 DEF Init
  <2>3. /\ DOMAIN csr = {"mie", "mpie", "mtie", "mcause", "rf"}
        /\ DOMAIN csr.rf = {Csr!MSCRATCH, Csr!MTVEC, Csr!MEPC, Csr!MTVAL}
        /\ csr.mie \in BOOLEAN /\ csr.mtie \in {FALSE}
    BY DEF Init, Csr!CsrInit
  <2>4. /\ DOMAIN uart = {"uart_data", "uart_hp", "sending"} /\ uart.sending \in BOOLEAN
        /\ estu \in [mm_start_inference : BOOLEAN, mm_num_instr : Nat, mm_external_wren : Nat,
                     mm_encoding_bypass : BOOLEAN, valid_ll : BOOLEAN]
        /\ spi \in [mm_spi_adr : Nat, mm_mem_address : Nat, mm_read_size : Nat,
                    mm_spi_valid : BOOLEAN]
        /\ accel \in [running : BOOLEAN, fed : Nat, result : Nat]
        /\ timer \in [mtimecmp : Nat, o_irq : BOOLEAN]
        /\ encoding \in BOOLEAN /\ n_gate_serv \in BOOLEAN
    BY <2>2
  <2>5. /\ memory \in [0 .. 2 -> [1 .. 2 -> Nat \X Nat]]
        /\ master \in [adr : Nat, size : Nat, left : 0 .. 2]
    BY DEF Init
  <2>6. csr.mtie \in BOOLEAN
    BY <2>3
  <2> QED BY <1>1, <2>3, <2>4, <2>5, <2>6 DEF Types
<1>3. Sections /\ Enabling /\ Clocks /\ SettingUp /\ Sending
  <2>1. ~csr.mtie /\ n_gate_serv /\ timer.mtimecmp = 0 /\ ~estu.mm_encoding_bypass /\ ~uart.sending
    BY DEF Init, Csr!CsrInit
  <2>2. bss = {} /\ data = {}
    BY DEF Init
  <2> QED BY <1>1, <2>1, <2>2 DEF Sections, Enabling, Clocks, SettingUp, Sending, At
<1>4. Transferring /\ Memories
  BY <1>1 DEF Init, Transferring, Memories, At
<1>5. Accelerating /\ FramesInTurn
  BY <1>1 DEF Init, Accelerating, Rests, FramesInTurn
<1> QED BY <1>2, <1>3, <1>4, <1>5 DEF IInv

(* Every step of the core and of the devices keeps it.                         *)
LEMMA Keeps == IInv /\ [Next]_vars => IInv'
<1> SUFFICES ASSUME IInv, [Next]_vars PROVE IInv'
  OBVIOUS
<1>1. CASE UNCHANGED vars
  <2>1. UNCHANGED <<pc, bss, data, input_buf_adr, csr, uart, estu, spi, master, memory, encoding,
                    accel, timer, n_gate_serv>>
    BY <1>1 DEF vars, globals, devices
  <2> USE <2>1 DEF Past, At, InferenceStep, ReadStep, Into, From, HowMuch, FrameRead
  <2>2. Types' = Types
    BY DEF Types
  <2>3. Sections' = Sections /\ Enabling' = Enabling /\ Clocks' = Clocks
    BY DEF Sections, Enabling, Clocks
  <2>4. Transferring' = Transferring /\ Memories' = Memories
    BY DEF Transferring, Memories, Loaded
  <2>5. SettingUp' = SettingUp /\ Sending' = Sending
    BY DEF SettingUp, Sending
  <2>6. Accelerating' = Accelerating
    BY DEF Accelerating, Rests, Waits, Holds, Computes, Knows
  <2>7. FramesInTurn' = FramesInTurn
    BY DEF FramesInTurn, Loaded, Frame, Due, Holds
  <2> QED BY <2>2, <2>3, <2>4, <2>5, <2>6, <2>7 DEF IInv
<1>2. CASE Core
  BY <1>2, BootStep, TrapStep, Writes, Polls, Assigns DEF Core
<1>3. CASE Press \/ Sent
  BY <1>3, PressStep
<1>4. CASE Transfer
  BY <1>4, TransferStep
<1>5. CASE Encoded
  BY <1>5, EncodedStep
<1>6. CASE Inferred
  BY <1>6, InferredStep
<1>7. CASE Timer
  BY <1>7, TimerStep
<1> QED BY <1>1, <1>2, <1>3, <1>4, <1>5, <1>6, <1>7 DEF Next

(* The invariant.                                                              *)
THEOREM Inductive == Spec => []IInv
BY Starts, Keeps, PTL DEF Spec

(* An inference runs only on complete memories and initialized globals.        *)
THEOREM InputsComplete == Spec => []InferenceFindsItsInputs
<1>1. IInv => InferenceFindsItsInputs
  <2> SUFFICES ASSUME IInv, accel.running PROVE InferenceFindsItsInputs
    BY DEF InferenceFindsItsInputs
  <2>1. FrameRead /\ Computes
    BY DEF IInv, Accelerating, Rests, Waits, Holds, Computes, Knows
  <2>2. /\ \A p \in {0, 13, 19, 23} : Past(p)
        /\ ~At("main", 9 .. 14) /\ ~At("main", 15 .. 20)
    BY <2>1 DEF FrameRead, InferenceStep, At, Past
  <2>3. accel.fed = Frame /\ Loaded(INPUT_BUFFER_ID, Frame, INPUT_CHANNELS)
    BY <2>1 DEF IInv, FramesInTurn, Holds, Computes
  <2> QED BY <2>2, <2>3 DEF InferenceFindsItsInputs, IInv, Memories, SettingUp, Sections
<1> QED BY <1>1, Inductive, PTL

(* An interrupt is possible only in the loop of main, with everything at rest. *)
THEOREM HandlerReached == Spec => []InterruptFindsItsHandler
<1>1. IInv => InterruptFindsItsHandler
  <2> SUFFICES ASSUME IInv, csr.mie, csr.mtie PROVE InterruptFindsItsHandler
    BY DEF InterruptFindsItsHandler
  <2>1. At("main", {38})
    BY DEF IInv, Types, Enabling, At, Past
  <2>2. InLoop
    BY <2>1, Lengths DEF InLoop, At
  <2>3. Past(7) /\ Past(35) /\ InferenceStep = 0 /\ ReadStep = 0 /\ ~FrameRead
    BY <2>1 DEF Past, At, InferenceStep, ReadStep, FrameRead
  <2> QED BY <2>2, <2>3 DEF InterruptFindsItsHandler, IInv, Enabling, Clocks, Transferring,
          Accelerating, Rests, Sending
<1> QED BY <1>1, Inductive, PTL

(* While a transfer runs the core only polls: a step that ends the poll or     *)
(* writes a register of the loader or the enables is impossible.               *)
THEOREM TransfersAlone == Spec => TransfersUndisturbed
<1> DEFINE Kept == master.left > 0 => /\ spi'.mm_mem_address = spi.mm_mem_address
                                     /\ spi'.mm_spi_adr = spi.mm_spi_adr
                                     /\ estu'.mm_external_wren = estu.mm_external_wren
<1>1. IInv /\ [Next]_vars => Kept
  <2> SUFFICES ASSUME IInv, [Next]_vars, master.left > 0 PROVE Kept
    OBVIOUS
  <2>1. ReadStep = 5 /\ ~spi.mm_spi_valid
    BY DEF IInv, Types, Transferring
  <2>2. ~WriteStep /\ ~CsrAccess /\ ~AssignBuffer /\ ~PollStep
    <3>1. ASSUME NEW op, Running(op) PROVE op = "poll" /\ Current = Poll(SPI_VALID_ADDR)
      BY <2>1, <3>1, Programmed DEF IInv, ReadStep, InferenceStep, At
    <3>2. ~Found(SPI_VALID_ADDR)
      BY <2>1 DEF Found, SERVANT_GPIO_ADDR, SPI_VALID_ADDR, ESTU_DATA, UART_READY_ADDR
    <3>3. Poll(SPI_VALID_ADDR).adr = SPI_VALID_ADDR
      BY DEF Poll
    <3> QED BY <3>1, <3>2, <3>3 DEF WriteStep, CsrAccess, AssignBuffer, PollStep
  <2>3. UNCHANGED <<spi, estu>> \/ Transfer \/ Encoded \/ Inferred
    BY <2>2 DEF Next, Core, _enter, ClearBss, CopyData, Interrupt, Wfi, Trap, Press, Sent, Timer, vars,
            devices
  <2>4. CASE Transfer
    BY <2>4 DEF Transfer, IInv, Types
  <2>5. CASE Encoded \/ Inferred
    BY <2>5 DEF Encoded, Inferred, IInv, Types
  <2> QED BY <2>3, <2>4, <2>5
<1>2. IInv /\ [Next]_vars => [Kept]_vars
  BY <1>1
<1> QED BY <1>2, Inductive, PTL DEF Spec, TransfersUndisturbed

(* Every inference is given the frame after that of the previous one.          *)
THEOREM FramesFollow == Spec => FramesInOrder
<1> DEFINE Next1 == (accel'.running /\ ~accel.running) =>
                        Number(accel'.fed) = IF accel.fed = 0 THEN 0
                                             ELSE (Number(accel.fed) + 1) % Frames
<1>1. IInv /\ [Next]_vars => Next1
  <2> SUFFICES ASSUME IInv, [Next]_vars, accel'.running, ~accel.running PROVE Next1
    OBVIOUS
  <2>1. Encoded
    <3>1. accel' # accel
      OBVIOUS
    <3>2. ~UNCHANGED vars /\ ~_enter /\ ~ClearBss /\ ~CopyData
      BY <3>1 DEF vars, _enter, ClearBss, CopyData, devices
    <3>3. ~WriteStep /\ ~PollStep /\ ~CsrAccess /\ ~AssignBuffer
      BY <3>1, WriteKeeps DEF Others, PollStep, CsrAccess, AssignBuffer, devices
    <3>4. ~Interrupt /\ ~Wfi
      BY <3>1 DEF Interrupt, Wfi, Trap, devices
    <3>5. ~Press /\ ~Transfer /\ ~Sent /\ ~Timer
      BY <3>1 DEF Press, Transfer, Sent, Timer
    <3> QED BY <3>2, <3>3, <3>4, <3>5 DEF Inferred, Next, Core, IInv, Types
  <2>2. FrameRead /\ Holds
    BY <2>1 DEF Encoded, IInv, Accelerating, Rests, Waits, Holds, Computes, Knows
  <2>3. accel'.fed = Frame
    BY <2>1, <2>2 DEF Encoded, Holds, Frame, INPUT_BUFFER_ID, IInv, Types
  <2>4. Due(Frame) /\ accel.fed \in FrameAddresses \cup {0}
    BY <2>2 DEF IInv, FramesInTurn
  <2> QED BY <2>3, <2>4, FrameFacts DEF Due
<1>2. IInv /\ [Next]_vars => [Next1]_vars
  BY <1>1
<1> QED BY <1>2, Inductive, PTL DEF Spec, FramesInOrder

-----------------------------------------------------------------------------
(* The registers of the core.                                                  *)

(* What main asks of the control registers are functions of the header, with   *)
(* operands of a word.                                                         *)
LEMMA Offers ==
    ASSUME Types, CsrAccess, At("main", {5, 6, 7, 36, 37}), Current = main[pc[2]]
    PROVE  \E r \in {"mstatus", "mie", "mtvec"} : \E f \in Csr!Header[r].functions :
               \E d \in Csr!Operands(f) :
                   csr' = Csr!AfterAccess(csr, r, Csr!Instruction(f), d)
<1>1. csr' = Csr!AfterAccess(csr, Current.reg,
                             Csr!Instruction(Csr!Macro(Current.macro)), Current.value)
  BY DEF CsrAccess
<1>2. /\ Csr!Macro("clear_csr") = "read_clr_bits" /\ Csr!Macro("write_csr") = "write"
      /\ Csr!Macro("set_csr") = "read_set_bits"
  BY DEF Csr!Macro
<1>3. ASSUME NEW r \in {"mstatus", "mie", "mtvec"},
             NEW f \in {"read_clr_bits", "write", "read_set_bits"}
      PROVE  f \in Csr!Header[r].functions
  BY <1>3, Addresses DEF Csr!WithMask, Csr!Unmasked
<1>4. ASSUME NEW f \in {"read_clr_bits", "write", "read_set_bits"},
             NEW d \in {MSTATUS_MIE_BIT_MASK, MIE_MTI_BIT_MASK, irq_entry, {}}
      PROVE  d \in Csr!Operands(f)
  <2>1. Csr!OperandBits(f) = 0 .. Csr!XLEN - 1
    BY DEF Csr!OperandBits
  <2>2. d \subseteq Bits /\ Bits \subseteq 0 .. Csr!XLEN - 1
    BY FirmwareAssumption, WordsAssumption
  <2> QED BY <2>1, <2>2 DEF Csr!Operands
<1>5. \E r \in {"mstatus", "mie", "mtvec"}, m \in {"clear_csr", "write_csr", "set_csr"} :
         \E d \in {MSTATUS_MIE_BIT_MASK, MIE_MTI_BIT_MASK, irq_entry, {}} :
             Current = CsrStep(m, r, d)
  BY MainStarts, MainInfers DEF At
<1>6. PICK r \in {"mstatus", "mie", "mtvec"}, m \in {"clear_csr", "write_csr", "set_csr"} :
         \E d \in {MSTATUS_MIE_BIT_MASK, MIE_MTI_BIT_MASK, irq_entry, {}} :
             Current = CsrStep(m, r, d)
  BY <1>5
<1>7. PICK d \in {MSTATUS_MIE_BIT_MASK, MIE_MTI_BIT_MASK, irq_entry, {}} :
         Current = CsrStep(m, r, d)
  BY <1>6
<1>8. csr' = Csr!AfterAccess(csr, r, Csr!Instruction(Csr!Macro(m)), d)
  BY <1>1, <1>7 DEF CsrStep
<1>9. Csr!Macro(m) \in {"read_clr_bits", "write", "read_set_bits"}
  BY <1>2
<1> QED BY <1>3, <1>4, <1>8, <1>9

(* Every step of the firmware is to the registers of the core one of CsrFile:  *)
(* an access to one of three registers, a timer interrupt or the exception of  *)
(* a wfi.  So what is shown of CsrFile is true of the firmware.                *)
THEOREM CoreRegisters == Spec => Csr!CsrSpec
<1>1. Init => Csr!CsrInit
  BY DEF Init
<1>2. IInv /\ [Next]_vars => [Csr!CsrNext]_Csr!csr_vars
  <2> SUFFICES ASSUME IInv, [Next]_vars, csr' # csr PROVE Csr!CsrNext
    BY DEF Csr!csr_vars
  <2>1. ~UNCHANGED vars /\ ~_enter /\ ~ClearBss /\ ~CopyData /\ ~AssignBuffer
    BY DEF vars, _enter, ClearBss, CopyData, AssignBuffer
  <2>2. ~WriteStep /\ ~PollStep
    BY WriteKeeps DEF Others, PollStep
  <2>3. ~Press /\ ~Transfer /\ ~Encoded /\ ~Inferred /\ ~Sent /\ ~Timer
    BY DEF Press, Transfer, Encoded, Inferred, Sent, Timer
  <2>4. CsrAccess \/ Interrupt \/ Wfi
    BY <2>1, <2>2, <2>3 DEF Next, Core
  <2>5. CASE CsrAccess
    <3>1. At("main", {5, 6, 7, 36, 37}) /\ Current = main[pc[2]]
      BY <2>5, Programmed DEF CsrAccess, IInv
    <3>2. Csr!Access
      BY <2>5, <3>1, Offers DEF IInv, Csr!Access
    <3> QED BY <3>2 DEF Csr!CsrNext
  <2>6. CASE Interrupt
    <3>1. /\ csr.mie /\ csr.mtie
          /\ csr' = Csr!AfterTrap(csr, Csr!None, FALSE, TRUE, {}, {})
      BY <2>6 DEF Interrupt, Trap
    <3>2. Csr!TimerInterrupt
      BY <3>1, WordsAssumption DEF Csr!TimerInterrupt
    <3> QED BY <3>2 DEF Csr!CsrNext
  <2>7. CASE Wfi
    <3>1. csr' = Csr!AfterTrap(csr, "ebreak", FALSE, FALSE, {}, {})
      BY <2>7 DEF Wfi, Trap
    <3>2. Csr!Exception
      BY <3>1, WordsAssumption DEF Csr!Exception
    <3> QED BY <3>2 DEF Csr!CsrNext
  <2> QED BY <2>4, <2>5, <2>6, <2>7
<1> QED BY <1>1, <1>2, Inductive, PTL DEF Spec, Csr!CsrSpec

-----------------------------------------------------------------------------
(* The loop.                                                                   *)

(* f is the frame after a, the first one if there was none.                    *)
Follows(f, a) == f = IF a = 0 THEN INPUT_BUFFER_ADDR ELSE NextFrame(a)

(* The answer the firmware has taken last is that to the frame fed last or,    *)
(* while that one is worked at, to the frame before it.                        *)
Taken ==
    /\ inference_data \in FrameAddresses \cup {0}
    /\ IF FrameRead /\ ~Holds THEN Follows(Frame, inference_data)
                              ELSE inference_data = accel.fed
    /\ Knows => accel.result = accel.fed

(* The frame asked for, from the start of its inference, and the frame         *)
(* answered.  The frame is counted on while its answer is awaited.             *)
Asked    == IF ~Past(21) THEN 0
            ELSE IF InferenceStep \in 2 .. 7 THEN (Number(input_buf_adr) + 1) % Frames
            ELSE Number(input_buf_adr)
Answered == IF inference_data = 0 THEN 0 ELSE (Number(inference_data) + 1) % Frames

Loop == INSTANCE FrameLoop WITH asked <- Asked, answered <- Answered

(* A step that leaves the frame and the accelerator alone.                     *)
LEMMA TakenStays ==
    ASSUME IInv, IInv', Taken, UNCHANGED <<inference_data, accel, encoding, memory>>,
           estu'.valid_ll = estu.valid_ll
    PROVE  Taken'
<1>1. Accelerating /\ Accelerating' /\ Frame' = Frame
  BY DEF IInv, Frame
<1>2. CASE FrameRead
  <2>1. Holds \/ Computes \/ Knows
    BY <1>1, <1>2 DEF Accelerating
  <2>2. FrameRead' /\ (Holds' <=> Holds) /\ (Knows' <=> Knows)
    BY <1>1, <2>1 DEF Accelerating, Rests, Waits, Holds, Computes, Knows
  <2> QED BY <1>1, <1>2, <2>2 DEF Taken, Follows
<1>3. CASE ~FrameRead
  <2>1. Rests \/ Waits
    BY <1>1, <1>3 DEF Accelerating
  <2>2. ~FrameRead' /\ ~Knows'
    BY <1>1, <2>1 DEF Accelerating, Rests, Waits, Holds, Computes, Knows
  <2> QED BY <1>3, <2>2 DEF Taken
<1> QED BY <1>2, <1>3

(* The answer is taken: it is that to the frame which was fed.                 *)
LEMMA AnswerTaken ==
    ASSUME IInv, IInv', Taken, PollStep, InferenceStep = 8, Current = Poll(ESTU_DATA)
    PROVE  /\ Taken' /\ inference_data' = Frame /\ Frame \in FrameAddresses
           /\ input_buf_adr = NextFrame(Frame)
           /\ UNCHANGED input_buf_adr /\ Advance
<1>1. Current.adr = ESTU_DATA
  BY DEF Poll
<1>2. /\ UNCHANGED <<input_buf_adr, accel>> /\ Advance
      /\ Found(ESTU_DATA) /\ inference_data' = accel.result
  BY <1>1 DEF PollStep
<1>3. estu.valid_ll
  BY <1>2 DEF Found, SERVANT_GPIO_ADDR, SPI_VALID_ADDR, ESTU_DATA, UART_READY_ADDR
<1>4. FrameRead /\ Knows
  BY <1>3 DEF IInv, Accelerating, FrameRead, Rests, Waits, Holds, Computes, Knows
<1>5. /\ accel.fed = Frame /\ Frame \in FrameAddresses /\ input_buf_adr = NextFrame(Frame)
      /\ accel.result = accel.fed
  BY <1>4 DEF IInv, FramesInTurn, Taken, Holds, Knows
<1>6. InferenceStep' = 9
  BY <1>2 DEF InferenceStep, At, Advance, IInv, Types
<1>7. ~FrameRead' /\ Accelerating'
  BY <1>6 DEF FrameRead, IInv
<1>8. ~Knows'
  BY <1>6, <1>7 DEF Accelerating, Rests, Knows
<1>9. Taken'
  BY <1>2, <1>5, <1>7, <1>8 DEF Taken
<1> QED BY <1>2, <1>5, <1>9

(* Every other step of the core leaves the answer alone.                       *)
LEMMA OthersTake ==
    ASSUME IInv, IInv', Taken, Core, ~(PollStep /\ InferenceStep = 8 /\ Current = Poll(ESTU_DATA))
    PROVE  Taken' /\ inference_data' = inference_data
<1>1. CASE WriteStep
  <2>1. /\ Others /\ Advance
        /\ estu' = (IF Slave(Current.adr) = "ACC" THEN EstuWrite(Current.adr[2], Current.value)
                    ELSE estu)
    BY <1>1, WriteKeeps DEF WriteStep
  <2>2. estu'.valid_ll = estu.valid_ll
    BY <2>1 DEF EstuWrite, IInv, Types
  <2> QED BY <2>1, <2>2, TakenStays DEF Others, globals
<1>2. CASE PollStep
  <2>1. Current.adr # ESTU_DATA
    BY <1>2, Programmed DEF PollStep, IInv, Poll, ESTU_DATA, SERVANT_GPIO_ADDR, SPI_VALID_ADDR,
       UART_READY_ADDR
  <2>2. UNCHANGED <<inference_data, accel, encoding, memory, estu>>
    BY <1>2, <2>1 DEF PollStep
  <2> QED BY <2>2, TakenStays
<1>3. CASE ~WriteStep /\ ~PollStep
  <2>1. UNCHANGED <<inference_data, accel, encoding, memory, estu>>
    BY <1>3 DEF Core, _enter, ClearBss, CopyData, CsrAccess, AssignBuffer, Interrupt, Wfi, Trap,
       globals, devices
  <2> QED BY <2>1, TakenStays
<1> QED BY <1>1, <1>2, <1>3

(* So do the devices, though the accelerator goes on to the next frame.        *)
LEMMA DevicesTake ==
    ASSUME IInv, IInv', Taken, Press \/ Transfer \/ Encoded \/ Inferred \/ Sent \/ Timer
    PROVE  Taken' /\ UNCHANGED <<pc, input_buf_adr, inference_data>>
<1>1. UNCHANGED <<pc, input_buf_adr, inference_data>>
  BY DEF Press, Transfer, Encoded, Inferred, Sent, Timer, globals
<1>2. CASE Press \/ Sent \/ Timer
  <2>1. UNCHANGED <<accel, encoding, memory, estu>>
    BY <1>2 DEF Press, Sent, Timer
  <2> QED BY <1>1, <2>1, TakenStays
<1>3. CASE Transfer
  <2>1. ReadStep = 5 /\ master.left > 0 /\ UNCHANGED <<accel, estu>>
    BY <1>3, Transferred DEF Transfer
  <2>2. ~FrameRead
    BY <2>1 DEF FrameRead, ReadStep, InferenceStep, At, IInv, Types
  <2>3. Accelerating /\ Accelerating'
    BY DEF IInv
  <2>4. Rests \/ Waits
    BY <2>2, <2>3 DEF Accelerating
  <2>5. ~Knows' /\ (FrameRead' => Holds')
    BY <2>1, <2>3, <2>4 DEF Accelerating, Rests, Waits, Holds, Computes, Knows
  <2> QED BY <1>1, <2>1, <2>2, <2>5 DEF Taken
<1>4. CASE Encoded
  <2>1. FrameRead /\ Holds
    BY <1>4 DEF Encoded, IInv, Accelerating, Rests, Waits, Holds, Computes, Knows
  <2>2. accel'.fed = Frame /\ accel'.running /\ memory' = memory /\ master' = master
    BY <1>4, <2>1 DEF Encoded, Holds, Frame, INPUT_BUFFER_ID, IInv, Types
  <2>3. FrameRead' /\ ~Holds' /\ ~Knows' /\ Frame' = Frame
    BY <1>1, <2>1, <2>2 DEF FrameRead, InferenceStep, At, Holds, Knows, Frame
  <2>4. Follows(Frame, inference_data)
    BY <2>1 DEF IInv, FramesInTurn, Due, Taken, Follows
  <2> QED BY <1>1, <2>3, <2>4 DEF Taken, Follows
<1>5. CASE Inferred
  <2>1. FrameRead /\ Computes
    BY <1>5 DEF Inferred, IInv, Accelerating, Rests, Waits, Holds, Computes, Knows
  <2>2. accel'.fed = accel.fed /\ accel'.result = accel.fed /\ memory' = memory
        /\ master' = master /\ encoding' = encoding
    BY <1>5 DEF Inferred, IInv, Types
  <2>3. FrameRead' /\ ~Holds' /\ Frame' = Frame
    BY <1>1, <2>1, <2>2 DEF FrameRead, InferenceStep, At, Holds, Computes, Frame
  <2>4. Follows(Frame, inference_data)
    BY <2>1 DEF Taken, Holds, Computes
  <2> QED BY <1>1, <2>2, <2>3, <2>4 DEF Taken, Follows
<1> QED BY <1>1, <1>2, <1>3, <1>4, <1>5

(* Before an inference begins everything that was asked for has been answered. *)
LEMMA NothingOpen ==
    ASSUME IInv, Taken, Past(21), InferenceStep \notin 2 .. 8
    PROVE  Number(input_buf_adr) = Answered
<1>1. ~FrameRead
  BY DEF FrameRead
<1>2. Due(input_buf_adr) /\ inference_data = accel.fed
  BY <1>1 DEF IInv, FramesInTurn, Taken
<1> QED BY <1>2, FrameFacts DEF Due, Answered, Taken

(* A step of the core that neither starts an inference nor takes an answer     *)
(* asks for nothing.                                                           *)
LEMMA NothingAsked ==
    ASSUME IInv, IInv', Core, ~(WriteStep /\ InferenceStep = 1),
           ~(PollStep /\ InferenceStep = 8)
    PROVE  Asked' = Asked
<1>1. CASE WriteStep \/ PollStep \/ CsrAccess
  <2>1. Advance /\ input_buf_adr' = input_buf_adr
    BY <1>1 DEF WriteStep, PollStep, CsrAccess, globals
  <2>2. PICK op \in {"write", "poll", "csr"} :
            Running(op) /\ ~(op = "write" /\ InferenceStep = 1) /\ ~(op = "poll" /\ InferenceStep = 8)
    <3>1. /\ WriteStep => Running("write") /\ InferenceStep # 1
          /\ PollStep => Running("poll") /\ InferenceStep # 8
          /\ CsrAccess => Running("csr")
      BY DEF WriteStep, PollStep, CsrAccess
    <3> QED BY <1>1, <3>1
  <2>3. /\ pc[1] \in {"main", "irq_entry"} /\ pc[2] \in Nat
        /\ InferenceStep \notin {1, 7, 8} /\ ~At("main", {21})
    <3>1. pc[1] \in {"main", "irq_entry"} /\ pc[2] \in Nat
      BY <2>2, Steps DEF IInv, Types
    <3>2. ReadStep # 0 => InferenceStep \in {0} \cup 2 .. 6 /\ ~At("main", {21})
      BY DEF ReadStep, InferenceStep, At
    <3>3. InferenceStep # 0 => ~At("main", {21})
      BY DEF InferenceStep, At
    <3>4. At("main", {1, 3, 4, 8, 14, 20, 22, 23, 35, 2, 5, 6, 7, 36, 37}) \/ At("irq_entry", {12})
              => InferenceStep = 0 /\ ~At("main", {21})
      BY DEF InferenceStep, At
    <3>5. \/ At("main", {1, 3, 4, 8, 14, 20, 22, 23, 35, 2, 5, 6, 7, 36, 37}) \/ At("irq_entry", {12})
          \/ ReadStep # 0 \/ InferenceStep \in {9, 10, 11}
      BY <2>2, Programmed DEF IInv, At
    <3> QED BY <3>1, <3>2, <3>3, <3>4, <3>5
  <2>4. Past(21)' = Past(21) /\ (InferenceStep' \in 2 .. 7 <=> InferenceStep \in 2 .. 7)
    BY <2>1, <2>2, <2>3 DEF Advance, Past, InferenceStep, At, IInv, Types
  <2> QED BY <2>1, <2>4 DEF Asked
<1>2. CASE AssignBuffer
  <2>1. Advance /\ input_buf_adr' = Current.value
    BY <1>2 DEF AssignBuffer
  <2>2. CASE At("main", {21}) /\ Current = SetBuffer(INPUT_BUFFER_ADDR)
    <3>1. Past(21)' /\ ~Past(21) /\ InferenceStep' = 0
      BY <2>1, <2>2 DEF Advance, Past, At, InferenceStep
    <3> QED BY <2>1, <2>2, <3>1, FrameFacts DEF Asked, SetBuffer
  <2>3. CASE InferenceStep = 7 /\ Current = SetBuffer(NextFrame(input_buf_adr))
    <3>1. Past(21)' /\ Past(21) /\ InferenceStep' = 8
      BY <2>1, <2>3 DEF Advance, Past, At, InferenceStep, IInv, Types
    <3>2. input_buf_adr \in FrameAddresses
      BY <3>1 DEF IInv, FramesInTurn
    <3> QED BY <2>1, <2>3, <3>1, <3>2, FrameFacts DEF Asked, SetBuffer
  <2> QED BY <1>2, <2>2, <2>3, Programmed DEF AssignBuffer, IInv
<1>3. CASE _enter \/ ClearBss \/ CopyData
  <2>1. ~Past(21) /\ ~Past(21)'
    BY <1>3 DEF _enter, ClearBss, CopyData, Advance, Past
  <2> QED BY <2>1 DEF Asked
<1>4. CASE Interrupt \/ Wfi
  <2>1. At("main", {38}) \/ At("irq_entry", {13})
    <3>1. CASE Interrupt
      BY <3>1 DEF Interrupt, IInv, Types, Enabling, At, Past
    <3>2. CASE Wfi
      BY <3>2, Lengths DEF Wfi, AtWfi, IInv, Types, At
    <3> QED BY <1>4, <3>1, <3>2
  <2>2. input_buf_adr' = input_buf_adr /\ pc' \in {<<"irq_entry", 1>>, <<"lost", 0>>}
    BY <1>4 DEF Interrupt, Wfi, Trap, globals
  <2>3. pc' = <<"irq_entry", 1>>
    BY <2>2 DEF IInv, Types
  <2>4. Past(21) /\ Past(21)' /\ InferenceStep \notin 2 .. 7 /\ InferenceStep' \notin 2 .. 7
    BY <2>1, <2>3 DEF Past, InferenceStep, At
  <2> QED BY <2>2, <2>4 DEF Asked
<1> QED BY <1>1, <1>2, <1>3, <1>4 DEF Core

(* The firmware asks for one frame after the other, and takes the answer to    *)
(* each of them before it asks for the next: main, handler, loader, encoder    *)
(* and accelerator together implement the loop that HostLink implements on     *)
(* the wires between core and accelerator.                                     *)
THEOREM AnswersFollow == Spec => Loop!Spec
<1>1. Init => Taken /\ Loop!Init
  <2> SUFFICES ASSUME Init PROVE Taken /\ Loop!Init
    OBVIOUS
  <2>1. ~FrameRead /\ ~Past(21) /\ inference_data = 0 /\ accel.fed = 0 /\ ~estu.valid_ll
    BY DEF Init, FrameRead, InferenceStep, At, Past
  <2> QED BY <2>1 DEF Taken, Knows, Loop!Init, Asked, Answered
<1>2. IInv /\ IInv' /\ Taken /\ [Next]_vars => Taken' /\ [Loop!Next]_Loop!loop
  <2> SUFFICES ASSUME IInv, IInv', Taken, [Next]_vars PROVE Taken' /\ [Loop!Next]_Loop!loop
    OBVIOUS
  <2>1. CASE UNCHANGED vars
    <3>1. UNCHANGED <<pc, input_buf_adr, inference_data, accel, encoding, memory, estu>>
      BY <2>1 DEF vars, globals, devices
    <3>2. Asked' = Asked /\ Answered' = Answered
      BY <3>1 DEF Asked, Answered, Past, InferenceStep, At
    <3> QED BY <3>1, <3>2, TakenStays DEF Loop!loop
  <2>2. CASE Press \/ Transfer \/ Encoded \/ Inferred \/ Sent \/ Timer
    <3>1. Taken' /\ UNCHANGED <<pc, input_buf_adr, inference_data>>
      BY <2>2, DevicesTake
    <3>2. Asked' = Asked /\ Answered' = Answered
      BY <3>1 DEF Asked, Answered, Past, InferenceStep, At
    <3> QED BY <3>1, <3>2 DEF Loop!loop
  <2>3. CASE PollStep /\ InferenceStep = 8
    <3>1. Current = Poll(ESTU_DATA)
      BY <2>3, Programmed DEF PollStep, IInv, At, InferenceStep, ReadStep
    <3>2. /\ Taken' /\ inference_data' = Frame /\ Frame \in FrameAddresses
          /\ input_buf_adr = NextFrame(Frame)
          /\ UNCHANGED input_buf_adr /\ Advance
      BY <2>3, <3>1, AnswerTaken
    <3>3. Answered' = (Number(Frame) + 1) % Frames /\ Number(input_buf_adr) = Answered'
      BY <3>2, FrameFacts DEF Answered
    <3>4. InferenceStep' = 9 /\ Past(21) /\ Past(21)'
      BY <2>3, <3>2 DEF InferenceStep, At, Past, Advance, IInv, Types
    <3>5. Asked = Answered' /\ Asked' = Asked
      BY <2>3, <3>2, <3>3, <3>4 DEF Asked
    <3> QED BY <3>2, <3>5 DEF Loop!Next, Loop!Answer, Loop!loop
  <2>4. CASE WriteStep /\ InferenceStep = 1
    <3>1. Taken' /\ inference_data' = inference_data
      BY <2>4, OthersTake DEF Core, WriteStep, PollStep, Running
    <3>2. Advance /\ input_buf_adr' = input_buf_adr
      BY <2>4 DEF WriteStep, globals
    <3>3. InferenceStep' = 2 /\ Past(21) /\ Past(21)'
      BY <2>4, <3>2 DEF InferenceStep, At, Past, Advance, IInv, Types
    <3>4. Asked = Answered
      BY <2>4, <3>3, NothingOpen DEF Asked
    <3>5. Asked' = (Asked + 1) % Frames /\ Answered' = Answered
      BY <2>4, <3>1, <3>2, <3>3 DEF Asked, Answered
    <3> QED BY <3>1, <3>4, <3>5 DEF Loop!Next, Loop!Ask
  <2>5. CASE Core /\ ~(PollStep /\ InferenceStep = 8) /\ ~(WriteStep /\ InferenceStep = 1)
    <3>1. Taken' /\ inference_data' = inference_data /\ Asked' = Asked
      BY <2>5, OthersTake, NothingAsked
    <3> QED BY <3>1 DEF Answered, Loop!loop
  <2> QED BY <2>1, <2>2, <2>3, <2>4, <2>5 DEF Next
<1> QED BY <1>1, <1>2, Inductive, PTL DEF Spec, Loop!Spec
=============================================================================
