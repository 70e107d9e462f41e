------------------------------ MODULE Firmware -------------------------------
(* The firmware from the entry point of startup.c to the sampling loop of      *)
(* main.c, on the register blocks it drives.  A step is one access to the bus  *)
(* or to a control and status register, or an event of a device that runs      *)
(* beside the core.  The registers of the core are those of CsrFile.           *)
(*                                                                             *)
(* How an access unfolds edge by edge is the subject of HostLink, SpiLoader    *)
(* and Uart, how the gate and the timer meet that of SleepWake.                *)
EXTENDS Integers, Sequences

CONSTANTS Bits, Places,   \* see CsrFile
          irq_entry,      \* the address of the handler, as the set of its bits
          BssSize, DataSize, \* bytes of .bss and of .data
          Frames          \* frames in the flash; the samples then repeat

ASSUME FirmwareAssumption ==
    /\ irq_entry \subseteq Bits
    /\ BssSize \in Nat /\ DataSize \in Nat
    /\ Frames \in Nat \ {0}

VARIABLES
    pc,      \* <<routine, step>>
    bss, data,     \* bytes of .bss that were cleared, bytes of .data that were copied
    input_buf_adr, inference_data,
    csr,
    gpio,    \* [led, buttons]
    uart,    \* [uart_data, uart_hp, sending]
    estu,    \* registers of servant_estu, valid_ll with them
    spi,     \* registers of servant_spi
    master,  \* the transfer: address, size and how many halves are left
    memory,  \* what each half of memory 0, 1 and of the input buffer, 2, was read from
    encoding,\* a frame is being encoded
    accel,   \* [running, fed: address of the frame, result]
    timer,   \* [mtimecmp, o_irq]
    n_gate_serv

devices == <<gpio, uart, estu, spi, master, memory, encoding, accel, timer, n_gate_serv>>
globals == <<bss, data, input_buf_adr, inference_data>>
vars    == <<pc, globals, csr, devices>>

Csr == INSTANCE CsrFile WITH Registers <- {"mstatus", "mie", "mtvec"}, Interrupted <- {}

-----------------------------------------------------------------------------
(* constants.h, and the fields of riscv-csr.h that main.c uses.                *)

INT_MEM1_DEPTH    == 32768
INT_MEM2_DEPTH    == 32768
INPUT_CHANNELS    == 128
WEIGHTS_SIZE_1    == 218496
WEIGHTS_SIZE_2    == 179072
TIME              == 50
INT_MEM_1_ADDR    == 1048576
INT_MEM_2_ADDR    == INT_MEM_1_ADDR + INT_MEM1_DEPTH
INPUT_BUFFER_ADDR == INT_MEM_2_ADDR + INT_MEM2_DEPTH
INT_MEM1_ID       == 0
INT_MEM2_ID       == 1
INPUT_BUFFER_ID   == 2
NUM_INSTRUCTIONS  == 150
OFFSET_CHANNELS   == 16

(* The flash has 24 address bits; every frame is in it.                        *)
FlashSize == 16777216

ASSUME FlashAssumption == INPUT_BUFFER_ADDR + Frames * OFFSET_CHANNELS <= FlashSize

MIE_MTI_BIT_MASK     == {7}
MSTATUS_MIE_BIT_MASK == {3}

(* The masks and the addresses are words of the registers; a trap of the       *)
(* firmware stores the word {}, its program counter is not looked at.          *)
ASSUME WordsAssumption ==
    /\ Bits \subseteq 0 .. Csr!XLEN - 1
    /\ MIE_MTI_BIT_MASK \cup MSTATUS_MIE_BIT_MASK \subseteq Bits
    /\ {} \in Places

(* peripherals.h: an address is its most significant digit and the digit of    *)
(* bits 19 to 16, the others are zero.                                         *)
UART_DATA_ADDR        == <<2, 0>>
UART_SEND_ADDR        == <<2, 1>>
UART_READY_ADDR       == <<2, 2>>
UART_HP               == <<2, 3>>
ESTU_START_INFERENCE  == <<4, 0>>
ESTU_NUM_INSTRUCTIONS == <<4, 1>>
ESTU_WREN             == <<4, 2>>
ESTU_ENCODING_BYPASS  == <<4, 4>>
ESTU_DATA             == <<4, 5>>
RISCV_MTIMECMP_ADDR   == <<8, 0>>
SPI_ADDR              == <<10, 0>>
SPI_SEL_MEM_OUT       == <<10, 1>>
SPI_READ_SIZE_ADDR    == <<10, 2>>
SPI_START_ADDR        == <<10, 3>>
SPI_VALID_ADDR        == <<10, 4>>
SERVANT_GPIO_ADDR     == <<12, 0>>
CLOCK_GATE_CTRL       == <<14, 0>>

-----------------------------------------------------------------------------
(* The program: main, and the handler it names irq_entry.                      *)

Write(a, v)       == [op |-> "write", adr |-> a, value |-> v]
Poll(a)           == [op |-> "poll", adr |-> a]
CsrStep(m, r, d)  == [op |-> "csr", macro |-> m, reg |-> r, value |-> d]
SetBuffer(a)      == [op |-> "set", value |-> a]

(* Faulty variant: nobody waits for the transfer.                              *)
Mutread_spi(a, m, n) == <<Write(SPI_ADDR, a), Write(SPI_SEL_MEM_OUT, m),
                          Write(SPI_READ_SIZE_ADDR, n), Write(SPI_START_ADDR, 1)>>

read_spi(a, m, n) == <<Write(SPI_ADDR, a), Write(SPI_SEL_MEM_OUT, m),
                       Write(SPI_READ_SIZE_ADDR, n), Write(SPI_START_ADDR, 1),
                       Poll(SPI_VALID_ADDR)>>

mtimer_set_raw_time_cmp(t) == <<Write(RISCV_MTIMECMP_ADDR, t)>>

uart_send(d) == <<Write(UART_DATA_ADDR, d), Write(UART_SEND_ADDR, 1), Poll(UART_READY_ADDR)>>

(* The samples of the flash are taken to repeat after Frames frames.           *)
(* Faulty variant: a frame is skipped.                                         *)
MutNextFrame(a) == INPUT_BUFFER_ADDR +
    ((a + 2 * OFFSET_CHANNELS - INPUT_BUFFER_ADDR) % (Frames * OFFSET_CHANNELS))

NextFrame(a) == INPUT_BUFFER_ADDR +
    ((a + OFFSET_CHANNELS - INPUT_BUFFER_ADDR) % (Frames * OFFSET_CHANNELS))

OneInference ==
    <<Write(ESTU_START_INFERENCE, 1)>>
    \o read_spi(input_buf_adr, INPUT_BUFFER_ID, INPUT_CHANNELS)
    \o <<SetBuffer(NextFrame(input_buf_adr)), Poll(ESTU_DATA)>>
    \o uart_send(inference_data)

AwaitButton == <<Write(SERVANT_GPIO_ADDR, 10), Poll(SERVANT_GPIO_ADDR),
                 Write(SERVANT_GPIO_ADDR, 5), Write(UART_HP, 1)>>

Interrupts == <<CsrStep("clear_csr", "mstatus", MSTATUS_MIE_BIT_MASK),
                CsrStep("write_csr", "mie", {}),
                CsrStep("write_csr", "mtvec", irq_entry)>>

LoadWeights == <<Write(ESTU_WREN, 1)>>
               \o read_spi(INT_MEM_1_ADDR, INT_MEM1_ID, WEIGHTS_SIZE_1)
               \o <<Write(ESTU_WREN, 2)>>
               \o read_spi(INT_MEM_2_ADDR, INT_MEM2_ID, WEIGHTS_SIZE_2)

SetUp == <<Write(ESTU_WREN, 0), SetBuffer(INPUT_BUFFER_ADDR), Write(ESTU_ENCODING_BYPASS, 0),
           Write(ESTU_NUM_INSTRUCTIONS, NUM_INSTRUCTIONS)>>

(* Faulty variant: interrupts are enabled before the timer is written.         *)
MutEnable == <<CsrStep("set_csr", "mie", MIE_MTI_BIT_MASK),
               CsrStep("set_csr", "mstatus", MSTATUS_MIE_BIT_MASK)>>
             \o mtimer_set_raw_time_cmp(TIME)

Enable == mtimer_set_raw_time_cmp(TIME)
          \o <<CsrStep("set_csr", "mie", MIE_MTI_BIT_MASK),
               CsrStep("set_csr", "mstatus", MSTATUS_MIE_BIT_MASK)>>

main    == AwaitButton \o Interrupts \o LoadWeights \o SetUp \o OneInference \o Enable
Handler == OneInference \o <<Write(CLOCK_GATE_CTRL, 1)>>

(* while(1) follows main, wfi the handler.                                     *)
Code(routine) == IF routine = "main" THEN main ELSE Handler
Running(op)   == /\ n_gate_serv
                 /\ pc[1] \in {"main", "irq_entry"} /\ pc[2] <= Len(Code(pc[1]))
                 /\ Code(pc[1])[pc[2]].op = op
Current       == Code(pc[1])[pc[2]]
Advance       == pc' = <<pc[1], pc[2] + 1>>
InLoop        == pc[1] = "main" /\ pc[2] > Len(main)
AtWfi         == pc[1] = "irq_entry" /\ pc[2] > Len(Handler)

-----------------------------------------------------------------------------
(* The bus: the three most significant bits select a slave (servant_mux.v,     *)
(* memory_mapping.v), four bits one of its registers.  Nobody answers for      *)
(* BRAM: SERVANT_EXT_MEM is not defined.                                       *)

Slave(a) == <<"DMEM", "UART", "ACC", "BRAM", "TIMER", "SPI", "GPIO", "CLK">>[a[1] \div 2 + 1]

Answers(a) == Slave(a) # "BRAM"

GpioWrite(v) == [gpio EXCEPT !.led = v % 16]

UartWrite(r, v) == CASE r = 0 -> [uart EXCEPT !.uart_data = v]
                     [] r = 1 -> [uart EXCEPT !.sending = @ \/ v % 2 = 1]
                     [] r = 3 -> [uart EXCEPT !.uart_hp = (v % 2 = 1)]
                     [] OTHER -> uart

EstuWrite(r, v) == CASE r = 0 -> [estu EXCEPT !.mm_start_inference = (v % 2 = 1)]
                     [] r = 1 -> [estu EXCEPT !.mm_num_instr = v % 256]
                     [] r = 2 -> [estu EXCEPT !.mm_external_wren = v % 4]
                     [] r = 4 -> [estu EXCEPT !.mm_encoding_bypass = (v % 2 = 1)]
                     [] OTHER -> estu

SpiWrite(r, v) == CASE r = 0 -> [spi EXCEPT !.mm_spi_adr = v % FlashSize]
                    [] r = 1 -> [spi EXCEPT !.mm_mem_address = v]
                    [] r = 2 -> [spi EXCEPT !.mm_read_size = v % 262144]
                    [] OTHER -> spi

(* A start while a transfer runs is not noticed.                               *)
Begins(r, v) == IF r = 3 /\ v % 2 = 1 /\ master.left = 0
                THEN [adr |-> spi.mm_spi_adr, size |-> spi.mm_read_size, left |-> 2]
                ELSE master

(* The gate closes at the edge after the write unless a request holds it open. *)
WriteStep ==
    /\ Running("write")
    /\ LET a == Current.adr
           v == Current.value
           To(slave, new, old) == IF Slave(a) = slave THEN new ELSE old
       IN  /\ Answers(a)
           /\ gpio'  = To("GPIO", GpioWrite(v), gpio)
           /\ uart'  = To("UART", UartWrite(a[2], v), uart)
           /\ estu'  = To("ACC", EstuWrite(a[2], v), estu)
           /\ spi'   = To("SPI", SpiWrite(a[2], v), spi)
           /\ master' = To("SPI", Begins(a[2], v), master)
           /\ timer' = To("TIMER", [mtimecmp |-> v % 65536, o_irq |-> FALSE], timer)
           /\ n_gate_serv' = To("CLK", v % 2 = 0 \/ timer.o_irq, n_gate_serv)
    /\ Advance
    /\ UNCHANGED <<globals, csr, memory, encoding, accel>>

(* A poll that finds what it waits for.  Reading the status of a transfer and  *)
(* the result clears their flags.  For the buttons main waits as long as they   *)
(* read non-zero (main.c:33); "pressed" (main.c:31) is a reading of zero.      *)
(* Faulty variant: the test of the buttons is negated, the wait lasts as long  *)
(* as they read zero.                                                          *)
MutFound(a) == \/ a = SERVANT_GPIO_ADDR /\ gpio.buttons # 0
               \/ a = SPI_VALID_ADDR /\ spi.mm_spi_valid
               \/ a = ESTU_DATA /\ estu.valid_ll
               \/ a = UART_READY_ADDR /\ ~uart.sending

Found(a) == \/ a = SERVANT_GPIO_ADDR /\ gpio.buttons = 0
            \/ a = SPI_VALID_ADDR /\ spi.mm_spi_valid
            \/ a = ESTU_DATA /\ estu.valid_ll
            \/ a = UART_READY_ADDR /\ ~uart.sending

(* Faulty variant: the status of a transfer stays set.                         *)
MutSpiRead(a) == spi

SpiRead(a) == IF a = SPI_VALID_ADDR THEN [spi EXCEPT !.mm_spi_valid = FALSE] ELSE spi

PollStep ==
    /\ Running("poll")
    /\ LET a == Current.adr IN
       /\ Answers(a) /\ Found(a)
       /\ spi' = SpiRead(a)
       /\ estu' = IF a = ESTU_DATA THEN [estu EXCEPT !.valid_ll = FALSE] ELSE estu
       /\ inference_data' = IF a = ESTU_DATA THEN accel.result ELSE inference_data
    /\ Advance
    /\ UNCHANGED <<bss, data, input_buf_adr, csr, gpio, uart, master, memory, encoding,
                   accel, timer, n_gate_serv>>

CsrAccess ==
    /\ Running("csr")
    /\ csr' = Csr!AfterAccess(csr, Current.reg,
                              Csr!Instruction(Csr!Macro(Current.macro)), Current.value)
    /\ Advance
    /\ UNCHANGED <<globals, devices>>

AssignBuffer ==
    /\ Running("set")
    /\ input_buf_adr' = Current.value
    /\ Advance
    /\ UNCHANGED <<bss, data, inference_data, csr, devices>>

-----------------------------------------------------------------------------
(* startup.c: _start clears .bss, copies .data and calls main.                *)

_enter == /\ pc = <<"_enter", 0>>
          /\ pc' = <<"bss", 0>>
          /\ UNCHANGED <<globals, csr, devices>>

InSection(i, size) == i < size

ClearBss == /\ pc[1] = "bss"
            /\ IF InSection(pc[2], BssSize)
               THEN bss' = bss \cup {pc[2]} /\ Advance
               ELSE pc' = <<"data", 0>> /\ UNCHANGED bss
            /\ UNCHANGED <<data, input_buf_adr, inference_data, csr, devices>>

CopyData == /\ pc[1] = "data"
            /\ IF InSection(pc[2], DataSize)
               THEN data' = data \cup {pc[2]} /\ Advance
               ELSE pc' = <<"main", 1>> /\ UNCHANGED data
            /\ UNCHANGED <<bss, input_buf_adr, inference_data, csr, devices>>

-----------------------------------------------------------------------------
(* Traps.  SERV decodes wfi as ebreak.                                         *)

Trap(insn, irq) ==
    /\ csr' = Csr!AfterTrap(csr, insn, FALSE, irq, {}, {})
    /\ pc' = IF Csr!TrapTarget(csr, insn) = irq_entry THEN <<"irq_entry", 1>> ELSE <<"lost", 0>>
    /\ UNCHANGED <<globals, devices>>

Interrupt == n_gate_serv /\ csr.mie /\ csr.mtie /\ timer.o_irq /\ Trap(Csr!None, TRUE)

Wfi == n_gate_serv /\ AtWfi /\ ~(csr.mie /\ csr.mtie /\ timer.o_irq) /\ Trap("ebreak", FALSE)

Core == \/ _enter \/ ClearBss \/ CopyData
        \/ WriteStep \/ PollStep \/ CsrAccess \/ AssignBuffer
        \/ Interrupt \/ Wfi

-----------------------------------------------------------------------------
(* The devices.                                                                *)

(* The buttons read zero or not, as they please.                               *)
Press == /\ \E b \in 0..1 : b # gpio.buttons /\ gpio' = [gpio EXCEPT !.buttons = b]
         /\ UNCHANGED <<pc, globals, csr, uart, estu, spi, master, memory, encoding, accel,
                        timer, n_gate_serv>>

(* servant_spi.v and estu.v: the words of a transfer go to the memory selected *)
(* at that moment; a weight memory takes them only while its write enable is   *)
(* set.                                                                        *)
Writable(m) == m = 2 \/ (estu.mm_external_wren \div 2^m) % 2 = 1

Transfer ==
    /\ master.left > 0
    /\ master' = [master EXCEPT !.left = @ - 1]
    /\ LET m    == spi.mm_mem_address
           half == 3 - master.left
       IN  /\ memory' = IF m \in 0..2 /\ Writable(m)
                        THEN [memory EXCEPT ![m][half] = <<master.adr, master.size>>]
                        ELSE memory
           /\ encoding' = (encoding \/ (m = 2 /\ half = 2))
    /\ spi' = [spi EXCEPT !.mm_spi_valid = @ \/ master.left = 1]
    /\ UNCHANGED <<pc, globals, csr, gpio, uart, estu, accel, timer, n_gate_serv>>

(* The last spike word of a frame starts an inference if the start bit is set. *)
Encoded ==
    /\ encoding
    /\ encoding' = FALSE
    /\ IF estu.mm_start_inference
       THEN /\ accel' = [accel EXCEPT !.running = TRUE, !.fed = memory[2][2][1]]
            /\ estu' = [estu EXCEPT !.mm_start_inference = FALSE]
       ELSE UNCHANGED <<accel, estu>>
    /\ UNCHANGED <<pc, globals, csr, gpio, uart, spi, master, memory, timer, n_gate_serv>>

Inferred ==
    /\ accel.running
    /\ accel' = [accel EXCEPT !.running = FALSE, !.result = accel.fed]
    /\ estu' = [estu EXCEPT !.valid_ll = TRUE]
    /\ UNCHANGED <<pc, globals, csr, gpio, uart, spi, master, memory, encoding, timer,
                   n_gate_serv>>

Sent == /\ uart.sending
        /\ uart' = [uart EXCEPT !.sending = FALSE]
        /\ UNCHANGED <<pc, globals, csr, gpio, estu, spi, master, memory, encoding, accel,
                       timer, n_gate_serv>>

(* With the comparison at zero, as after reset, the request is up for good.    *)
(* Otherwise it is up for two ticks, many instructions of the core: it does    *)
(* not fall before the core has taken the interrupt it may take.               *)
Timer == /\ timer.mtimecmp # 0
         /\ ~(timer.o_irq /\ n_gate_serv /\ csr.mie /\ csr.mtie)
         /\ timer' = [timer EXCEPT !.o_irq = ~@]
         /\ n_gate_serv' = (n_gate_serv \/ ~timer.o_irq)
         /\ UNCHANGED <<pc, globals, csr, gpio, uart, estu, spi, master, memory, encoding, accel>>

-----------------------------------------------------------------------------
(* The memories hold what they held, the globals are bytes of .bss.            *)
Init ==
    /\ pc = <<"_enter", 0>> /\ bss = {} /\ data = {}
    /\ input_buf_adr = 0 /\ inference_data = 0
    /\ Csr!CsrInit
    /\ gpio \in [led : {0, 15}, buttons : 0..1]
    /\ uart = [uart_data |-> 0, uart_hp |-> FALSE, sending |-> FALSE]
    /\ estu = [mm_start_inference |-> FALSE, mm_num_instr |-> 0, mm_external_wren |-> 0,
               mm_encoding_bypass |-> FALSE, valid_ll |-> FALSE]
    /\ spi = [mm_spi_adr |-> 0, mm_mem_address |-> 0, mm_read_size |-> 0,
              mm_spi_valid |-> FALSE]
    /\ master = [adr |-> 0, size |-> 0, left |-> 0]
    /\ memory = [m \in 0..2 |-> [half \in 1..2 |-> <<0, 0>>]]
    /\ encoding = FALSE
    /\ accel = [running |-> FALSE, fed |-> 0, result |-> 0]
    /\ timer = [mtimecmp |-> 0, o_irq |-> TRUE]
    /\ n_gate_serv = TRUE

Next == Core \/ Press \/ Transfer \/ Encoded \/ Inferred \/ Sent \/ Timer

Spec == Init /\ [][Next]_vars

(* The core executes while it is clocked; devices finish what they began.  The *)
(* timer keeps counting.                                                       *)
LiveSpec == /\ Spec
            /\ WF_vars(Core) /\ WF_vars(Transfer) /\ WF_vars(Encoded)
            /\ WF_vars(Inferred) /\ WF_vars(Sent) /\ WF_vars(Timer)
=============================================================================
