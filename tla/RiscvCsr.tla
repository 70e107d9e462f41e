------------------------------ MODULE RiscvCsr -------------------------------
(* riscv-csr.h: the access functions the firmware's header offers for each     *)
(* control and status register.  A register is its address, the functions that *)
(* exist for it and the fields it names; one function is one instruction of    *)
(* the core.  The header names registers, the addresses are those of the       *)
(* RISC-V instruction set.  A word is the set of the bits that are one.        *)
EXTENDS Integers

XLEN == 32

-----------------------------------------------------------------------------
(* Functions: csr_read_x() and so on, and the macros of main.c.                *)

Reading  == {"read"}
Unmasked == {"read", "write", "read_write"}
WithMask == Unmasked \cup {"set_bits", "clr_bits", "read_set_bits", "read_clr_bits",
                           "WRITE_IMM", "SET_BITS_IMM", "CLR_BITS_IMM"}

(* csrr is csrrs with register x0, csrw is csrrw.                              *)
Instruction(f) ==
    CASE f \in {"write", "read_write", "WRITE_IMM"}             -> "csrrw"
      [] f \in {"read", "set_bits", "read_set_bits", "SET_BITS_IMM"} -> "csrrs"
      [] f \in {"clr_bits", "read_clr_bits", "CLR_BITS_IMM"}    -> "csrrc"

(* The bits an operand may have: none for a read, five for an immediate.       *)
OperandBits(f) == CASE f = "read" -> {}
                    [] f \in {"WRITE_IMM", "SET_BITS_IMM", "CLR_BITS_IMM"} -> 0 .. 4
                    [] OTHER -> 0 .. XLEN - 1

Macro(m) == CASE m = "read_csr"  -> "read"
              [] m = "write_csr" -> "write"
              [] m = "set_csr"   -> "read_set_bits"
              [] m = "clear_csr" -> "read_clr_bits"

-----------------------------------------------------------------------------
(* Fields: offset, width, and the mask the header gives.                       *)

BitsOf(field) == field.offset .. field.offset + field.width - 1

(* A mask written as a number has one bit per position of the field.           *)
Named(o, w) == [offset |-> o, width |-> w, mask |-> o .. o + w - 1]
Flag(o)     == Named(o, 1)

(* A mask written (1UL<<((w)-1)) << (o): one bit, shifted out if it exceeds    *)
(* the word.                                                                   *)
Computed(o, w) == [offset |-> o, width |-> w,
                   mask |-> {o + (w - 1)} \cap (0 .. XLEN - 1)]

ReadOnly(a)  == [adr |-> a, functions |-> Reading,  fields |-> {}]
Register(a)  == [adr |-> a, functions |-> Unmasked, fields |-> {}]
Masked(a, s) == [adr |-> a, functions |-> WithMask, fields |-> s]

Vector(a) == Masked(a, {Computed(2, XLEN - 2), Named(0, 2)})
Cause(a)  == Masked(a, {Flag(XLEN - 1), Computed(0, XLEN - 1)})
Flags(a, bits)       == Masked(a, {Flag(b) : b \in bits})
MachineInterrupts(a) == Masked(a, {Flag(b) : b \in {0, 1, 3, 4, 5, 7, 8, 9, 11}}
                                  \cup {Computed(16, XLEN - 16 + 1)})
Counters(a, bits) == Masked(a, {Flag(b) : b \in bits} \cup {Named(3, 29)})

-----------------------------------------------------------------------------
(* The registers, in the order of the header.                                  *)

Identity ==
    [misa |-> Register(\h301), mvendorid |-> ReadOnly(\hF11),
     marchid |-> ReadOnly(\hF12), mimpid |-> ReadOnly(\hF13),
     mhartid |-> ReadOnly(\hF14)]
MachineStatus ==
    [mstatus |-> Masked(\h300, {Flag(b) : b \in {2, 3, 5, 7, 8, 17}}
                               \cup {Named(11, 2)}),
     mstatush |-> Register(\h310)]
MachineTrapVector ==
    [mtvec |-> Vector(\h305), medeleg |-> Register(\h302),
     mideleg |-> Register(\h303)]
PendingInterrupts ==
    [mip |-> MachineInterrupts(\h344)]
EnabledInterrupts ==
    [mie |-> MachineInterrupts(\h304)]
CounterInhibit ==
    [mcountinhibit |-> Counters(\h320, {0, 2}), mcycle |-> Register(\hB00),
     minstret |-> Register(\hB02)]
CounterEnable ==
    [mhpmcounter3 |-> Register(\hB03), mhpmevent3 |-> Register(\h323),
     mcounteren |-> Counters(\h306, {0, 1, 2})]
TrapReturn ==
    [scounteren |-> Register(\h106), mscratch |-> Register(\h340),
     mepc |-> Register(\h341)]
TrapCause ==
    [mcause |-> Cause(\h342), mtval |-> Register(\h343)]
SupervisorCause ==
    [sscratch |-> Register(\h140), sepc |-> Register(\h141),
     scause |-> Cause(\h142)]
SupervisorStatus ==
    [sstatus |-> Flags(\h100, {2, 5, 8})]
SupervisorVector ==
    [stvec |-> Vector(\h105), sideleg |-> Register(\h103),
     sedeleg |-> Register(\h102)]
SupervisorPending ==
    [sip |-> Flags(\h144, {0, 1, 4, 5, 8, 9})]
SupervisorEnabled ==
    [sie |-> Flags(\h104, {0, 1, 4, 5, 8, 9})]
UserStatus ==
    [ustatus |-> Flags(\h000, {1, 3})]
UserPending ==
    [uip |-> Flags(\h044, {0, 4, 8})]
UserEnabled ==
    [uie |-> Flags(\h004, {0, 4, 8}), uscratch |-> Register(\h040),
     uepc |-> Register(\h041)]
UserCause ==
    [ucause |-> Cause(\h042)]
UserVector ==
    [utvec |-> Vector(\h005), utval |-> Register(\h043)]
FloatingPoint ==
    [fflags |-> Register(\h001), frm |-> Register(\h002),
     fcsr |-> Register(\h003)]
UserCounters ==
    [cycle |-> ReadOnly(\hC00), time |-> ReadOnly(\hC01),
     instret |-> ReadOnly(\hC02), hpmcounter3 |-> ReadOnly(\hC03),
     hpmcounter4 |-> ReadOnly(\hC04), hpmcounter31 |-> ReadOnly(\hC1F),
     cycleh |-> ReadOnly(\hC80), timeh |-> ReadOnly(\hC81),
     instreth |-> ReadOnly(\hC82), hpmcounter3h |-> ReadOnly(\hC83),
     hpmcounter4h |-> ReadOnly(\hC84), hpmcounter31h |-> ReadOnly(\hC9F)]
SupervisorMemory ==
    [stval |-> Register(\h143), satp |-> Register(\h180)]
Hypervisor ==
    [hstatus |-> Register(\h600), hedeleg |-> Register(\h602),
     hideleg |-> Register(\h603), hcounteren |-> Register(\h606),
     hgatp |-> Register(\h680)]
HypervisorTime ==
    [htimedelta |-> Register(\h605), htimedeltah |-> Register(\h615)]
VirtualSupervisor ==
    [vsstatus |-> Register(\h200), vsie |-> Register(\h204),
     vstvec |-> Register(\h205), vsscratch |-> Register(\h240),
     vsepc |-> Register(\h241)]
VirtualTrap ==
    [vscause |-> Register(\h242), vstval |-> Register(\h243),
     vsip |-> Register(\h244), vsatp |-> Register(\h280)]
BaseBound ==
    [mbase |-> Register(\h380), mbound |-> Register(\h381),
     mibase |-> Register(\h382)]
BaseBoundData ==
    [mibound |-> Register(\h383), mdbase |-> Register(\h384),
     mdbound |-> Register(\h385)]
ProtectionConfig ==
    [pmpcfg0 |-> Register(\h3A0), pmpcfg1 |-> Register(\h3A1),
     pmpcfg2 |-> Register(\h3A2), pmpcfg3 |-> Register(\h3A3)]
ProtectionAddress ==
    [pmpaddr0 |-> Register(\h3B0), pmpaddr1 |-> Register(\h3B1),
     pmpaddr15 |-> Register(\h3BF)]
EventCounters ==
    [mhpmcounter4 |-> Register(\hB04), mhpmcounter31 |-> Register(\hB1F),
     mcycleh |-> Register(\hB80), minstreth |-> Register(\hB82)]
EventCountersHigh ==
    [mhpmcounter3h |-> Register(\hB83), mhpmcounter4h |-> Register(\hB84),
     mhpmcounter31h |-> Register(\hB9F)]
EventSelectors ==
    [mhpmevent4 |-> Register(\h324), mhpmevent31 |-> Register(\h33F)]
Triggers ==
    [tselect |-> Register(\h7A0), tdata1 |-> Register(\h7A1),
     tdata2 |-> Register(\h7A2), tdata3 |-> Register(\h7A3)]
Debug ==
    [dcsr |-> Register(\h7B0), dpc |-> Register(\h7B1),
     dscratch0 |-> Register(\h7B2), dscratch1 |-> Register(\h7B3)]
HypervisorInterrupts ==
    [hie |-> Register(\h604), hgeie |-> Register(\h607),
     htval |-> Register(\h643), hip |-> Register(\h644),
     htinst |-> Register(\h64A)]
TrapInstruction ==
    [hgeip |-> ReadOnly(\hE12), mtinst |-> Register(\h34A),
     mtval2 |-> Register(\h34B)]

Parts ==
    {Identity, MachineStatus, MachineTrapVector, PendingInterrupts,
     EnabledInterrupts, CounterInhibit, CounterEnable, TrapReturn, TrapCause,
     SupervisorCause, SupervisorStatus, SupervisorVector, SupervisorPending,
     SupervisorEnabled, UserStatus, UserPending, UserEnabled, UserCause,
     UserVector, FloatingPoint, UserCounters, SupervisorMemory, Hypervisor,
     HypervisorTime, VirtualSupervisor, VirtualTrap, BaseBound,
     BaseBoundData, ProtectionConfig, ProtectionAddress, EventCounters,
     EventCountersHigh, EventSelectors, Triggers, Debug,
     HypervisorInterrupts, TrapInstruction}

(* A register is in one of the parts.                                          *)
Header == [r \in UNION {DOMAIN p : p \in Parts} |->
              (CHOOSE p \in Parts : r \in DOMAIN p)[r]]
=============================================================================
