------------------------------ MODULE CsrFile --------------------------------
(* The control and status registers of the SERV core as the firmware sees them *)
(* through riscv-csr.h.  The core decodes four bits of the register address,   *)
(* keeps three registers in flip-flops (serv_csr.v, of which it implements a   *)
(* few bits) and four in the register file; every other register of the header *)
(* falls on one or several of these.  A step is one instruction; the 32 edges  *)
(* in which the bit-serial core performs it read every bit before writing it.  *)
EXTENDS RiscvCsr

CONSTANTS Bits,        \* the bits of a word that are told apart
          Registers,   \* registers of the header that the program accesses
          Interrupted, \* instructions an interrupt may replace, see below
          Places       \* words a trap may store: program counter, bad address

ASSUME CsrAssumption ==
    /\ Bits \subseteq 0 .. XLEN - 1
    /\ Registers \subseteq DOMAIN Header
    /\ Places \subseteq SUBSET Bits /\ Places # {}

VARIABLES
    csr  \* [mie, mpie, mtie: BOOLEAN, mcause, rf: the four of the register file]

csr_vars == <<csr>>

-----------------------------------------------------------------------------
(* Decoding of the register address, serv_decode.v.                            *)

AddressBit(r, n) == (Header[r].adr \div (2 ^ n)) % 2 = 1

op26(r) == AddressBit(r, 6)
op22(r) == AddressBit(r, 2)
op21(r) == AddressBit(r, 1)
op20(r) == AddressBit(r, 0)

csr_en(r)     == op20(r) \/ (op26(r) /\ ~op21(r))
mstatus_en(r) == ~op26(r) /\ ~op22(r)
mie_en(r)     == ~op26(r) /\ op22(r) /\ ~op20(r)
mcause_en(r)  == op21(r) /\ ~op20(r)

(* Addresses of the register file: mscratch, mtvec, mepc, mtval.               *)
(* Faulty variant: the bit that tells mtvec from mscratch is lost.             *)
Mutcsr_addr(r) == <<op26(r) /\ op20(r), op21(r)>>

csr_addr(r) == <<op26(r) /\ op20(r), ~op26(r) \/ op21(r)>>
MSCRATCH == <<FALSE, FALSE>>
MTVEC    == <<FALSE, TRUE>>
MEPC     == <<TRUE, FALSE>>
MTVAL    == <<TRUE, TRUE>>

-----------------------------------------------------------------------------
(* An access: what is read, what is written back.  mie is not part of csr_out. *)

If(cond, w) == IF cond THEN w ELSE {}

csr_out(c, r) == If(mstatus_en(r) /\ c.mie, {3})
                 \cup If(csr_en(r), c.rf[csr_addr(r)])
                 \cup If(mcause_en(r), c.mcause)

csr_in(c, r, insn, d) == CASE insn = "csrrw" -> d
                           [] insn = "csrrs" -> csr_out(c, r) \cup d
                           [] insn = "csrrc" -> csr_out(c, r) \ d

AfterAccess(c, r, insn, d) ==
    LET w == csr_in(c, r, insn, d) IN
    [c EXCEPT !.mie    = IF mstatus_en(r) THEN 3 \in w ELSE c.mie,
              !.mtie   = IF mie_en(r) THEN 7 \in w ELSE c.mtie,
              !.mcause = IF mcause_en(r) THEN w \cap {0, 1, 2, 3, 31} ELSE c.mcause,
              !.rf     = IF csr_en(r) THEN [@ EXCEPT ![csr_addr(r)] = w] ELSE @]

(* Values an operand of function f may have.                                   *)
Operands(f) == SUBSET (Bits \cap OperandBits(f))

-----------------------------------------------------------------------------
(* Traps.  An instruction is that which raises an exception, the register it   *)
(* accesses, or none of these.  One that an interrupt replaces is decoded all  *)
(* the same.                                                                   *)

None == "none"
e_op(i)   == i \in {"ebreak", "ecall"}
mem_op(i) == i \in {"load", "store"}
Accesses(i) == i \in DOMAIN Header

(* Faulty variant: a store is not told from a load.                            *)
MutCauseOf(i, irq) == If(i = "ecall", {3}) \cup If(irq \/ mem_op(i), {2})
                      \cup If(irq \/ e_op(i), {0, 1}) \cup If(irq, {31})

CauseOf(i, irq) == If(i = "ecall", {3})
                   \cup If(irq \/ mem_op(i), {2})
                   \cup If(irq \/ e_op(i) \/ i = "store", {1})
                   \cup If(irq \/ e_op(i), {0})
                   \cup If(irq, {31})

(* If the instruction accesses mstatus, bit 3 is cleared by the trap three     *)
(* edges after the first, at an mret after the first, and saved, as zero,      *)
(* after the last.                                                             *)
(* Faulty variant: the saved enable is not updated.                            *)
Mutmpie_of_trap(c, i) == c.mpie

mpie_of_trap(c, i) == c.mie /\ i # "mret" /\ ~(Accesses(i) /\ mstatus_en(i))

(* An access to mie is performed although the instruction is replaced; d is    *)
(* what its operand would leave in bit 7.                                      *)
mtie_of_trap(c, i, d) == IF Accesses(i) /\ mie_en(i) THEN d ELSE c.mtie

AfterTrap(c, i, d, irq, epc, bad) ==
    [mie |-> FALSE, mpie |-> mpie_of_trap(c, i), mtie |-> mtie_of_trap(c, i, d),
     mcause |-> CauseOf(i, irq),
     rf |-> [c.rf EXCEPT ![MEPC] = epc, ![MTVAL] = bad]]

(* Where a trap goes: the address of mtvec is ored with that of the access, or *)
(* with that of mepc for an mret.                                              *)
TrapTarget(c, i) ==
    LET high == i = "mret" \/ (Accesses(i) /\ csr_en(i) /\ csr_addr(i)[1])
    IN  c.rf[<<high, TRUE>>]

AfterReturn(c)   == [c EXCEPT !.mie = c.mpie]
ReturnTarget(c)  == c.rf[MEPC]

-----------------------------------------------------------------------------
Access == \E r \in Registers : \E f \in Header[r].functions : \E d \in Operands(f) :
              csr' = AfterAccess(csr, r, Instruction(f), d)

TimerInterrupt ==
    /\ csr.mie /\ csr.mtie
    /\ \E i \in Interrupted \cup {None}, d \in BOOLEAN, epc, bad \in Places :
           csr' = AfterTrap(csr, i, d, TRUE, epc, bad)

Exception == \E e \in {"ebreak", "ecall", "load", "store", "jump"}, epc, bad \in Places :
                 csr' = AfterTrap(csr, e, FALSE, FALSE, epc, bad)

Return == csr' = AfterReturn(csr)

(* Only mtie is reset; the register file starts with whatever it holds.        *)
CsrInit == csr \in [mie : BOOLEAN, mpie : BOOLEAN, mtie : {FALSE}, mcause : {{}},
                    rf : [{MSCRATCH, MTVEC, MEPC, MTVAL} -> Places]]

CsrNext == Access \/ TimerInterrupt \/ Exception \/ Return

CsrSpec == CsrInit /\ [][CsrNext]_csr_vars
=============================================================================
