--------------------------- MODULE CsrFileProps ------------------------------
(* Properties of the control and status registers of CsrFile.                  *)
EXTENDS CsrFile, RiscvInterrupts

(* The registers of the core behind the names of the header.                   *)
View(c) == [m \in {"mstatus", "mie", "mtvec", "mscratch", "mepc", "mcause", "mtval"} |->
              CASE m = "mstatus"  -> If(c.mie, {3})
                [] m = "mie"      -> If(c.mtie, {7})
                [] m = "mcause"   -> c.mcause
                [] m = "mscratch" -> c.rf[MSCRATCH]
                [] m = "mtvec"    -> c.rf[MTVEC]
                [] m = "mepc"     -> c.rf[MEPC]
                [] m = "mtval"    -> c.rf[MTVAL]]

Machine == INSTANCE MachineRegisters WITH Unreadable <- {"mie"}

(* The registers of the other privilege levels have the low address byte of    *)
(* the machine register of the same purpose, and are the same register here.   *)
Levels == {r \in DOMAIN Header :
               \E m \in Machine!Present : Header[m].adr % 256 = Header[r].adr % 256}
MachineName(r) == CHOOSE m \in Machine!Present : Header[m].adr % 256 = Header[r].adr % 256

(* Whatever state the registers are in, a function of the header returns the   *)
(* contents of the register it names, changes it as the instruction says, and  *)
(* leaves every other register alone, except that mie reads as zero: four      *)
(* address bits, three enables and two address wires never fall on two         *)
(* registers at once (serv_decode.v, serv_csr.v, serv_rf_if.v).  Cleared by    *)
(* the mask the header has for it, a field leaves the other bits of its        *)
(* register as they are.                                                       *)
FunctionsKeepToTheirRegister ==
    \A r \in Levels : LET m == MachineName(r) IN
        /\ csr_out(csr, r) = Machine!Contents(View(csr), m)
        /\ \A f \in Header[r].functions : \A d \in Operands(f) :
              View(AfterAccess(csr, r, Instruction(f), d))
                  = Machine!Changed(View(csr), m, Instruction(f), d)
        /\ m # "mie" => \A f \in Header[r].fields :
              View(csr)[m] \ View(AfterAccess(csr, r, "csrrc", f.mask \cap Bits))[m]
                  \subseteq BitsOf(f)

(* An interrupt enters the handler at mtvec with interrupts disabled, and its  *)
(* mret returns to the interrupted instruction with interrupts enabled again,  *)
(* whichever instruction the interrupt has replaced, but for these: an access  *)
(* to mstatus and another mret, where the conditions of serv_csr.v, which it   *)
(* calls mutually exclusive, meet, and an access to mepc or mtval, where the   *)
(* or-ed address of serv_rf_if.v selects mtval.                                *)
InterruptIsTransparent ==
    (csr.mie /\ csr.mtie) =>
        \A i \in (Interrupted \cup {None}) \ {"mstatus", "mret"}, d \in BOOLEAN, epc, bad \in Places :
            LET after == AfterTrap(csr, i, d, TRUE, epc, bad) IN
            /\ i \notin {"mepc", "mtval"} => TrapTarget(csr, i) = csr.rf[MTVEC]
            /\ ~after.mie
            /\ ReturnTarget(after) = epc
            /\ AfterReturn(after).mie

(* mcause names the trap by the number riscv-interrupts.h has for it, though   *)
(* the core derives its four bits from what the decoder sees of the            *)
(* instruction, also when an interrupt has replaced it; only an ecall shows    *)
(* through (serv_csr.v).                                                       *)
CauseNamesTheTrap ==
    /\ \A i \in DOMAIN RISCV_EXCP :
           AfterTrap(csr, i, FALSE, FALSE, {}, {}).mcause = Number(RISCV_EXCP[i])
    /\ (csr.mie /\ csr.mtie) =>
           \A i \in (Interrupted \cup {None}) \ {"ecall"}, d \in BOOLEAN :
               AfterTrap(csr, i, d, TRUE, {}, {}).mcause
                   = Number(RISCV_INT_POS.MTI) \cup {31}
=============================================================================
