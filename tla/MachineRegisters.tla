-------------------------- MODULE MachineRegisters ---------------------------
(* What the access functions of riscv-csr.h promise of the machine mode        *)
(* registers this core has: a function reads and changes the register it names *)
(* and no other.  regs gives the contents of each register, a set of bits.     *)
EXTENDS Naturals

CONSTANTS Unreadable   \* registers whose contents a function cannot read back

Present == {"mstatus", "mie", "mtvec", "mscratch", "mepc", "mcause", "mtval"}

(* The bits the core keeps of a word written to a register.                    *)
Kept(m, w) == CASE m = "mstatus" -> w \cap {3}
                [] m = "mie"     -> w \cap {7}
                [] m = "mcause"  -> w \cap {0, 1, 2, 3, 31}
                [] OTHER         -> w

Contents(regs, m) == IF m \in Unreadable THEN {} ELSE regs[m]

Combine(insn, old, d) == CASE insn = "csrrw" -> d
                           [] insn = "csrrs" -> old \cup d
                           [] insn = "csrrc" -> old \ d

Changed(regs, m, insn, d) ==
    [regs EXCEPT ![m] = Kept(m, Combine(insn, Contents(regs, m), d))]
=============================================================================
