-------------------------- MODULE RiscvInterrupts ----------------------------
(* riscv-interrupts.h: the numbers of interrupts and of exceptions, those this *)
(* core can raise by the names of CsrFile.                                     *)
EXTENDS Integers

RISCV_INT_POS == [MSI |-> 3, MTI |-> 7, MEI |-> 11, SSI |-> 1, STI |-> 5, SEI |-> 9,
                  USI |-> 0, UTI |-> 4, UEI |-> 8]

(* Misaligned jump, breakpoint, misaligned load and store, machine call.       *)
RISCV_EXCP == [jump |-> 0, ebreak |-> 3, load |-> 4, store |-> 6, ecall |-> 11]

(* The bits of a number of four bits that are one.                             *)
Number(n) == {b \in 0 .. 3 : (n \div 2^b) % 2 = 1}
=============================================================================
