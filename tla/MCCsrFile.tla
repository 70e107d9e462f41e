----------------------------- MODULE MCCsrFile -------------------------------
(* The machine registers this core has.  Bits 3 and 7 are the positions of the *)
(* implemented bits of mstatus and mie.                                        *)
EXTENDS CsrFileProps

MCBits        == {3, 7}
MCPlaces      == {{}, {3, 7}}
MCRegisters   == Machine!Present
MCInterrupted == Machine!Present \cup {"ecall", "ebreak", "load", "store", "jump", "mret"}
=============================================================================
