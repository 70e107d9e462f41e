----------------------------- MODULE MCSpiLoader -----------------------------
(* A full weight memory, a partial reload of it, a block of the other memory   *)
(* whose bytes wrap around the flash, and two different frames.                *)
EXTENDS SpiLoaderProps

MCRequests == { [sel |-> 0, adr |-> 0,  size |-> 48],
                [sel |-> 0, adr |-> 7,  size |-> 16],
                [sel |-> 1, adr |-> 14, size |-> 32],
                [sel |-> 2, adr |-> 3,  size |-> 32],
                [sel |-> 2, adr |-> 5,  size |-> 32] }
=============================================================================
