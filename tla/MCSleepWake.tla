---------------------------- MODULE MCSleepWake ------------------------------
(* The design: TIME is 50.  A tick is 1200 edges of the 12 MHz clock, in which *)
(* the bit-serial core executes about 17 instructions; here at least 10.       *)
EXTENDS SleepWakeProps

(* From the shortest handler that outlasts the two ticks of a request to one   *)
(* that ends as the next request comes.                                        *)
MCDurations == 2 .. 51
=============================================================================
