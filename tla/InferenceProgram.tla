---------------------------- MODULE InferenceProgram ----------------------------
(***************************************************************************)
(* What the accelerator's sequencer promises, with no clock, no fetch and  *)
(* no state machine: an inference executes the instructions at addresses   *)
(* 0, Stride, 2 * Stride, ..., Last, each exactly once and in this order,  *)
(* and then stops until it is started again.                               *)
(***************************************************************************)
EXTENDS Naturals

CONSTANTS
  Stride,  (* distance between two consecutive instructions *)
  Last     (* address of the last instruction               *)

VARIABLES
  phase,   (* "idle", "fetch" or "execute"                  *)
  current  (* address of the instruction being treated      *)

vars == <<phase, current>>

Init ==
  /\ phase = "idle"
  /\ current = 0

Begin ==
  /\ phase = "idle"
  /\ phase' = "fetch"
  /\ current' = 0

Issue ==
  /\ phase = "fetch"
  /\ phase' = "execute"
  /\ current' = current

Retire ==
  /\ phase = "execute"
  /\ current # Last
  /\ phase' = "fetch"
  /\ current' = current + Stride

Finish ==
  /\ phase = "execute"
  /\ current = Last
  /\ phase' = "idle"
  /\ current' = 0

Next == Begin \/ Issue \/ Retire \/ Finish

Spec == Init /\ [][Next]_vars
=============================================================================
