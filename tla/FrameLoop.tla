------------------------------ MODULE FrameLoop ------------------------------
(* What the firmware loop promises: it asks for the inference of one frame of  *)
(* samples at a time, and the answer it takes is the answer to that frame.     *)
EXTENDS Naturals

CONSTANT Frames    \* number of distinguishable frames (they are numbered modulo Frames)

VARIABLES asked,     \* the frame last asked for
          answered   \* the frame whose result the firmware last took

loop == <<asked, answered>>

Init == asked = 0 /\ answered = 0

(* A new frame is asked for only when the previous one has been answered.      *)
Ask == /\ answered = asked
       /\ asked' = (asked + 1) % Frames
       /\ UNCHANGED answered

Answer == /\ answered # asked
          /\ answered' = asked
          /\ UNCHANGED asked

Next == Ask \/ Answer

Spec == Init /\ [][Next]_loop
=============================================================================
