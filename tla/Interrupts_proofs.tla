------------------------- MODULE Interrupts_proofs ---------------------------
(* Proofs about the timer interrupt.  First the sampling loop, for every       *)
(* period, every duration of the handler, every ratio of the two clocks and    *)
(* both endings of the handler; then the registers the interrupt is set up     *)
(* and taken with, for every set of registers and of interrupted instructions. *)
EXTENDS SleepWakeProps, CsrFileProps, TLAPS

(* Interrupts are enabled in the loop only, and the saved enable belongs to    *)
(* the loop too, so a return enables them nowhere else.  An edge of the        *)
(* request that has just been taken cannot be taken again.                     *)
EnableInv ==
    /\ HandlerNotInterrupted
    /\ mstatus_mie => pc = "LOOP"
    /\ mstatus_mpie => mepc = "LOOP"
    /\ new_irq => timer_irq_r

(* Until the timer is written it compares with zero and requests all the time; *)
(* from then on the counter tells how long ago the request rose.               *)
PeriodInv ==
    /\ pc = "SET_TIMER" => mtimecmp = 0 /\ o_irq
    /\ pc # "SET_TIMER" => /\ mtimecmp = Compare
                           /\ mtime = Compare + 1 => age = 0 /\ o_irq
                           /\ mtime <= Compare => age = mtime + 1 /\ (o_irq => mtime = 0)

(* The clock stands at the end of the handler only, and not under a request.   *)
GateInv ==
    /\ AwakeOnRequest
    /\ ~n_gate_serv => pc = "GATED"

IInv == TypeOK /\ EnableInv /\ PeriodInv /\ GateInv

(* The inductive invariant holds initially.                                    *)
LEMMA InitInv == Init => IInv
<1> SUFFICES ASSUME Init PROVE IInv
  OBVIOUS
<1>1. TypeOK
  <2>1. mtime \in 0 .. Compare + 1 /\ owed \in -1 .. 2 /\ age \in 0 .. Compare + 3
        /\ left \in Nat /\ since \in 0 .. StepsPerTick /\ mtimecmp \in {0, Compare}
    BY SleepWakeAssumption DEF Init
  <2>2. mstatus_mie \in BOOLEAN /\ mstatus_mpie \in BOOLEAN /\ mie_mtie \in BOOLEAN
        /\ timer_irq_r \in BOOLEAN /\ new_irq \in BOOLEAN /\ o_irq \in BOOLEAN
        /\ n_gate_serv \in BOOLEAN /\ gate_serv_armed \in BOOLEAN
    BY DEF Init
  <2>3. ending \in {"wfi", "mret"} /\ pc \in Main /\ mepc \in {"LOOP", "END"}
    BY DEF Init, Main
  <2> QED BY <2>1, <2>2, <2>3 DEF TypeOK
<1>2. EnableInv
  BY DEF Init, EnableInv, HandlerNotInterrupted
<1>3. PeriodInv
  BY DEF Init, PeriodInv
<1>4. GateInv
  BY DEF Init, GateInv, AwakeOnRequest
<1> QED BY <1>1, <1>2, <1>3, <1>4 DEF IInv

(* Every step keeps the types: the counter never passes the comparison value   *)
(* by more than one.                                                           *)
LEMMA TypeStep == IInv /\ [Next]_vars => TypeOK'
<1> SUFFICES ASSUME IInv, [Next]_vars PROVE TypeOK'
  OBVIOUS
<1> USE SleepWakeAssumption DEF IInv, TypeOK, EnableInv, HandlerNotInterrupted, PeriodInv, Main, Handler
<1>1. ASSUME Core, SetTimer PROVE TypeOK'
  <2>1. UNCHANGED <<ending, mepc, mstatus_mie, mstatus_mpie, mie_mtie, left, gate, owed>>
        /\ pc' = "SET_MIE"
    BY <1>1 DEF Core, SetTimer
  <2>4. mtimecmp' = Compare /\ mtime' \in 0 .. Compare + 1 /\ age' \in 0 .. Compare + 3
    BY <1>1 DEF SetTimer
  <2>5. o_irq' \in BOOLEAN
    BY <1>1 DEF SetTimer
  <2>2. timer_irq_r' \in BOOLEAN /\ new_irq' \in BOOLEAN
    BY <1>1 DEF SetTimer, Sample
  <2>3. since' \in 0 .. StepsPerTick
    BY <1>1 DEF Core, Count
  <2> QED BY <2>1, <2>2, <2>3, <2>4, <2>5 DEF gate
<1>2. ASSUME Core, SetMie PROVE TypeOK'
  BY <1>2 DEF Core, SetMie, Count, Sample, Plain, Trap, core, timer, gate
<1>3. ASSUME Core, SetMstatus PROVE TypeOK'
  BY <1>3 DEF Core, SetMstatus, Count, Sample, Plain, Trap, core, timer, gate
<1>4. ASSUME Core, Loop PROVE TypeOK'
  BY <1>4 DEF Core, Loop, Count, Sample, Plain, Trap, core, timer, gate
<1>5. ASSUME Core, Interrupt PROVE TypeOK'
  <2>1. UNCHANGED <<ending, mie_mtie, left, timer, gate, owed, age>>
        /\ pc' = "ENTRY" /\ mepc' = "LOOP"
    BY <1>5 DEF Core, Interrupt, Trap, Plain
  <2>2. mstatus_mie' \in BOOLEAN /\ mstatus_mpie' \in BOOLEAN
        /\ timer_irq_r' \in BOOLEAN /\ new_irq' \in BOOLEAN
    BY <1>5 DEF Interrupt, Trap, Sample
  <2>3. since' \in 0 .. StepsPerTick
    BY <1>5 DEF Core, Count
  <2> QED BY <2>1, <2>2, <2>3 DEF timer, gate
<1>6. ASSUME Core, Entry PROVE TypeOK'
  BY <1>6 DEF Core, Entry, Count, Sample, Plain, Trap, core, timer, gate
<1>7. ASSUME Core, Poll PROVE TypeOK'
  BY <1>7 DEF Core, Poll, Count, Sample, Plain, Trap, core, timer, gate
<1>8. ASSUME Core, Inference PROVE TypeOK'
  BY <1>8 DEF Core, Inference, Count, Sample, Plain, Trap, core, timer, gate
<1>9. ASSUME Core, WriteGate PROVE TypeOK'
  BY <1>9 DEF Core, WriteGate, Count, Sample, Plain, Trap, core, timer, gate
<1>10. ASSUME Core, CloseGate PROVE TypeOK'
  <2>1. UNCHANGED <<ending, core, timer, owed, age>> /\ n_gate_serv' \in BOOLEAN
        /\ gate_serv_armed' \in BOOLEAN
    BY <1>10 DEF Core, CloseGate
  <2>2. since' \in 0 .. StepsPerTick
    BY <1>10 DEF Core, Count
  <2> QED BY <2>1, <2>2 DEF core, timer
<1>11. ASSUME Core, GateWritten PROVE TypeOK'
  BY <1>11 DEF Core, GateWritten, Count, Sample, Plain, Trap, core, timer, gate
<1>12. ASSUME Core, Wfi PROVE TypeOK'
  <2>1. UNCHANGED <<ending, mie_mtie, left, timer, gate, owed, age>>
        /\ pc' = "ENTRY" /\ mepc' = "END"
    BY <1>12 DEF Core, Wfi, Trap, Plain
  <2>2. mstatus_mie' \in BOOLEAN /\ mstatus_mpie' \in BOOLEAN
        /\ timer_irq_r' \in BOOLEAN /\ new_irq' \in BOOLEAN
    BY <1>12 DEF Wfi, Trap, Sample
  <2>3. since' \in 0 .. StepsPerTick
    BY <1>12 DEF Core, Count
  <2> QED BY <2>1, <2>2, <2>3 DEF timer, gate
<1>13. ASSUME Core, Mret PROVE TypeOK'
  BY <1>13 DEF Core, Mret, Count, Sample, Plain, Trap, core, timer, gate
<1>14. ASSUME Tick PROVE TypeOK'
  BY <1>14 DEF Tick, NextTime, Open, Waits, Clocked
<1>15. CASE UNCHANGED vars
  BY <1>15 DEF vars, core, timer, gate
<1> QED BY <1>1, <1>2, <1>3, <1>4, <1>5, <1>6, <1>7, <1>8, <1>9, <1>10, <1>11, <1>12, <1>13, <1>14, <1>15 DEF Next, Core

(* Every step keeps interrupts out of the handler.                             *)
LEMMA EnableStep == IInv /\ [Next]_vars => EnableInv'
<1> SUFFICES ASSUME IInv, [Next]_vars PROVE EnableInv'
  OBVIOUS
<1> USE SleepWakeAssumption DEF IInv, TypeOK, EnableInv, HandlerNotInterrupted
<1>1. ASSUME Core, SetTimer PROVE EnableInv'
  BY <1>1 DEF Core, SetTimer, Sample, Plain, Trap, core, timer, gate
<1>2. ASSUME Core, SetMie PROVE EnableInv'
  BY <1>2 DEF Core, SetMie, Sample, Plain, Trap, core, timer, gate
<1>3. ASSUME Core, SetMstatus PROVE EnableInv'
  BY <1>3 DEF Core, SetMstatus, Sample, Plain, Trap, core, timer, gate
<1>4. ASSUME Core, Loop PROVE EnableInv'
  BY <1>4 DEF Core, Loop, Sample, Plain, Trap, core, timer, gate
<1>5. ASSUME Core, Interrupt PROVE EnableInv'
  BY <1>5 DEF Core, Interrupt, Sample, Plain, Trap, core, timer, gate
<1>6. ASSUME Core, Entry PROVE EnableInv'
  BY <1>6 DEF Core, Entry, Sample, Plain, Trap, core, timer, gate
<1>7. ASSUME Core, Poll PROVE EnableInv'
  BY <1>7 DEF Core, Poll, Sample, Plain, Trap, core, timer, gate
<1>8. ASSUME Core, Inference PROVE EnableInv'
  BY <1>8 DEF Core, Inference, Sample, Plain, Trap, core, timer, gate
<1>9. ASSUME Core, WriteGate PROVE EnableInv'
  BY <1>9 DEF Core, WriteGate, Sample, Plain, Trap, core, timer, gate
<1>10. ASSUME Core, CloseGate PROVE EnableInv'
  BY <1>10 DEF Core, CloseGate, Sample, Plain, Trap, core, timer, gate
<1>11. ASSUME Core, GateWritten PROVE EnableInv'
  BY <1>11 DEF Core, GateWritten, Sample, Plain, Trap, core, timer, gate
<1>12. ASSUME Core, Wfi PROVE EnableInv'
  BY <1>12 DEF Core, Wfi, Sample, Plain, Trap, core, timer, gate
<1>13. ASSUME Core, Mret PROVE EnableInv'
  BY <1>13 DEF Core, Mret, Sample, Plain, Trap, core, timer, gate
<1>14. ASSUME Tick PROVE EnableInv'
  BY <1>14 DEF Tick, NextTime, Open, Waits, Clocked
<1>15. CASE UNCHANGED vars
  BY <1>15 DEF vars, core, timer, gate
<1> QED BY <1>1, <1>2, <1>3, <1>4, <1>5, <1>6, <1>7, <1>8, <1>9, <1>10, <1>11, <1>12, <1>13, <1>14, <1>15 DEF Next, Core

(* Every step keeps counter, request and age together.                         *)
LEMMA PeriodStep == IInv /\ [Next]_vars => PeriodInv'
<1> SUFFICES ASSUME IInv, [Next]_vars PROVE PeriodInv'
  OBVIOUS
<1> USE SleepWakeAssumption DEF IInv, TypeOK, EnableInv, HandlerNotInterrupted, PeriodInv
<1>1. ASSUME Core, SetTimer PROVE PeriodInv'
  BY <1>1 DEF Core, SetTimer, Sample, Plain, Trap, core, timer, gate
<1>2. ASSUME Core, SetMie PROVE PeriodInv'
  BY <1>2 DEF Core, SetMie, Sample, Plain, Trap, core, timer, gate
<1>3. ASSUME Core, SetMstatus PROVE PeriodInv'
  BY <1>3 DEF Core, SetMstatus, Sample, Plain, Trap, core, timer, gate
<1>4. ASSUME Core, Loop PROVE PeriodInv'
  BY <1>4 DEF Core, Loop, Sample, Plain, Trap, core, timer, gate
<1>5. ASSUME Core, Interrupt PROVE PeriodInv'
  BY <1>5 DEF Core, Interrupt, Sample, Plain, Trap, core, timer, gate
<1>6. ASSUME Core, Entry PROVE PeriodInv'
  BY <1>6 DEF Core, Entry, Sample, Plain, Trap, core, timer, gate
<1>7. ASSUME Core, Poll PROVE PeriodInv'
  BY <1>7 DEF Core, Poll, Sample, Plain, Trap, core, timer, gate
<1>8. ASSUME Core, Inference PROVE PeriodInv'
  BY <1>8 DEF Core, Inference, Sample, Plain, Trap, core, timer, gate
<1>9. ASSUME Core, WriteGate PROVE PeriodInv'
  BY <1>9 DEF Core, WriteGate, Sample, Plain, Trap, core, timer, gate
<1>10. ASSUME Core, CloseGate PROVE PeriodInv'
  BY <1>10 DEF Core, CloseGate, Sample, Plain, Trap, core, timer, gate
<1>11. ASSUME Core, GateWritten PROVE PeriodInv'
  BY <1>11 DEF Core, GateWritten, Sample, Plain, Trap, core, timer, gate
<1>12. ASSUME Core, Wfi PROVE PeriodInv'
  BY <1>12 DEF Core, Wfi, Sample, Plain, Trap, core, timer, gate
<1>13. ASSUME Core, Mret PROVE PeriodInv'
  BY <1>13 DEF Core, Mret, Sample, Plain, Trap, core, timer, gate
<1>14. ASSUME Tick PROVE PeriodInv'
  <2>1. /\ UNCHANGED <<pc, mtimecmp>> /\ mtime' = NextTime
        /\ o_irq' <=> mtime >= mtimecmp
        /\ age' = IF o_irq' /\ ~o_irq THEN 0
                  ELSE IF age <= Compare + 2 THEN age + 1 ELSE age
    BY <1>14 DEF Tick
  <2>2. CASE pc = "SET_TIMER"
    BY <2>1, <2>2
  <2>3. CASE pc # "SET_TIMER" /\ mtime < Compare
    BY <2>1, <2>3 DEF NextTime
  <2>4. CASE pc # "SET_TIMER" /\ mtime = Compare
    <3>1. ~o_irq /\ o_irq' /\ mtime' = Compare + 1
      BY <2>1, <2>4 DEF NextTime
    <3> QED BY <2>1, <2>4, <3>1
  <2>5. CASE pc # "SET_TIMER" /\ mtime = Compare + 1
    <3>1. o_irq /\ age = 0 /\ mtime' = 0
      BY <2>1, <2>5 DEF NextTime
    <3>2. age' = 1
      BY <2>1, <3>1
    <3> QED BY <2>1, <2>5, <3>1, <3>2
  <2> QED BY <2>2, <2>3, <2>4, <2>5
<1>15. CASE UNCHANGED vars
  BY <1>15 DEF vars, core, timer, gate
<1> QED BY <1>1, <1>2, <1>3, <1>4, <1>5, <1>6, <1>7, <1>8, <1>9, <1>10, <1>11, <1>12, <1>13, <1>14, <1>15 DEF Next, Core

(* Every step keeps the clock running where it is needed.                      *)
LEMMA GateStep == IInv /\ [Next]_vars => GateInv'
<1> SUFFICES ASSUME IInv, [Next]_vars PROVE GateInv'
  OBVIOUS
<1> USE SleepWakeAssumption DEF IInv, TypeOK, GateInv, AwakeOnRequest
<1>1. ASSUME Core, SetTimer PROVE GateInv'
  BY <1>1 DEF Core, SetTimer, Clocked, Sample, Plain, Trap, core, timer, gate
<1>2. ASSUME Core, SetMie PROVE GateInv'
  BY <1>2 DEF Core, SetMie, Clocked, Sample, Plain, Trap, core, timer, gate
<1>3. ASSUME Core, SetMstatus PROVE GateInv'
  BY <1>3 DEF Core, SetMstatus, Clocked, Sample, Plain, Trap, core, timer, gate
<1>4. ASSUME Core, Loop PROVE GateInv'
  BY <1>4 DEF Core, Loop, Clocked, Sample, Plain, Trap, core, timer, gate
<1>5. ASSUME Core, Interrupt PROVE GateInv'
  BY <1>5 DEF Core, Interrupt, Clocked, Sample, Plain, Trap, core, timer, gate
<1>6. ASSUME Core, Entry PROVE GateInv'
  BY <1>6 DEF Core, Entry, Clocked, Sample, Plain, Trap, core, timer, gate
<1>7. ASSUME Core, Poll PROVE GateInv'
  BY <1>7 DEF Core, Poll, Clocked, Sample, Plain, Trap, core, timer, gate
<1>8. ASSUME Core, Inference PROVE GateInv'
  BY <1>8 DEF Core, Inference, Clocked, Sample, Plain, Trap, core, timer, gate
<1>9. ASSUME Core, WriteGate PROVE GateInv'
  BY <1>9 DEF Core, WriteGate, Clocked, Sample, Plain, Trap, core, timer, gate
<1>10. ASSUME Core, CloseGate PROVE GateInv'
  BY <1>10 DEF Core, CloseGate, Clocked, Sample, Plain, Trap, core, timer, gate
<1>11. ASSUME Core, GateWritten PROVE GateInv'
  BY <1>11 DEF Core, GateWritten, Clocked, Sample, Plain, Trap, core, timer, gate
<1>12. ASSUME Core, Wfi PROVE GateInv'
  BY <1>12 DEF Core, Wfi, Clocked, Sample, Plain, Trap, core, timer, gate
<1>13. ASSUME Core, Mret PROVE GateInv'
  BY <1>13 DEF Core, Mret, Clocked, Sample, Plain, Trap, core, timer, gate
<1>14. ASSUME Tick PROVE GateInv'
  BY <1>14 DEF Tick, NextTime, Open, Waits, Clocked
<1>15. CASE UNCHANGED vars
  BY <1>15 DEF vars, core, timer, gate
<1> QED BY <1>1, <1>2, <1>3, <1>4, <1>5, <1>6, <1>7, <1>8, <1>9, <1>10, <1>11, <1>12, <1>13, <1>14, <1>15 DEF Next, Core

(* The strengthened invariant of the sampling loop.                            *)
THEOREM Inductive == Spec => []IInv
<1>1. IInv /\ [Next]_vars => IInv'
  BY TypeStep, EnableStep, PeriodStep, GateStep DEF IInv
<1> QED BY InitInv, <1>1, PTL DEF Spec

(* The types; the counter stays within its comparison value and one.           *)
THEOREM TypeCorrect == Spec => []TypeOK
BY Inductive, PTL DEF IInv

(* The handler is never interrupted, whichever instruction ends it and however *)
(* long it takes.                                                              *)
THEOREM HandlerSafe == Spec => []HandlerNotInterrupted
<1>1. IInv => HandlerNotInterrupted
  BY DEF IInv, EnableInv
<1> QED BY Inductive, <1>1, PTL

(* The clock is never stopped under a request, whenever that comes between the *)
(* write that arms the gate and the edge that closes it.                       *)
THEOREM NeverAsleepOnRequest == Spec => []AwakeOnRequest
<1>1. IInv => AwakeOnRequest
  BY DEF IInv, GateInv
<1> QED BY Inductive, <1>1, PTL

(* Two requests are TIME + 2 ticks apart, whatever the core does in between.   *)
THEOREM EquallySpaced == Spec => EverySampleTime
<1>1. IInv /\ [Next]_vars => [(o_irq' /\ ~o_irq) => age + 1 = Compare + 2]_vars
  <2> SUFFICES ASSUME IInv, [Next]_vars, ~UNCHANGED vars, o_irq', ~o_irq
               PROVE  age + 1 = Compare + 2
    OBVIOUS
  <2>1. CASE Core
    <3>1. o_irq' = o_irq \/ o_irq' = FALSE
      BY <2>1 DEF Core, SetTimer, SetMie, SetMstatus, Loop, Interrupt, Entry, Poll,
                  Inference, WriteGate, CloseGate, GateWritten, Wfi, Mret, Trap, Plain, timer
    <3> QED BY <3>1
  <2>2. CASE Tick
    <3>1. mtime >= mtimecmp /\ pc # "SET_TIMER"
      BY <2>2 DEF Tick, IInv, PeriodInv, TypeOK
    <3>2. mtime = Compare
      BY <3>1, SleepWakeAssumption DEF IInv, PeriodInv, TypeOK
    <3> QED BY <3>1, <3>2, SleepWakeAssumption DEF IInv, PeriodInv, TypeOK
  <2> QED BY <2>1, <2>2 DEF Next
<1> QED BY Inductive, <1>1, PTL DEF Spec, EverySampleTime

-----------------------------------------------------------------------------
(* That every pulse is answered once depends on the durations: the handler     *)
(* outlasts the two ticks of a request, so that it does not see its own pulse  *)
(* a second time, it takes less than a period, so that it ends while the next  *)
(* request is still up, and its last six instructions, from the gate to the    *)
(* loop and the trap, fit into a tick.                                         *)
HandlerFits == Durations \subseteq 2 .. Compare + 1 /\ StepsPerTick >= 6

(* How many instructions at most the core has executed since the handler       *)
(* finished its work.                                                          *)
Position == CASE pc = "GATED" /\ gate_serv_armed -> 1
              [] pc = "GATED" /\ ~gate_serv_armed -> 2
              [] pc = "END" -> 3
              [] pc = "LOOP" -> 4
              [] pc = "ENTRY" -> 5
              [] OTHER -> 0

(* A request is up and the core reaches the handler before it ends.            *)
InTime == o_irq /\ age \in {0, 1} /\ (age = 1 => since <= Position)

(* The interrupt is enabled in the loop, and the handler leaves for the loop   *)
(* with the request seen low.                                                  *)
ReturnInv ==
    /\ pc \notin {"SET_TIMER", "SET_MIE"} => mie_mtie
    /\ pc = "LOOP" => mstatus_mie
    /\ ending = "mret" => mepc = "LOOP" /\ (pc \in Handler => mstatus_mpie)
    /\ pc \in Handler \ {"ENTRY"} => ~timer_irq_r
    /\ gate_serv_armed => pc = "GATED"

(* At every place of the firmware: what is owed, and how long the request has  *)
(* been up.                                                                    *)
Idle     == owed = 0 /\ ~o_irq
Answers  == owed = 1 /\ InTime
AnswerInv ==
    /\ pc = "SET_TIMER" => owed = 0
    /\ pc \in {"SET_MIE", "SET_MSTATUS"} =>
          /\ Idle /\ ~timer_irq_r /\ age \in {1, 2}
          /\ age = 2 => since <= (IF pc = "SET_MIE" THEN 0 ELSE 1)
    /\ pc = "LOOP" /\ ~new_irq => ~timer_irq_r /\ (Idle \/ (Answers /\ age = 0 /\ since = 0))
    /\ pc = "LOOP" /\ new_irq => Answers
    /\ pc \in {"ENTRY", "END"} => Answers
    /\ pc = "GATED" /\ ~gate_serv_armed => IF n_gate_serv THEN Answers ELSE owed = 0
    /\ pc = "GATED" /\ gate_serv_armed => Idle \/ Answers
    /\ pc = "GATE" => Idle \/ Answers
    /\ pc = "INFERENCE" => \/ /\ owed = 0 /\ age + left \in 2 .. Compare + 2
                              /\ left = 0 => age <= Compare + 1
                           \/ Answers /\ age = 0 /\ left = 0

(* Every step keeps the interrupt enabled where it is awaited.                *)
LEMMA ReturnStep ==
    ASSUME HandlerFits, IInv, ReturnInv, AnswerInv, [Next]_vars PROVE ReturnInv'
<1> USE SleepWakeAssumption DEF IInv, TypeOK, EnableInv, HandlerNotInterrupted, GateInv, ReturnInv, Main, Handler
<1>1. ASSUME Core, SetTimer PROVE ReturnInv'
  BY <1>1 DEF Core, SetTimer, Clocked, Sample, core, timer, gate
<1>2. ASSUME Core, SetMie PROVE ReturnInv'
  BY <1>2 DEF Core, SetMie, Clocked, Sample, Plain, core, timer, gate
<1>3. ASSUME Core, SetMstatus PROVE ReturnInv'
  BY <1>3 DEF Core, SetMstatus, Clocked, Sample, Plain, core, timer, gate
<1>4. ASSUME Core, Loop PROVE ReturnInv'
  BY <1>4 DEF Core, Loop, Clocked, Sample, Plain, core, timer, gate
<1>5. ASSUME Core, Interrupt PROVE ReturnInv'
  BY <1>5 DEF Core, Interrupt, Clocked, Sample, Trap, Plain, core, timer, gate
<1>6. ASSUME Core, Entry PROVE ReturnInv'
  BY <1>6 DEF Core, Entry, Clocked, Sample, core, timer, gate
<1>7. ASSUME Core, Poll PROVE ReturnInv'
  BY <1>7 DEF Core, Poll, Clocked, Sample, Plain, core, timer, gate
<1>8. ASSUME Core, Inference PROVE ReturnInv'
  BY <1>8 DEF Core, Inference, Clocked, Sample, Plain, core, timer, gate
<1>9. ASSUME Core, WriteGate PROVE ReturnInv'
  BY <1>9 DEF Core, WriteGate, Clocked, core, timer, gate
<1>10. ASSUME Core, CloseGate PROVE ReturnInv'
  BY <1>10 DEF Core, CloseGate, Clocked, core, timer, gate
<1>11. ASSUME Core, GateWritten PROVE ReturnInv'
  BY <1>11 DEF Core, GateWritten, Clocked, Sample, Plain, core, timer, gate
<1>12. ASSUME Core, Wfi PROVE ReturnInv'
  BY <1>12 DEF Core, Wfi, Clocked, Sample, Trap, Plain, core, timer, gate
<1>13. ASSUME Core, Mret PROVE ReturnInv'
  BY <1>13 DEF Core, Mret, Clocked, Sample, Plain, core, timer, gate
<1>14. ASSUME Tick PROVE ReturnInv'
  BY <1>14 DEF Tick, NextTime, Open, Waits, Clocked
<1>15. CASE UNCHANGED vars
  BY <1>15 DEF vars, core, timer, gate
<1> QED BY <1>1, <1>2, <1>3, <1>4, <1>5, <1>6, <1>7, <1>8, <1>9, <1>10, <1>11, <1>12, <1>13, <1>14, <1>15 DEF Next, Core

(* Every step keeps what is owed within one pulse.                            *)
LEMMA AnswerStep ==
    ASSUME HandlerFits, IInv, ReturnInv, AnswerInv, [Next]_vars PROVE AnswerInv'
<1> USE SleepWakeAssumption DEF HandlerFits, IInv, TypeOK, EnableInv, HandlerNotInterrupted, GateInv, AwakeOnRequest, PeriodInv, ReturnInv, AnswerInv, Idle, Answers, InTime, Position, Main, Handler
<1>1. ASSUME Core, SetTimer PROVE AnswerInv'
  BY <1>1 DEF Core, SetTimer, Clocked, Sample, Count, core, timer, gate
<1>2. ASSUME Core, SetMie PROVE AnswerInv'
  BY <1>2 DEF Core, SetMie, Clocked, Sample, Plain, Count, core, timer, gate
<1>3. ASSUME Core, SetMstatus PROVE AnswerInv'
  BY <1>3 DEF Core, SetMstatus, Clocked, Sample, Plain, Count, core, timer, gate
<1>4. ASSUME Core, Loop PROVE AnswerInv'
  BY <1>4 DEF Core, Loop, Clocked, Sample, Plain, Count, core, timer, gate
<1>5. ASSUME Core, Interrupt PROVE AnswerInv'
  BY <1>5 DEF Core, Interrupt, Clocked, Sample, Trap, Plain, Count, core, timer, gate
<1>6. ASSUME Core, Entry PROVE AnswerInv'
  BY <1>6 DEF Core, Entry, Clocked, Sample, Count, core, timer, gate
<1>7. ASSUME Core, Poll PROVE AnswerInv'
  BY <1>7 DEF Core, Poll, Clocked, Sample, Plain, Count, core, timer, gate
<1>8. ASSUME Core, Inference PROVE AnswerInv'
  BY <1>8 DEF Core, Inference, Clocked, Sample, Plain, Count, core, timer, gate
<1>9. ASSUME Core, WriteGate PROVE AnswerInv'
  BY <1>9 DEF Core, WriteGate, Clocked, Count, core, timer, gate
<1>10. ASSUME Core, CloseGate PROVE AnswerInv'
  BY <1>10 DEF Core, CloseGate, Clocked, Count, core, timer, gate
<1>11. ASSUME Core, GateWritten PROVE AnswerInv'
  BY <1>11 DEF Core, GateWritten, Clocked, Sample, Plain, Count, core, timer, gate
<1>12. ASSUME Core, Wfi PROVE AnswerInv'
  BY <1>12 DEF Core, Wfi, Clocked, Sample, Trap, Plain, Count, core, timer, gate
<1>13. ASSUME Core, Mret PROVE AnswerInv'
  <2>1. /\ pc' = "LOOP" /\ UNCHANGED <<o_irq, owed, age, n_gate_serv, gate_serv_armed>>
        /\ pc = "END" /\ mepc = "LOOP" /\ ~timer_irq_r
    BY <1>13 DEF Core, Mret, Plain, timer, gate
  <2>2. mstatus_mpie = TRUE /\ mie_mtie = TRUE
    BY <2>1, <1>13 DEF Mret
  <2>3. new_irq' = TRUE
    <3>1. new_irq' = (o_irq /\ mstatus_mpie /\ mie_mtie /\ ~timer_irq_r)
      BY <1>13 DEF Mret, Sample
    <3> QED BY <3>1, <2>1, <2>2
  <2>4. age = 1 => since <= 3 /\ since' <= 4
    BY <2>1, <1>13 DEF Core, Count
  <2> QED BY <2>1, <2>3, <2>4
<1>14. ASSUME Tick PROVE AnswerInv'
  BY <1>14 DEF Tick, NextTime, Open, Waits, Clocked
<1>15. CASE UNCHANGED vars
  BY <1>15 DEF vars, core, timer, gate
<1> QED BY <1>1, <1>2, <1>3, <1>4, <1>5, <1>6, <1>7, <1>8, <1>9, <1>10, <1>11, <1>12, <1>13, <1>14, <1>15 DEF Next, Core

(* Every pulse is answered by one inference, for every period, every handler   *)
(* that fits and both endings of it.                                           *)
THEOREM EachPulseAnswered == HandlerFits => (Spec => []OneInferencePerPulse)
<1> SUFFICES ASSUME HandlerFits PROVE Spec => []OneInferencePerPulse
  OBVIOUS
<1>1. Init => ReturnInv /\ AnswerInv
  BY DEF Init, ReturnInv, AnswerInv, Handler
<1>2. HandlerFits /\ IInv /\ ReturnInv /\ AnswerInv /\ [Next]_vars => ReturnInv' /\ AnswerInv'
  BY ReturnStep, AnswerStep
<1>3. IInv /\ AnswerInv => OneInferencePerPulse
  BY DEF IInv, TypeOK, Main, Handler, AnswerInv, Idle, Answers, OneInferencePerPulse
<1> QED BY Inductive, InitInv, <1>1, <1>2, <1>3, PTL DEF Spec

-----------------------------------------------------------------------------
(* The control and status registers of CsrFile.                                *)

(* A word of the core, and an entry of the header as its macros make it.       *)
Word == SUBSET (0 .. XLEN - 1)

WellFormed(e) == /\ e.adr \in Nat /\ e.functions \subseteq WithMask
                 /\ \A f \in e.fields : f.mask \subseteq BitsOf(f)

(* The inductive invariant: what each register may hold.                       *)
CsrTypes(c) ==
    c \in [mie : BOOLEAN, mpie : BOOLEAN, mtie : BOOLEAN, mcause : SUBSET {0, 1, 2, 3, 31},
           rf : [{MSCRATCH, MTVEC, MEPC, MTVAL} -> Word]]

(* A mask the header gives has no bit outside its field.                       *)
LEMMA Masks ==
  /\ \A o, w : Named(o, w).mask \subseteq BitsOf(Named(o, w))
  /\ \A o \in Nat, w \in Nat \ {0} : Computed(o, w).mask \subseteq BitsOf(Computed(o, w))
<1>1. \A o, w : Named(o, w).mask = BitsOf(Named(o, w))
  BY DEF Named, BitsOf
<1>2. ASSUME NEW o \in Nat, NEW w \in Nat \ {0}
      PROVE  Computed(o, w).mask \subseteq BitsOf(Computed(o, w))
  <2>1. /\ Computed(o, w).mask \subseteq {o + (w - 1)}
        /\ BitsOf(Computed(o, w)) = o .. o + w - 1
    BY DEF Computed, BitsOf
  <2>2. o + (w - 1) \in o .. o + w - 1
    OBVIOUS
  <2> QED BY <2>1, <2>2
<1> QED BY <1>1, <1>2

(* Each form in which the header declares a register makes an entry.           *)
LEMMA Shapes ==
  \A a \in Nat :
    /\ WellFormed(ReadOnly(a)) /\ WellFormed(Register(a))
    /\ \A s : (\A f \in s : f.mask \subseteq BitsOf(f)) => WellFormed(Masked(a, s))
    /\ WellFormed(Vector(a)) /\ WellFormed(Cause(a))
    /\ WellFormed(MachineInterrupts(a))
    /\ \A b : WellFormed(Flags(a, b)) /\ WellFormed(Counters(a, b))
<1> SUFFICES ASSUME NEW a \in Nat
             PROVE  /\ WellFormed(ReadOnly(a)) /\ WellFormed(Register(a))
                    /\ \A s : (\A f \in s : f.mask \subseteq BitsOf(f)) => WellFormed(Masked(a, s))
                    /\ WellFormed(Vector(a)) /\ WellFormed(Cause(a))
                    /\ WellFormed(MachineInterrupts(a))
                    /\ \A b : WellFormed(Flags(a, b)) /\ WellFormed(Counters(a, b))
  OBVIOUS
<1>1. WellFormed(ReadOnly(a)) /\ WellFormed(Register(a))
  BY DEF WellFormed, ReadOnly, Register, Reading, Unmasked, WithMask
<1>2. ASSUME NEW s, \A f \in s : f.mask \subseteq BitsOf(f) PROVE WellFormed(Masked(a, s))
  BY <1>2 DEF WellFormed, Masked
<1>3. /\ \A o : Flag(o).mask \subseteq BitsOf(Flag(o))
      /\ Computed(2, XLEN - 2).mask \subseteq BitsOf(Computed(2, XLEN - 2))
      /\ Computed(0, XLEN - 1).mask \subseteq BitsOf(Computed(0, XLEN - 1))
      /\ Computed(16, XLEN - 16 + 1).mask \subseteq BitsOf(Computed(16, XLEN - 16 + 1))
      /\ Named(0, 2).mask \subseteq BitsOf(Named(0, 2))
      /\ Named(3, 29).mask \subseteq BitsOf(Named(3, 29))
  <2>1. XLEN - 2 \in Nat \ {0} /\ XLEN - 1 \in Nat \ {0} /\ XLEN - 16 + 1 \in Nat \ {0}
    BY DEF XLEN
  <2> QED BY <2>1, Masks DEF Flag
<1>4. WellFormed(Vector(a))
  BY <1>2, <1>3 DEF Vector
<1>5. WellFormed(Cause(a))
  BY <1>2, <1>3 DEF Cause
<1>6. WellFormed(MachineInterrupts(a))
  BY <1>2, <1>3 DEF MachineInterrupts
<1>7. \A b : WellFormed(Flags(a, b))
  BY <1>2, <1>3 DEF Flags
<1>8. \A b : WellFormed(Counters(a, b))
  BY <1>2, <1>3 DEF Counters
<1> QED BY <1>1, <1>2, <1>4, <1>5, <1>6, <1>7, <1>8

(* Every register of every part of the header is such an entry,                *)
LEMMA Entries ==
  \A p \in Parts : \A r \in DOMAIN p : WellFormed(p[r])
<1>1. \A r \in DOMAIN MachineStatus : WellFormed(MachineStatus[r])
  <2>1. \A f \in {Flag(b) : b \in {2, 3, 5, 7, 8, 17}} \cup {Named(11, 2)} :
            f.mask \subseteq BitsOf(f)
    BY Masks DEF Flag
  <2>2. WellFormed(MachineStatus["mstatus"])
    BY <2>1, Shapes DEF MachineStatus
  <2> QED BY <2>2, Shapes DEF MachineStatus
<1>2. \A p \in {Identity, MachineTrapVector, PendingInterrupts, EnabledInterrupts,
                CounterInhibit, CounterEnable, TrapReturn, TrapCause, SupervisorCause,
                SupervisorStatus, SupervisorVector, SupervisorPending, SupervisorEnabled} :
          \A r \in DOMAIN p : WellFormed(p[r])
  BY Shapes DEF Identity, MachineTrapVector, PendingInterrupts, EnabledInterrupts,
     CounterInhibit, CounterEnable, TrapReturn, TrapCause, SupervisorCause,
     SupervisorStatus, SupervisorVector, SupervisorPending, SupervisorEnabled
<1>3. \A p \in {UserStatus, UserPending, UserEnabled, UserCause, UserVector, FloatingPoint,
                UserCounters, SupervisorMemory, Hypervisor, HypervisorTime,
                VirtualSupervisor, VirtualTrap} :
          \A r \in DOMAIN p : WellFormed(p[r])
  BY Shapes DEF UserStatus, UserPending, UserEnabled, UserCause, UserVector, FloatingPoint,
     UserCounters, SupervisorMemory, Hypervisor, HypervisorTime, VirtualSupervisor,
     VirtualTrap
<1>4. \A p \in {BaseBound, BaseBoundData, ProtectionConfig, ProtectionAddress,
                EventCounters, EventCountersHigh, EventSelectors, Triggers, Debug,
                HypervisorInterrupts, TrapInstruction} :
          \A r \in DOMAIN p : WellFormed(p[r])
  BY Shapes DEF BaseBound, BaseBoundData, ProtectionConfig, ProtectionAddress,
     EventCounters, EventCountersHigh, EventSelectors, Triggers, Debug,
     HypervisorInterrupts, TrapInstruction
<1> QED BY <1>1, <1>2, <1>3, <1>4 DEF Parts

(* and so is every register of the header.                                     *)
LEMMA HeaderEntries ==
  \A r \in DOMAIN Header : WellFormed(Header[r])
<1> SUFFICES ASSUME NEW r \in DOMAIN Header PROVE WellFormed(Header[r])
  OBVIOUS
<1>1. \E p \in Parts : r \in DOMAIN p
  BY DEF Header
<1>2. PICK p \in Parts : r \in DOMAIN p /\ Header[r] = p[r]
  BY <1>1 DEF Header
<1> QED BY <1>2, Entries

(* A register that one part of the header declares is declared by that part.   *)
LEMMA OnePart ==
  ASSUME NEW q \in Parts, NEW r \in DOMAIN q, \A p \in Parts : r \in DOMAIN p => p = q
  PROVE  r \in DOMAIN Header /\ Header[r] = q[r]
BY DEF Header

(* The addresses of the machine registers; nothing else that an interrupt may  *)
(* replace is the name of a register.                                          *)
LEMMA MachineAddresses ==
  /\ Machine!Present \subseteq DOMAIN Header
  /\ Header["mstatus"].adr = 768 /\ Header["mie"].adr = 772 /\ Header["mtvec"].adr = 773
  /\ Header["mscratch"].adr = 832 /\ Header["mepc"].adr = 833
  /\ Header["mcause"].adr = 834 /\ Header["mtval"].adr = 835
  /\ {None, "ebreak", "ecall", "load", "store", "jump", "mret"} \cap DOMAIN Header = {}
<1>1. /\ \A p \in Parts : "mstatus" \in DOMAIN p => p = MachineStatus
      /\ \A p \in Parts : "mie" \in DOMAIN p => p = EnabledInterrupts
      /\ \A p \in Parts : "mtvec" \in DOMAIN p => p = MachineTrapVector
      /\ \A p \in Parts : "mscratch" \in DOMAIN p => p = TrapReturn
      /\ \A p \in Parts : "mepc" \in DOMAIN p => p = TrapReturn
      /\ \A p \in Parts : "mcause" \in DOMAIN p => p = TrapCause
      /\ \A p \in Parts : "mtval" \in DOMAIN p => p = TrapCause
      /\ \A p \in Parts :
            {None, "ebreak", "ecall", "load", "store", "jump", "mret"} \cap DOMAIN p = {}
  BY DEF None, Parts, Identity, MachineStatus, MachineTrapVector, PendingInterrupts,
     EnabledInterrupts, CounterInhibit, CounterEnable, TrapReturn, TrapCause,
     SupervisorCause, SupervisorStatus, SupervisorVector, SupervisorPending,
     SupervisorEnabled, UserStatus, UserPending, UserEnabled, UserCause, UserVector,
     FloatingPoint, UserCounters, SupervisorMemory, Hypervisor, HypervisorTime,
     VirtualSupervisor, VirtualTrap, BaseBound, BaseBoundData, ProtectionConfig,
     ProtectionAddress, EventCounters, EventCountersHigh, EventSelectors, Triggers,
     Debug, HypervisorInterrupts, TrapInstruction
<1>2. {MachineStatus, EnabledInterrupts, MachineTrapVector, TrapReturn, TrapCause}
          \subseteq Parts
  BY DEF Parts
<1>3. "mstatus" \in DOMAIN MachineStatus /\ MachineStatus["mstatus"].adr = 768
  BY DEF MachineStatus, Masked
<1>4. "mie" \in DOMAIN EnabledInterrupts /\ EnabledInterrupts["mie"].adr = 772
  BY DEF EnabledInterrupts, MachineInterrupts, Masked
<1>5. "mtvec" \in DOMAIN MachineTrapVector /\ MachineTrapVector["mtvec"].adr = 773
  BY DEF MachineTrapVector, Vector, Masked
<1>6. /\ "mscratch" \in DOMAIN TrapReturn /\ TrapReturn["mscratch"].adr = 832
      /\ "mepc" \in DOMAIN TrapReturn /\ TrapReturn["mepc"].adr = 833
  BY DEF TrapReturn, Register
<1>7. /\ "mcause" \in DOMAIN TrapCause /\ TrapCause["mcause"].adr = 834
      /\ "mtval" \in DOMAIN TrapCause /\ TrapCause["mtval"].adr = 835
  BY DEF TrapCause, Cause, Masked, Register
<1>8. "mstatus" \in DOMAIN Header /\ Header["mstatus"] = MachineStatus["mstatus"]
  BY <1>1, <1>2, <1>3, OnePart
<1>9. "mie" \in DOMAIN Header /\ Header["mie"] = EnabledInterrupts["mie"]
  BY <1>1, <1>2, <1>4, OnePart
<1>10. "mtvec" \in DOMAIN Header /\ Header["mtvec"] = MachineTrapVector["mtvec"]
  BY <1>1, <1>2, <1>5, OnePart
<1>11. "mscratch" \in DOMAIN Header /\ Header["mscratch"] = TrapReturn["mscratch"]
  BY <1>1, <1>2, <1>6, OnePart
<1>12. "mepc" \in DOMAIN Header /\ Header["mepc"] = TrapReturn["mepc"]
  BY <1>1, <1>2, <1>6, OnePart
<1>13. "mcause" \in DOMAIN Header /\ Header["mcause"] = TrapCause["mcause"]
  BY <1>1, <1>2, <1>7, OnePart
<1>14. "mtval" \in DOMAIN Header /\ Header["mtval"] = TrapCause["mtval"]
  BY <1>1, <1>2, <1>7, OnePart
<1>15. \A r \in DOMAIN Header : \E p \in Parts : r \in DOMAIN p
  BY DEF Header
<1>16. {None, "ebreak", "ecall", "load", "store", "jump", "mret"} \cap DOMAIN Header = {}
  BY <1>1, <1>15
<1>17. Machine!Present \subseteq DOMAIN Header
  BY <1>8, <1>9, <1>10, <1>11, <1>12, <1>13, <1>14 DEF Machine!Present
<1> QED BY <1>3, <1>4, <1>5, <1>6, <1>7, <1>8, <1>9, <1>10, <1>11, <1>12, <1>13, <1>14, <1>16, <1>17

(* The decoder sees the lower byte of an address only.                         *)
LEMMA DecodedLow ==
  ASSUME NEW r, Header[r].adr \in Nat, NEW v, v = Header[r].adr % 256
  PROVE  /\ op26(r) <=> (v \div 64) % 2 = 1
         /\ op22(r) <=> (v \div 4) % 2 = 1
         /\ op21(r) <=> (v \div 2) % 2 = 1
         /\ op20(r) <=> v % 2 = 1
<1>1. PICK a \in Nat : a = Header[r].adr
  OBVIOUS
<1>2. /\ (a \div 64) % 2 = ((a % 256) \div 64) % 2
      /\ (a \div 4) % 2 = ((a % 256) \div 4) % 2
      /\ (a \div 2) % 2 = ((a % 256) \div 2) % 2
      /\ a % 2 = (a % 256) % 2
  BY SMT
<1>3. /\ (a \div 2^6) % 2 = (a \div 64) % 2 /\ (a \div 2^2) % 2 = (a \div 4) % 2
      /\ (a \div 2^1) % 2 = (a \div 2) % 2 /\ (a \div 2^0) % 2 = a % 2
  BY SMT
<1> QED BY <1>1, <1>2, <1>3 DEF op26, op22, op21, op20, AddressBit

(* The decoder takes r for the machine register m, and for no other.           *)
Selects(r, m) ==
    /\ mstatus_en(r) <=> m = "mstatus"
    /\ mie_en(r) <=> m = "mie"
    /\ mcause_en(r) <=> m = "mcause"
    /\ csr_en(r) <=> m \in {"mscratch", "mtvec", "mepc", "mtval"}
    /\ m = "mscratch" => csr_addr(r) = MSCRATCH
    /\ m = "mtvec" => csr_addr(r) = MTVEC
    /\ m = "mepc" => csr_addr(r) = MEPC
    /\ m = "mtval" => csr_addr(r) = MTVAL

(* A register with the lower byte of a machine register selects that register. *)
LEMMA Decoding ==
  ASSUME NEW r \in DOMAIN Header, NEW m \in Machine!Present,
         Header[m].adr % 256 = Header[r].adr % 256
  PROVE  Selects(r, m)
<1>1. Header[r].adr \in Nat
  BY HeaderEntries DEF WellFormed
<1>2. PICK v \in Nat : v = Header[r].adr % 256
  BY <1>1, SMT
<1>3. m = "mstatus" => v = 0
  BY <1>2, MachineAddresses, SMT
<1>4. m = "mie" => v = 4
  BY <1>2, MachineAddresses, SMT
<1>5. m = "mtvec" => v = 5
  BY <1>2, MachineAddresses, SMT
<1>6. m = "mscratch" => v = 64
  BY <1>2, MachineAddresses, SMT
<1>7. m = "mepc" => v = 65
  BY <1>2, MachineAddresses, SMT
<1>8. m = "mcause" => v = 66
  BY <1>2, MachineAddresses, SMT
<1>9. m = "mtval" => v = 67
  BY <1>2, MachineAddresses, SMT
<1>10. /\ op26(r) <=> (v \div 64) % 2 = 1
       /\ op22(r) <=> (v \div 4) % 2 = 1
       /\ op21(r) <=> (v \div 2) % 2 = 1
       /\ op20(r) <=> v % 2 = 1
  BY <1>1, <1>2, DecodedLow
<1>11. CASE m = "mstatus"
  <2>1. ~op26(r) /\ ~op22(r) /\ ~op21(r) /\ ~op20(r)
    BY <1>3, <1>10, <1>11, SMT
  <2> QED BY <1>11, <2>1 DEF Selects, mstatus_en, mie_en, mcause_en, csr_en
<1>12. CASE m = "mie"
  <2>1. ~op26(r) /\ op22(r) /\ ~op21(r) /\ ~op20(r)
    BY <1>4, <1>10, <1>12, SMT
  <2> QED BY <1>12, <2>1 DEF Selects, mstatus_en, mie_en, mcause_en, csr_en
<1>13. CASE m = "mtvec"
  <2>1. ~op26(r) /\ op22(r) /\ ~op21(r) /\ op20(r)
    BY <1>5, <1>10, <1>13, SMT
  <2>2. csr_addr(r) = MTVEC
    BY <2>1, Zenon DEF csr_addr, MTVEC
  <2> QED BY <1>13, <2>1, <2>2 DEF Selects, mstatus_en, mie_en, mcause_en, csr_en
<1>14. CASE m = "mscratch"
  <2>1. op26(r) /\ ~op22(r) /\ ~op21(r) /\ ~op20(r)
    BY <1>6, <1>10, <1>14, SMT
  <2>2. csr_addr(r) = MSCRATCH
    BY <2>1, Zenon DEF csr_addr, MSCRATCH
  <2> QED BY <1>14, <2>1, <2>2 DEF Selects, mstatus_en, mie_en, mcause_en, csr_en
<1>15. CASE m = "mepc"
  <2>1. op26(r) /\ ~op22(r) /\ ~op21(r) /\ op20(r)
    BY <1>7, <1>10, <1>15, SMT
  <2>2. csr_addr(r) = MEPC
    BY <2>1, Zenon DEF csr_addr, MEPC
  <2> QED BY <1>15, <2>1, <2>2 DEF Selects, mstatus_en, mie_en, mcause_en, csr_en
<1>16. CASE m = "mcause"
  <2>1. op26(r) /\ ~op22(r) /\ op21(r) /\ ~op20(r)
    BY <1>8, <1>10, <1>16, SMT
  <2> QED BY <1>16, <2>1 DEF Selects, mstatus_en, mie_en, mcause_en, csr_en
<1>17. CASE m = "mtval"
  <2>1. op26(r) /\ ~op22(r) /\ op21(r) /\ op20(r)
    BY <1>9, <1>10, <1>17, SMT
  <2>2. csr_addr(r) = MTVAL
    BY <2>1, Zenon DEF csr_addr, MTVAL
  <2> QED BY <1>17, <2>1, <2>2 DEF Selects, mstatus_en, mie_en, mcause_en, csr_en
<1> QED BY <1>11, <1>12, <1>13, <1>14, <1>15, <1>16, <1>17 DEF Machine!Present

(* The register file keeps the four registers apart.                           *)
LEMMA FourAddresses ==
  /\ MSCRATCH # MTVEC /\ MSCRATCH # MEPC /\ MSCRATCH # MTVAL
  /\ MTVEC # MEPC /\ MTVEC # MTVAL /\ MEPC # MTVAL
BY DEF MSCRATCH, MTVEC, MEPC, MTVAL

(* The register behind each name.                                              *)
LEMMA ViewAt ==
  ASSUME NEW c
  PROVE  /\ View(c) = [k \in Machine!Present |-> View(c)[k]]
         /\ View(c)["mstatus"] = If(c.mie, {3}) /\ View(c)["mie"] = If(c.mtie, {7})
         /\ View(c)["mcause"] = c.mcause /\ View(c)["mscratch"] = c.rf[MSCRATCH]
         /\ View(c)["mtvec"] = c.rf[MTVEC] /\ View(c)["mepc"] = c.rf[MEPC]
         /\ View(c)["mtval"] = c.rf[MTVAL]
<1> DEFINE V(m) == CASE m = "mstatus"  -> If(c.mie, {3})
                     [] m = "mie"      -> If(c.mtie, {7})
                     [] m = "mcause"   -> c.mcause
                     [] m = "mscratch" -> c.rf[MSCRATCH]
                     [] m = "mtvec"    -> c.rf[MTVEC]
                     [] m = "mepc"     -> c.rf[MEPC]
                     [] m = "mtval"    -> c.rf[MTVAL]
<1>1. View(c) = [m \in Machine!Present |-> V(m)]
  BY DEF View, Machine!Present
<1>2. /\ V("mstatus") = If(c.mie, {3}) /\ V("mie") = If(c.mtie, {7})
      /\ V("mcause") = c.mcause /\ V("mscratch") = c.rf[MSCRATCH]
      /\ V("mtvec") = c.rf[MTVEC] /\ V("mepc") = c.rf[MEPC]
      /\ V("mtval") = c.rf[MTVAL]
  OBVIOUS
<1> HIDE DEF V
<1>3. \A m \in Machine!Present : View(c)[m] = V(m)
  BY <1>1
<1>4. View(c) = [m \in Machine!Present |-> View(c)[m]]
  BY <1>1, <1>3
<1> QED BY <1>2, <1>3, <1>4 DEF Machine!Present

(* The bits each register keeps.                                               *)
LEMMA KeptAt ==
  ASSUME NEW w
  PROVE  /\ Machine!Kept("mstatus", w) = w \cap {3} /\ Machine!Kept("mie", w) = w \cap {7}
         /\ Machine!Kept("mcause", w) = w \cap {0, 1, 2, 3, 31}
         /\ \A m \in {"mscratch", "mtvec", "mepc", "mtval"} : Machine!Kept(m, w) = w
BY DEF Machine!Kept

(* An access reads the register the decoder selects.                           *)
LEMMA ReadsItsRegister ==
  ASSUME NEW c, CsrTypes(c), NEW r, NEW m \in Machine!Present, Selects(r, m)
  PROVE  csr_out(c, r) = Machine!Contents(View(c), m)
<1>1. Machine!Contents(View(c), m) = IF m = "mie" THEN {} ELSE View(c)[m]
  BY DEF Machine!Contents, View, Machine!Present
<1>2. csr_out(c, r) = If(m = "mstatus" /\ c.mie, {3})
          \cup If(m \in {"mscratch", "mtvec", "mepc", "mtval"}, c.rf[csr_addr(r)])
          \cup If(m = "mcause", c.mcause)
  BY DEF csr_out, Selects, If
<1>3. CASE m = "mstatus"
  BY <1>1, <1>2, <1>3, ViewAt DEF If
<1>4. CASE m = "mie"
  BY <1>1, <1>2, <1>4, ViewAt DEF If
<1>5. CASE m = "mcause"
  BY <1>1, <1>2, <1>5, ViewAt DEF If
<1>6. CASE m \in {"mscratch", "mtvec", "mepc", "mtval"}
  <2>1. csr_out(c, r) = c.rf[csr_addr(r)]
    BY <1>2, <1>6 DEF If
  <2> QED BY <1>1, <1>6, <2>1, ViewAt DEF Selects
<1> QED BY <1>3, <1>4, <1>5, <1>6 DEF Machine!Present

(* An access changes the register the decoder selects, and no other.           *)
LEMMA ChangesItsRegister ==
  ASSUME NEW c, CsrTypes(c), NEW r, NEW m \in Machine!Present, Selects(r, m),
         NEW insn \in {"csrrw", "csrrs", "csrrc"}, NEW d
  PROVE  View(AfterAccess(c, r, insn, d)) = Machine!Changed(View(c), m, insn, d)
<1> DEFINE w == Machine!Combine(insn, Machine!Contents(View(c), m), d)
           a == AfterAccess(c, r, insn, d)
<1>1. csr_in(c, r, insn, d) = w
  BY ReadsItsRegister DEF csr_in, Machine!Combine
<1>2. a = [c EXCEPT !.mie    = IF m = "mstatus" THEN 3 \in w ELSE c.mie,
                    !.mtie   = IF m = "mie" THEN 7 \in w ELSE c.mtie,
                    !.mcause = IF m = "mcause" THEN w \cap {0, 1, 2, 3, 31} ELSE c.mcause,
                    !.rf     = IF m \in {"mscratch", "mtvec", "mepc", "mtval"}
                               THEN [@ EXCEPT ![csr_addr(r)] = w] ELSE @]
  BY <1>1 DEF AfterAccess, Selects
<1> HIDE DEF w
<1>3. /\ a.mie = IF m = "mstatus" THEN 3 \in w ELSE c.mie
      /\ a.mtie = IF m = "mie" THEN 7 \in w ELSE c.mtie
      /\ a.mcause = IF m = "mcause" THEN w \cap {0, 1, 2, 3, 31} ELSE c.mcause
      /\ a.rf = IF m \in {"mscratch", "mtvec", "mepc", "mtval"}
                THEN [c.rf EXCEPT ![csr_addr(r)] = w] ELSE c.rf
  <2>1. DOMAIN c = {"mie", "mpie", "mtie", "mcause", "rf"}
    BY DEF CsrTypes
  <2> HIDE DEF a
  <2> QED BY <1>2, <2>1
<1>4. Machine!Changed(View(c), m, insn, d)
          = [k \in Machine!Present |-> IF k = m THEN Machine!Kept(m, w) ELSE View(c)[k]]
  BY ViewAt DEF Machine!Changed, w
<1>5. View(a) = [k \in Machine!Present |-> View(a)[k]]
  BY ViewAt
<1> HIDE DEF a
<1>6. DOMAIN c.rf = {MSCRATCH, MTVEC, MEPC, MTVAL}
  BY DEF CsrTypes
<1>7. \A k \in Machine!Present : View(a)[k] = IF k = m THEN Machine!Kept(m, w) ELSE View(c)[k]
  <2>1. View(a)["mstatus"] = IF m = "mstatus" THEN Machine!Kept(m, w) ELSE View(c)["mstatus"]
    <3>1. CASE m = "mstatus"
      <4>1. If(a.mie, {3}) = w \cap {3}
        BY <1>3, <3>1 DEF If
      <4>2. View(a)["mstatus"] = If(a.mie, {3})
        BY ViewAt
      <4>3. Machine!Kept(m, w) = w \cap {3}
        BY <3>1, KeptAt
      <4> QED BY <3>1, <4>1, <4>2, <4>3, Zenon
    <3>2. CASE m # "mstatus"
      BY <1>3, <3>2, ViewAt
    <3> QED BY <3>1, <3>2
  <2>2. View(a)["mie"] = IF m = "mie" THEN Machine!Kept(m, w) ELSE View(c)["mie"]
    <3>1. CASE m = "mie"
      <4>1. If(a.mtie, {7}) = w \cap {7}
        BY <1>3, <3>1 DEF If
      <4>2. View(a)["mie"] = If(a.mtie, {7})
        BY ViewAt
      <4>3. Machine!Kept(m, w) = w \cap {7}
        BY <3>1, KeptAt
      <4> QED BY <3>1, <4>1, <4>2, <4>3, Zenon
    <3>2. CASE m # "mie"
      BY <1>3, <3>2, ViewAt
    <3> QED BY <3>1, <3>2
  <2>3. View(a)["mcause"] = IF m = "mcause" THEN Machine!Kept(m, w) ELSE View(c)["mcause"]
    BY <1>3, ViewAt, KeptAt
  <2>4. View(a)["mscratch"] = IF m = "mscratch" THEN Machine!Kept(m, w) ELSE View(c)["mscratch"]
    BY <1>3, <1>6, ViewAt, FourAddresses DEF Machine!Kept, Selects
  <2>5. View(a)["mtvec"] = IF m = "mtvec" THEN Machine!Kept(m, w) ELSE View(c)["mtvec"]
    BY <1>3, <1>6, ViewAt, FourAddresses DEF Machine!Kept, Selects
  <2>6. View(a)["mepc"] = IF m = "mepc" THEN Machine!Kept(m, w) ELSE View(c)["mepc"]
    BY <1>3, <1>6, ViewAt, FourAddresses DEF Machine!Kept, Selects
  <2>7. View(a)["mtval"] = IF m = "mtval" THEN Machine!Kept(m, w) ELSE View(c)["mtval"]
    BY <1>3, <1>6, ViewAt, FourAddresses DEF Machine!Kept, Selects
  <2> QED BY <2>1, <2>2, <2>3, <2>4, <2>5, <2>6, <2>7 DEF Machine!Present
<1> QED BY <1>4, <1>5, <1>7 DEF a

(* Every register of a level selects the machine register of its purpose.      *)
LEMMA NamedRegister ==
  ASSUME NEW r \in Levels
  PROVE  MachineName(r) \in Machine!Present /\ Selects(r, MachineName(r))
<1>1. r \in DOMAIN Header /\ \E m \in Machine!Present : Header[m].adr % 256 = Header[r].adr % 256
  BY DEF Levels
<1>2. /\ MachineName(r) \in Machine!Present
      /\ Header[MachineName(r)].adr % 256 = Header[r].adr % 256
  BY <1>1 DEF MachineName
<1> QED BY <1>1, <1>2, Decoding

(* Every function of the header is one of three instructions.                  *)
LEMMA Instructions ==
  \A f \in WithMask : Instruction(f) \in {"csrrw", "csrrs", "csrrc"}
BY DEF WithMask, Unmasked, Instruction

(* In every state within the types the functions keep to their register.       *)
LEMMA FunctionsInOrder ==
  CsrTypes(csr) => FunctionsKeepToTheirRegister
<1> SUFFICES ASSUME CsrTypes(csr), NEW r \in Levels, NEW m, m = MachineName(r),
                    NEW old, old = Machine!Contents(View(csr), m)
             PROVE  /\ csr_out(csr, r) = old
                    /\ \A f \in Header[r].functions : \A d \in Operands(f) :
                          View(AfterAccess(csr, r, Instruction(f), d))
                              = Machine!Changed(View(csr), m, Instruction(f), d)
                    /\ m # "mie" => \A f \in Header[r].fields :
                          View(csr)[m] \ View(AfterAccess(csr, r, "csrrc", f.mask \cap Bits))[m]
                              \subseteq BitsOf(f)
  BY DEF FunctionsKeepToTheirRegister
<1>1. m \in Machine!Present /\ Selects(r, m) /\ r \in DOMAIN Header /\ WellFormed(Header[r])
  BY NamedRegister, HeaderEntries DEF Levels
<1>2. csr_out(csr, r) = old
  BY <1>1, ReadsItsRegister
<1>3. ASSUME NEW f \in Header[r].functions, NEW d \in Operands(f)
      PROVE  View(AfterAccess(csr, r, Instruction(f), d))
                 = Machine!Changed(View(csr), m, Instruction(f), d)
  <2>1. Instruction(f) \in {"csrrw", "csrrs", "csrrc"}
    BY <1>1, Instructions DEF WellFormed
  <2> QED BY <1>1, <2>1, ChangesItsRegister
<1>4. ASSUME m # "mie", NEW f \in Header[r].fields,
             NEW b \in View(csr)[m] \ View(AfterAccess(csr, r, "csrrc", f.mask \cap Bits))[m]
      PROVE  b \in BitsOf(f)
  <2>1. View(AfterAccess(csr, r, "csrrc", f.mask \cap Bits))[m]
            = Machine!Kept(m, old \ (f.mask \cap Bits))
    <3>1. View(AfterAccess(csr, r, "csrrc", f.mask \cap Bits))
              = Machine!Changed(View(csr), m, "csrrc", f.mask \cap Bits)
      BY <1>1, ChangesItsRegister
    <3>2. View(csr) = [k \in Machine!Present |-> View(csr)[k]]
      BY ViewAt
    <3> QED BY <1>1, <3>1, <3>2 DEF Machine!Changed, Machine!Combine
  <2>2. old = View(csr)[m]
    BY <1>1, <1>4 DEF Machine!Contents, View, Machine!Present
  <2>3. b \in old /\ b \notin Machine!Kept(m, old \ (f.mask \cap Bits))
    BY <1>4, <2>1, <2>2
  <2>4. Machine!Kept(m, old \ (f.mask \cap Bits)) = old \ (f.mask \cap Bits)
    <3>1. CASE m = "mstatus"
      <4>1. old \subseteq {3}
        BY <2>2, <3>1, ViewAt DEF If
      <4> QED BY <3>1, <4>1 DEF Machine!Kept
    <3>2. CASE m = "mcause"
      <4>1. old \subseteq {0, 1, 2, 3, 31}
        BY <2>2, <3>2, ViewAt DEF CsrTypes
      <4> QED BY <3>2, <4>1 DEF Machine!Kept
    <3>3. CASE m \in {"mscratch", "mtvec", "mepc", "mtval"}
      BY <3>3 DEF Machine!Kept
    <3> QED BY <1>1, <1>4, <3>1, <3>2, <3>3 DEF Machine!Present
  <2>5. b \in f.mask
    BY <2>3, <2>4
  <2> QED BY <1>1, <2>5 DEF WellFormed
<1> QED BY <1>2, <1>3, <1>4

(* The bits of the numbers in riscv-interrupts.h that a cause may have.        *)
LEMMA Numbers ==
  /\ Number(0) = {} /\ Number(3) = {0, 1} /\ Number(4) = {2} /\ Number(6) = {1, 2}
  /\ Number(7) = {0, 1, 2} /\ Number(11) = {0, 1, 3}
<1>1. \A n \in Nat : /\ 0 \in Number(n) <=> n % 2 = 1
                     /\ 1 \in Number(n) <=> (n \div 2) % 2 = 1
                     /\ 2 \in Number(n) <=> (n \div 4) % 2 = 1
                     /\ 3 \in Number(n) <=> (n \div 8) % 2 = 1
                     /\ Number(n) \subseteq {0, 1, 2, 3}
  <2> SUFFICES ASSUME NEW n \in Nat
               PROVE  /\ 0 \in Number(n) <=> n % 2 = 1
                      /\ 1 \in Number(n) <=> (n \div 2) % 2 = 1
                      /\ 2 \in Number(n) <=> (n \div 4) % 2 = 1
                      /\ 3 \in Number(n) <=> (n \div 8) % 2 = 1
                      /\ Number(n) \subseteq {0, 1, 2, 3}
    OBVIOUS
  <2>1. /\ (n \div 2^0) % 2 = n % 2 /\ (n \div 2^1) % 2 = (n \div 2) % 2
        /\ (n \div 2^2) % 2 = (n \div 4) % 2 /\ (n \div 2^3) % 2 = (n \div 8) % 2
    BY SMT
  <2>2. /\ 0 \in Number(n) <=> (n \div 2^0) % 2 = 1
        /\ 1 \in Number(n) <=> (n \div 2^1) % 2 = 1
        /\ 2 \in Number(n) <=> (n \div 2^2) % 2 = 1
        /\ 3 \in Number(n) <=> (n \div 2^3) % 2 = 1
        /\ Number(n) \subseteq 0 .. 3
    BY DEF Number
  <2> QED BY <2>1, <2>2
<1>2. Number(0) = {}
  BY <1>1, SMT
<1>3. Number(3) = {0, 1}
  BY <1>1, SMT
<1>4. Number(4) = {2}
  BY <1>1, SMT
<1>5. Number(6) = {1, 2}
  BY <1>1, SMT
<1>6. Number(7) = {0, 1, 2}
  BY <1>1, SMT
<1>7. Number(11) = {0, 1, 3}
  BY <1>1, SMT
<1> QED BY <1>2, <1>3, <1>4, <1>5, <1>6, <1>7

(* In every state mcause tells the trap.                                       *)
LEMMA CausesInOrder ==
  CauseNamesTheTrap
<1>1. /\ \A i : AfterTrap(csr, i, FALSE, FALSE, {}, {}).mcause = CauseOf(i, FALSE)
      /\ \A i, d : AfterTrap(csr, i, d, TRUE, {}, {}).mcause = CauseOf(i, TRUE)
  BY DEF AfterTrap
<1>2. \A i \in DOMAIN RISCV_EXCP : CauseOf(i, FALSE) = Number(RISCV_EXCP[i])
  <2>1. /\ CauseOf("jump", FALSE) = {} /\ CauseOf("ebreak", FALSE) = {0, 1}
        /\ CauseOf("load", FALSE) = {2} /\ CauseOf("store", FALSE) = {1, 2}
        /\ CauseOf("ecall", FALSE) = {0, 1, 3}
    BY DEF CauseOf, If, mem_op, e_op
  <2>2. /\ DOMAIN RISCV_EXCP = {"jump", "ebreak", "load", "store", "ecall"}
        /\ RISCV_EXCP["jump"] = 0 /\ RISCV_EXCP["ebreak"] = 3 /\ RISCV_EXCP["load"] = 4
        /\ RISCV_EXCP["store"] = 6 /\ RISCV_EXCP["ecall"] = 11
    BY DEF RISCV_EXCP
  <2> QED BY <2>1, <2>2, Numbers
<1>3. \A i : i # "ecall" => CauseOf(i, TRUE) = Number(RISCV_INT_POS.MTI) \cup {31}
  <2>1. \A i : i # "ecall" => CauseOf(i, TRUE) = {0, 1, 2} \cup {31}
    BY DEF CauseOf, If
  <2> QED BY <2>1, Numbers DEF RISCV_INT_POS
<1> QED BY <1>1, <1>2, <1>3 DEF CauseNamesTheTrap

(* The program accesses the machine registers by their own names, as main.c    *)
(* does, and none of the other levels.                                         *)
OnMachine == \A i \in Interrupted : i \in DOMAIN Header => i \in Machine!Present

(* In every state within the types an interrupt is transparent.                *)
LEMMA InterruptsInOrder ==
  ASSUME OnMachine, CsrTypes(csr)
  PROVE  InterruptIsTransparent
<1> SUFFICES ASSUME csr.mie, csr.mtie,
                    NEW i \in (Interrupted \cup {None}) \ {"mstatus", "mret"},
                    NEW d \in BOOLEAN, NEW epc \in Places, NEW bad \in Places
             PROVE  LET after == AfterTrap(csr, i, d, TRUE, epc, bad) IN
                    /\ i \notin {"mepc", "mtval"} => TrapTarget(csr, i) = csr.rf[MTVEC]
                    /\ ~after.mie
                    /\ ReturnTarget(after) = epc
                    /\ AfterReturn(after).mie
  BY DEF InterruptIsTransparent
<1> DEFINE after == AfterTrap(csr, i, d, TRUE, epc, bad)
<1>1. i \in DOMAIN Header => i \in Machine!Present
  BY MachineAddresses DEF OnMachine
<1>2. Accesses(i) => i \in Machine!Present /\ Selects(i, i)
  BY <1>1, Decoding DEF Accesses
<1>3. DOMAIN csr.rf = {MSCRATCH, MTVEC, MEPC, MTVAL}
  BY DEF CsrTypes
<1>4. /\ DOMAIN after = {"mie", "mpie", "mtie", "mcause", "rf"}
      /\ ~after.mie /\ (after.mpie <=> mpie_of_trap(csr, i))
      /\ after.rf = [csr.rf EXCEPT ![MEPC] = epc, ![MTVAL] = bad]
  BY DEF AfterTrap
<1>5. i \notin {"mepc", "mtval"} => TrapTarget(csr, i) = csr.rf[MTVEC]
  <2> SUFFICES ASSUME i \notin {"mepc", "mtval"} PROVE TrapTarget(csr, i) = csr.rf[MTVEC]
    OBVIOUS
  <2>1. ~(Accesses(i) /\ csr_en(i) /\ csr_addr(i)[1])
    <3> SUFFICES ASSUME Accesses(i), csr_en(i) PROVE ~csr_addr(i)[1]
      OBVIOUS
    <3>1. i \in {"mscratch", "mtvec"}
      BY <1>2 DEF Selects
    <3>2. csr_addr(i) = MSCRATCH \/ csr_addr(i) = MTVEC
      BY <1>2, <3>1 DEF Selects
    <3>3. ~MSCRATCH[1] /\ ~MTVEC[1]
      BY DEF MSCRATCH, MTVEC
    <3>4. CASE csr_addr(i) = MSCRATCH
      BY <3>3, <3>4, Zenon
    <3>5. CASE csr_addr(i) = MTVEC
      BY <3>3, <3>5, Zenon
    <3> QED BY <3>2, <3>4, <3>5
  <2> QED BY <2>1 DEF TrapTarget, MTVEC
<1>6. ReturnTarget(after) = epc
  BY <1>3, <1>4, FourAddresses DEF ReturnTarget
<1>7. after.mpie
  BY <1>2, <1>4 DEF mpie_of_trap, Selects
<1>8. AfterReturn(after).mie
  BY <1>4, <1>7 DEF AfterReturn
<1> QED BY <1>4, <1>5, <1>6, <1>8

(* An access keeps the types,                                                  *)
LEMMA AccessTypes ==
  ASSUME NEW c, CsrTypes(c), NEW r,
         NEW insn \in {"csrrw", "csrrs", "csrrc"}, NEW d \in Word
  PROVE  CsrTypes(AfterAccess(c, r, insn, d))
<1> DEFINE w == csr_in(c, r, insn, d)
<1>1. csr_addr(r) \in {MSCRATCH, MTVEC, MEPC, MTVAL}
  BY Zenon DEF csr_addr, MSCRATCH, MTVEC, MEPC, MTVAL
<1>2. csr_out(c, r) \in Word
  <2>1. c.mcause \in Word /\ {3} \in Word /\ {} \in Word
    BY DEF CsrTypes, Word, XLEN
  <2>2. c.rf[csr_addr(r)] \in Word
    BY <1>1 DEF CsrTypes
  <2> QED BY <2>1, <2>2 DEF csr_out, If, Word
<1>3. w \in Word
  BY <1>2 DEF csr_in, Word
<1> HIDE DEF w
<1>4. [c.rf EXCEPT ![csr_addr(r)] = w] \in [{MSCRATCH, MTVEC, MEPC, MTVAL} -> Word]
  BY <1>3 DEF CsrTypes
<1> DEFINE mie    == IF mstatus_en(r) THEN 3 \in w ELSE c.mie
           mtie   == IF mie_en(r) THEN 7 \in w ELSE c.mtie
           mcause == IF mcause_en(r) THEN w \cap {0, 1, 2, 3, 31} ELSE c.mcause
           rf     == IF csr_en(r) THEN [c.rf EXCEPT ![csr_addr(r)] = w] ELSE c.rf
<1>5. mie \in BOOLEAN /\ mtie \in BOOLEAN
  <2>1. c.mie \in BOOLEAN /\ c.mtie \in BOOLEAN
    BY DEF CsrTypes
  <2>2. \A n : (n \in w) \in BOOLEAN
    OBVIOUS
  <2>3. mie \in BOOLEAN
    <3>1. CASE mstatus_en(r)
      BY <2>2, <3>1, Zenon
    <3>2. CASE ~mstatus_en(r)
      BY <2>1, <3>2, Zenon
    <3> QED BY <3>1, <3>2
  <2>4. mtie \in BOOLEAN
    <3>1. CASE mie_en(r)
      BY <2>2, <3>1, Zenon
    <3>2. CASE ~mie_en(r)
      BY <2>1, <3>2, Zenon
    <3> QED BY <3>1, <3>2
  <2> QED BY <2>3, <2>4
<1>6. mcause \in SUBSET {0, 1, 2, 3, 31} /\ rf \in [{MSCRATCH, MTVEC, MEPC, MTVAL} -> Word]
  BY <1>4 DEF CsrTypes
<1>7. AfterAccess(c, r, insn, d)
          = [c EXCEPT !.mie = mie, !.mtie = mtie, !.mcause = mcause, !.rf = rf]
  BY DEF AfterAccess, w
<1> HIDE DEF mie, mtie, mcause, rf
<1> QED BY <1>5, <1>6, <1>7 DEF CsrTypes

(* and so does a trap.                                                         *)
LEMMA TrapTypes ==
  ASSUME NEW c, CsrTypes(c), NEW i, NEW d \in BOOLEAN, NEW irq \in BOOLEAN,
         NEW epc \in Places, NEW bad \in Places
  PROVE  CsrTypes(AfterTrap(c, i, d, irq, epc, bad))
<1>1. epc \in Word /\ bad \in Word
  BY CsrAssumption DEF Word
<1>2. CauseOf(i, irq) \in SUBSET {0, 1, 2, 3, 31}
  BY DEF CauseOf, If
<1>3. [c.rf EXCEPT ![MEPC] = epc, ![MTVAL] = bad] \in [{MSCRATCH, MTVEC, MEPC, MTVAL} -> Word]
  BY <1>1 DEF CsrTypes
<1>4. mpie_of_trap(c, i) \in BOOLEAN /\ mtie_of_trap(c, i, d) \in BOOLEAN
  BY DEF mpie_of_trap, mtie_of_trap, CsrTypes
<1> QED BY <1>2, <1>3, <1>4 DEF AfterTrap, CsrTypes

(* The registers keep their types: three flags, a cause of five bits, and four *)
(* words of the register file (serv_csr.v).                                    *)
THEOREM CsrTypeCorrect ==
  CsrSpec => []CsrTypes(csr)
<1>1. CsrInit => CsrTypes(csr)
  BY CsrAssumption DEF CsrInit, CsrTypes, Word
<1>2. CsrTypes(csr) /\ [CsrNext]_csr_vars => CsrTypes(csr)'
  <2> SUFFICES ASSUME CsrTypes(csr), [CsrNext]_csr_vars PROVE CsrTypes(csr')
    OBVIOUS
  <2>1. CASE Access
    <3>1. PICK r \in Registers :
            \E f \in Header[r].functions : \E d \in Operands(f) :
              csr' = AfterAccess(csr, r, Instruction(f), d)
      BY <2>1 DEF Access
    <3>2. PICK f \in Header[r].functions :
            \E d \in Operands(f) : csr' = AfterAccess(csr, r, Instruction(f), d)
      BY <3>1
    <3>3. PICK d \in Operands(f) : csr' = AfterAccess(csr, r, Instruction(f), d)
      BY <3>2
    <3>4. Instruction(f) \in {"csrrw", "csrrs", "csrrc"}
      BY CsrAssumption, HeaderEntries, Instructions DEF WellFormed
    <3>5. d \in Word
      BY CsrAssumption DEF Operands, Word
    <3> QED BY <3>3, <3>4, <3>5, AccessTypes
  <2>2. CASE TimerInterrupt
    BY <2>2, TrapTypes DEF TimerInterrupt
  <2>3. CASE Exception
    BY <2>3, TrapTypes DEF Exception
  <2>4. CASE Return
    BY <2>4 DEF Return, AfterReturn, CsrTypes
  <2>5. CASE UNCHANGED csr_vars
    BY <2>5 DEF csr_vars
  <2> QED BY <2>1, <2>2, <2>3, <2>4, <2>5 DEF CsrNext
<1> QED BY <1>1, <1>2, PTL DEF CsrSpec

(* A function of riscv-csr.h reads and changes the register it names and no    *)
(* other, for every register of the header and every operand.                  *)
THEOREM FunctionsCorrect ==
  CsrSpec => []FunctionsKeepToTheirRegister
BY CsrTypeCorrect, FunctionsInOrder, PTL

(* An interrupt enters the handler at mtvec with interrupts disabled and its   *)
(* mret returns to the interrupted instruction with interrupts enabled.        *)
THEOREM InterruptsTransparent ==
  OnMachine => (CsrSpec => []InterruptIsTransparent)
<1> SUFFICES ASSUME OnMachine PROVE CsrSpec => []InterruptIsTransparent
  OBVIOUS
<1>1. CsrTypes(csr) => InterruptIsTransparent
  BY InterruptsInOrder
<1>2. CsrSpec => []CsrTypes(csr)
  BY CsrTypeCorrect
<1> QED BY <1>1, <1>2, PTL

(* mcause names every trap by its number in riscv-interrupts.h.                *)
THEOREM CausesCorrect ==
  CsrSpec => []CauseNamesTheTrap
BY CausesInOrder, PTL
=============================================================================
