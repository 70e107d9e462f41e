----------------------------- MODULE SleepWake -------------------------------
(* The sampling loop: the slow timer (servant_slow_timer.v, 10 kHz clock)      *)
(* interrupts the core, the handler of main.c runs one inference, then closes  *)
(* the gate of the fast clock (clk_gen_wb.v), which only the next timer        *)
(* interrupt opens again.  Two clock domains: a step is an instruction of the  *)
(* core, an edge of the gate, or a tick of the slow clock.                     *)
(*                                                                             *)
(* The last instruction of the handler is "wfi" in main.c, "mret" in the       *)
(* committed image (firmware/exe.dump).  SERV has no wfi: it decodes it as     *)
(* ebreak and traps to mtvec, the handler itself.                              *)
EXTENDS Integers

CONSTANTS Compare,     \* TIME in constants.h
          Durations,   \* ticks the handler needs from the start bit to the gate
          StepsPerTick \* instructions the core executes between two ticks, at least

ASSUME SleepWakeAssumption ==
    /\ Compare \in Nat \ {0}
    /\ Durations \subseteq Nat /\ Durations # {}
    /\ StepsPerTick \in Nat \ {0}

VARIABLES
    ending,      \* of the firmware that runs: "wfi" or "mret"
    \* core
    pc,          \* what the firmware does next
    mepc,        \* where the interrupted program goes on
    mstatus_mie, mstatus_mpie, mie_mtie, timer_irq_r, new_irq,
    left,        \* ticks the inference still takes
    \* slow timer
    mtime, mtimecmp, o_irq,
    \* clock gate
    n_gate_serv, \* the fast clock runs
    gate_serv_armed,
    since,       \* instructions since the last tick, up to StepsPerTick
    \* history
    owed,        \* pulses of the timer less the inferences begun, from -1 to 2
    age          \* ticks since the last request, the write of the timer counted as
                 \* a request one tick earlier

core  == <<pc, mepc, mstatus_mie, mstatus_mpie, mie_mtie, timer_irq_r, new_irq, left>>
timer == <<mtime, mtimecmp, o_irq>>
gate  == <<n_gate_serv, gate_serv_armed>>
vars  == <<ending, core, timer, gate, since, owed, age>>

\* main.c 65 to 71, then irq_entry
Main    == {"SET_TIMER", "SET_MIE", "SET_MSTATUS", "LOOP"}
Handler == {"ENTRY", "INFERENCE", "GATE", "GATED", "END"}

-----------------------------------------------------------------------------
(* Instructions.  At the last edge of one the interrupt is sampled; only a     *)
(* rising edge of the gated request raises new_irq, which turns the next       *)
(* instruction into a trap.  mie is the enable at that edge.                   *)

(* Faulty variant: a request is sampled although interrupts are disabled.      *)
MutSample(mie, mtie) == LET timer_irq == o_irq /\ mtie IN
                        /\ timer_irq_r' = timer_irq
                        /\ new_irq' = (timer_irq /\ ~timer_irq_r)

Sample(mie, mtie) == LET timer_irq == o_irq /\ mie /\ mtie IN
                     /\ timer_irq_r' = timer_irq
                     /\ new_irq' = (timer_irq /\ ~timer_irq_r)

Clocked == n_gate_serv

Count == since' = IF since < StepsPerTick THEN since + 1 ELSE since

(* An instruction that touches nothing but its own registers.                  *)
Plain == UNCHANGED <<timer, gate, owed, age>>

SetTimer == /\ pc = "SET_TIMER" /\ ~new_irq
            /\ pc' = "SET_MIE"
            /\ mtimecmp' = Compare /\ mtime' = 0 /\ o_irq' = FALSE /\ age' = 1
            /\ Sample(mstatus_mie, mie_mtie)
            /\ UNCHANGED <<mepc, mstatus_mie, mstatus_mpie, mie_mtie, left, gate, owed>>

SetMie == /\ pc = "SET_MIE" /\ ~new_irq
          /\ pc' = "SET_MSTATUS"
          /\ mie_mtie' = TRUE
          /\ Sample(mstatus_mie, TRUE)
          /\ Plain /\ UNCHANGED <<mepc, mstatus_mie, mstatus_mpie, left>>

SetMstatus == /\ pc = "SET_MSTATUS" /\ ~new_irq
              /\ pc' = "LOOP"
              /\ mstatus_mie' = TRUE
              /\ Sample(TRUE, mie_mtie)
              /\ Plain /\ UNCHANGED <<mepc, mstatus_mpie, mie_mtie, left>>

Loop == /\ pc = "LOOP" /\ ~new_irq
        /\ Sample(mstatus_mie, mie_mtie)
        /\ Plain /\ UNCHANGED <<pc, mepc, mstatus_mie, mstatus_mpie, mie_mtie, left>>

(* The enable is cleared at the edge at which the request is sampled.          *)
Trap(from) == /\ pc' = "ENTRY"
              /\ mepc' = from
              /\ mstatus_mie' = FALSE /\ mstatus_mpie' = mstatus_mie
              /\ Sample(mstatus_mie, mie_mtie)
              /\ Plain /\ UNCHANGED <<mie_mtie, left>>

Interrupt == new_irq /\ Trap(pc)

Entry == /\ pc = "ENTRY" /\ ~new_irq
         /\ pc' = "INFERENCE"
         /\ left' \in Durations
         /\ owed' = IF owed >= 0 THEN owed - 1 ELSE owed
         /\ Sample(mstatus_mie, mie_mtie)
         /\ UNCHANGED <<mepc, mstatus_mie, mstatus_mpie, mie_mtie, timer, gate, age>>

(* Waiting for the frame, the result and the UART.  The handler may go on at   *)
(* any moment of its last tick.                                                *)
Poll == /\ pc = "INFERENCE" /\ ~new_irq
        /\ left > 0 \/ since < StepsPerTick
        /\ Sample(mstatus_mie, mie_mtie)
        /\ Plain /\ UNCHANGED <<pc, mepc, mstatus_mie, mstatus_mpie, mie_mtie, left>>

Inference == /\ pc = "INFERENCE" /\ left = 0 /\ ~new_irq
             /\ pc' = "GATE"
             /\ Sample(mstatus_mie, mie_mtie)
             /\ Plain /\ UNCHANGED <<mepc, mstatus_mie, mstatus_mpie, mie_mtie, left>>

WriteGate == /\ pc = "GATE" /\ ~new_irq
             /\ pc' = "GATED"
             /\ gate_serv_armed' = TRUE
             /\ UNCHANGED <<mepc, mstatus_mie, mstatus_mpie, mie_mtie, timer_irq_r, new_irq,
                            left, timer, n_gate_serv, owed, age>>

(* The edge after the write: an interrupt that is up holds the gate open.  The *)
(* write ends, and with it the arming, when the clock runs again.              *)
(* Faulty variant: the clock is never stopped.                                 *)
MutKeepGate == /\ pc = "GATED" /\ gate_serv_armed
               /\ gate_serv_armed' = FALSE
               /\ UNCHANGED <<core, timer, n_gate_serv, owed, age>>

CloseGate == /\ pc = "GATED" /\ gate_serv_armed
             /\ n_gate_serv' = o_irq
             /\ gate_serv_armed' = FALSE
             /\ UNCHANGED <<core, timer, owed, age>>

GateWritten == /\ pc = "GATED" /\ ~gate_serv_armed
               /\ pc' = "END"
               /\ Sample(mstatus_mie, mie_mtie)
               /\ Plain /\ UNCHANGED <<mepc, mstatus_mie, mstatus_mpie, mie_mtie, left>>

Wfi == /\ ending = "wfi" /\ pc = "END" /\ ~new_irq
       /\ Trap("END")

Mret == /\ ending = "mret" /\ pc = "END" /\ ~new_irq
        /\ pc' = mepc
        /\ mstatus_mie' = mstatus_mpie
        /\ Sample(mstatus_mpie, mie_mtie)
        /\ Plain /\ UNCHANGED <<mepc, mstatus_mpie, mie_mtie, left>>

Core == /\ Clocked
        /\ Count
        /\ UNCHANGED ending
        /\ \/ SetTimer \/ SetMie \/ SetMstatus \/ Loop \/ Interrupt \/ Entry
           \/ Poll \/ Inference \/ WriteGate \/ CloseGate \/ GateWritten \/ Wfi \/ Mret

-----------------------------------------------------------------------------
(* The slow clock.  The request, when it rises, opens the gate without waiting *)
(* for an edge.                                                                *)

Waits == pc = "INFERENCE"

(* Faulty variant: a period one tick shorter.                                  *)
MutPeriod == IF mtime < mtimecmp THEN mtime + 1 ELSE 0

NextTime == IF mtime <= mtimecmp THEN mtime + 1 ELSE 0

(* Faulty variant: only a clock edge opens the gate.                           *)
MutOpen(irq) == n_gate_serv

Open(irq) == n_gate_serv \/ (irq /\ ~o_irq)

Tick == /\ since = StepsPerTick \/ ~Clocked
        /\ Waits => left > 0
        /\ since' = 0
        /\ mtime' = NextTime
        /\ o_irq' = (mtime >= mtimecmp)
        /\ n_gate_serv' = Open(o_irq')
        /\ left' = IF Waits THEN left - 1 ELSE left
        /\ owed' = IF o_irq' /\ ~o_irq /\ owed < 2 THEN owed + 1 ELSE owed
        /\ age' = IF o_irq' /\ ~o_irq THEN 0
                  ELSE IF age <= Compare + 2 THEN age + 1 ELSE age
        /\ UNCHANGED <<ending, pc, mepc, mstatus_mie, mstatus_mpie, mie_mtie, timer_irq_r,
                       new_irq, mtimecmp, gate_serv_armed>>

-----------------------------------------------------------------------------
(* After the first inference: mstatus and mie cleared (main.c:39), the timer   *)
(* as it comes out of reset, comparing with zero.                              *)
Init == /\ ending \in {"wfi", "mret"}
        /\ pc = "SET_TIMER" /\ mepc = "LOOP" /\ left = 0
        /\ mstatus_mie = FALSE /\ mstatus_mpie \in BOOLEAN /\ mie_mtie = FALSE
        /\ timer_irq_r = FALSE /\ new_irq = FALSE
        /\ mtime \in {0, 1} /\ mtimecmp = 0 /\ o_irq = TRUE
        /\ n_gate_serv = TRUE /\ gate_serv_armed = FALSE
        /\ since = 0 /\ owed = 0 /\ age = 0

Next == Core \/ Tick

Spec == Init /\ [][Next]_vars

(* The slow clock never stops; the fast one runs while the gate is open.       *)
LiveSpec == Spec /\ WF_vars(Tick) /\ WF_vars(Core)
=============================================================================
