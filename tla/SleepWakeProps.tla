-------------------------- MODULE SleepWakeProps -----------------------------
(* Properties of the sampling loop of SleepWake.                               *)
EXTENDS SleepWake

(* Type invariant of core, timer and gate.                                     *)
TypeOK ==
    /\ ending \in {"wfi", "mret"}
    /\ pc \in Main \cup Handler /\ mepc \in {"LOOP", "END"}
    /\ left \in Nat /\ since \in 0 .. StepsPerTick
    /\ mtimecmp \in {0, Compare} /\ mtime \in 0 .. Compare + 1
    /\ owed \in -1 .. 2 /\ age \in 0 .. Compare + 3
    /\ mstatus_mie \in BOOLEAN /\ mstatus_mpie \in BOOLEAN /\ mie_mtie \in BOOLEAN
    /\ timer_irq_r \in BOOLEAN /\ new_irq \in BOOLEAN /\ o_irq \in BOOLEAN
    /\ n_gate_serv \in BOOLEAN /\ gate_serv_armed \in BOOLEAN

(* The interrupt is taken in the endless loop of main only: never in the       *)
(* handler, whose registers nobody saves, nor while the timer is being set up, *)
(* when its request is still up from reset.                                    *)
HandlerNotInterrupted == new_irq => pc = "LOOP"

(* Every pulse of the timer is answered by one inference: none is missed, and  *)
(* none is run for a pulse that was already answered, though the request stays *)
(* up for two ticks and the gate closes and opens in between.                  *)
OneInferencePerPulse == owed \in {0, 1}

(* While the timer requests, the clock runs, also when the request comes       *)
(* between arming the gate and the edge that closes it: the request opens the  *)
(* gate when it rises, not while it is up.                                     *)
AwakeOnRequest == o_irq => n_gate_serv

(* Inferences are run for ever: the core never sleeps on, wherever the last    *)
(* request came between arming the gate and the end of the handler.            *)
SamplesForever == []<>(pc = "ENTRY")

(* The samples are equally spaced, from the write of the timer on, whatever    *)
(* the core does: the counter takes the comparison value and two more ticks.   *)
EverySampleTime == [][(o_irq' /\ ~o_irq) => age + 1 = Compare + 2]_vars
=============================================================================
