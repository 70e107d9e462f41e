---------------------------- MODULE LifPipelineProps ----------------------------
(***************************************************************************)
(* Properties of the neurons and their voltages.                           *)
(***************************************************************************)
EXTENDS LifPipeline, FiniteSets

(* A voltage goes back to the slot it was read from: whenever the ring is  *)
(* written, the result in the last stage is of the neuron in that slot,    *)
(* and the result of a pulse that read nothing is never written.           *)
VoltageReturns == wren => lif[PIPE_BLOCK] = wr_cnt

(* A neuron has the same slot in every inference: layer l uses the slots   *)
(* from Base[l] on, whatever pulses came late in the layers before.        *)
SlotOfNeuron ==
  LET k == IF ctrl < Neurons(layer) THEN ctrl ELSE Neurons(layer)
  IN  /\ phase # "idle" => rd_cnt = (Base[layer] + k) % NEURON
      /\ phase = "idle" => rd_cnt = 0

(* When the pipeline is cleared it holds no voltage that has yet to be     *)
(* written: clearing it between instructions loses no neuron's state.      *)
NothingLost ==
  phase \in {"clr", "idle"} =>
    rd_cnt = wr_cnt /\ \A i \in Stage : lif[i] \in {NONE, EXTRA}

\* Every layer that runs ends: the results it waits for all arrive.
LayerEnds == \A l \in Layer : (phase = "run" /\ layer = l) ~>
                                ~(phase = "run" /\ layer = l)
=============================================================================
