------------------------------ MODULE LifPipeline ------------------------------
(***************************************************************************)
(* The neurons of the accelerator: one LIF pipeline (integrator3.v) shared *)
(* by all layers, and the memory of membrane voltages, a ring that is read *)
(* and written by two counters (bram_fifo.v).  A neuron has no address: it *)
(* keeps its voltage only as long as both counters pass its slot at the    *)
(* right moment, over all layers, inferences and windows.                  *)
(*                                                                         *)
(* One step is one rising edge of the clock.  Layers are executed in turn; *)
(* what ends one is the number of results it has written (wr_addr_gen.v).  *)
(* A read pulse is acc_clear_and_go, the moment the sum of a neuron's      *)
(* inputs is ready.  Pulses go on after the last neuron, until the         *)
(* pipeline has delivered its result: block_rd_cnt_lif (mmu.v) keeps these *)
(* from touching the ring.                                                 *)
(***************************************************************************)
EXTENDS Integers, Sequences

CONSTANTS
  Layers,  (* layers in program order: records with nout, the number of    *)
           (* results; single, whether a result is one spike or a word of  *)
           (* four; gap, the edges from one read pulse to the next         *)
  Base     (* number of neurons before each layer, and of all neurons      *)

Layer      == 1 .. Len(Layers)
PIPE_BLOCK == 5                   \* edges from a read to its write back
Neurons(l) == IF Layers[l].single THEN Layers[l].nout ELSE 4 * Layers[l].nout
NEURON     == Base[Len(Layers) + 1]

(* The depth of the ring is the number of neurons.  An instruction whose   *)
(* results are single spikes multiplies integers, one input per edge, and  *)
(* has 32 inputs: its pulses are further apart than the pipeline is long.  *)
ASSUME LayersAssumption ==
  /\ Layers \in Seq([nout : Nat \ {0}, single : BOOLEAN, gap : Nat \ {0}])
  /\ Len(Layers) > 0 /\ Layers[Len(Layers)].single
  /\ \A l \in Layer : Layers[l].single => Layers[l].gap > PIPE_BLOCK + 2
  /\ Base \in [1 .. Len(Layers) + 1 -> Nat]
  /\ Base[1] = 0
  /\ \A l \in Layer : Base[l + 1] = Base[l] + Neurons(l)

VARIABLES
  phase,     (* "run": en is high; "clr": the state CLR, which begins an   *)
             (* instruction; "idle": between two inferences                *)
  layer,     (* the layer whose instruction is decoded                     *)
  since,     (* edges since the last read pulse, up to the gap             *)
  ctrl,      (* ctrl_acc_clr_and_go: pulses counted for this layer         *)
  block_wr,  (* block_wr_cnt_lif: the stages that are set                  *)
  lif,       (* en_shift: the slot whose voltage is in each stage          *)
  s2p, rev,  (* s2p and s2p_rev: the count of bits and the valid flag      *)
  gen_cnt,   (* results written                                            *)
  rd_cnt, wr_cnt

pipe == <<block_wr, lif, s2p, rev>>
vars == <<phase, layer, since, ctrl, block_wr, lif, s2p, rev, gen_cnt,
          rd_cnt, wr_cnt>>

NONE  == -1                       \* an empty stage
EXTRA == -2                       \* a pulse that did not read the ring
Stage == 1 .. PIPE_BLOCK

n      == Layers[layer].nout
single == Layers[layer].single
-----------------------------------------------------------------------------
\* Mutant: pulses are never blocked.
MutNoBlock == TRUE

block_rd_cnt_lif == ctrl # 4 * n

\* Mutant: the instruction ends one result early.
MutValidOp == phase = "run" /\ gen_cnt = n - 1

valid_op       == phase = "run" /\ gen_cnt = n

voltage_ready == lif[PIPE_BLOCK] # NONE
valid_datapath == IF single THEN voltage_ready ELSE s2p.valid
wren_word     == IF single THEN voltage_ready ELSE rev.valid

NextSlot(c) == IF c < NEURON - 1 THEN c + 1 ELSE 0

\* Mutant: the end of the count is off by one.
MutConvert(conv, en) ==
  [cnt   |-> IF en THEN 1 - conv.cnt ELSE conv.cnt,
   valid |-> en /\ conv.cnt = 2]

\* A serial to parallel converter of two inputs, at one edge.
Convert(conv, en) ==
  [cnt   |-> IF en THEN 1 - conv.cnt ELSE conv.cnt,
   valid |-> en /\ conv.cnt = 1]

\* Mutant: the write counter is not held back for extra pulses.
MutWren == voltage_ready

wren == voltage_ready /\ PIPE_BLOCK \in block_wr

\* The ring, at one edge; en_neuron is the enable of the pipeline.
RingEdge(en_neuron) ==
  /\ rd_cnt' = IF en_neuron /\ block_rd_cnt_lif THEN NextSlot(rd_cnt)
                                                ELSE rd_cnt
  /\ wr_cnt' = IF wren THEN NextSlot(wr_cnt) ELSE wr_cnt

PipeEdge(en_neuron) ==
  /\ lif' = [i \in Stage |->
               IF i > 1 THEN lif[i - 1]
               ELSE IF ~en_neuron THEN NONE
               ELSE IF block_rd_cnt_lif THEN rd_cnt ELSE EXTRA]
  /\ block_wr' = {i + 1 : i \in block_wr \ {PIPE_BLOCK}}
                   \cup (IF block_rd_cnt_lif THEN {1} ELSE {})
  /\ s2p' = Convert(s2p, voltage_ready)
  /\ rev' = Convert(rev, valid_datapath)

PipeClear ==
  /\ lif' = [i \in Stage |-> NONE] /\ block_wr' = {}
  /\ s2p' = [cnt |-> 0, valid |-> FALSE]
  /\ rev' = [cnt |-> 0, valid |-> FALSE]
-----------------------------------------------------------------------------
Init ==
  /\ phase = "idle" /\ layer = Len(Layers) /\ since = 0 /\ ctrl = 0 /\ gen_cnt = 0
  /\ lif = [i \in Stage |-> NONE] /\ block_wr = {}
  /\ s2p = [cnt |-> 0, valid |-> FALSE] /\ rev = [cnt |-> 0, valid |-> FALSE]
  /\ rd_cnt = 0 /\ wr_cnt = 0

MayPulse(pulse) == pulse => since >= Layers[layer].gap
Since(pulse) == IF pulse THEN 1
                ELSE IF since < Layers[layer].gap THEN since + 1 ELSE since

(* An edge of RUN (or of the states that load the stack, without a pulse). *)
(* The pulse of the edge at which the layer ends does not enable a neuron. *)
(* At the end of the last timestep end_inference clears the ring counters. *)
Run(pulse, end_inference) ==
  /\ phase = "run"
  /\ MayPulse(pulse) /\ since' = Since(pulse)
  /\ end_inference => valid_op /\ layer = Len(Layers)
  /\ ctrl' = IF pulse /\ block_rd_cnt_lif THEN ctrl + 1 ELSE ctrl
  /\ gen_cnt' = IF valid_op THEN 0
                ELSE IF wren_word THEN gen_cnt + 1 ELSE gen_cnt
  /\ PipeEdge(pulse /\ ~valid_op)
  /\ IF end_inference THEN rd_cnt' = 0 /\ wr_cnt' = 0
                      ELSE RingEdge(pulse /\ ~valid_op)
  /\ layer' = layer
  /\ phase' = IF ~valid_op THEN "run"
              ELSE IF layer = Len(Layers) THEN "idle" ELSE "clr"

(* The state CLR: the pipeline is cleared, the ring counters are not; a    *)
(* pulse already on its way may still come.  The next layer is decoded and *)
(* its first sum takes at least its gap.                                   *)
Clr(pulse) ==
  /\ phase = "clr"
  /\ MayPulse(pulse)
  /\ PipeClear /\ RingEdge(pulse)
  /\ ctrl' = 0 /\ gen_cnt' = 0 /\ since' = 0
  /\ phase' = "run" /\ layer' = layer + 1

\* An edge between two inferences: en is low, no sum is completed.
Idle ==
  /\ phase = "idle"
  /\ PipeEdge(FALSE) /\ RingEdge(FALSE)
  /\ UNCHANGED <<phase, layer, since, ctrl, gen_cnt>>

\* The state CLR of the first instruction of an inference.
Start ==
  /\ phase = "idle"
  /\ PipeClear /\ RingEdge(FALSE)
  /\ ctrl' = 0 /\ gen_cnt' = 0 /\ since' = 0
  /\ phase' = "run" /\ layer' = 1

\* rst, at any time.
Reset ==
  /\ PipeClear /\ rd_cnt' = 0 /\ wr_cnt' = 0
  /\ ctrl' = 0 /\ gen_cnt' = 0 /\ since' = 0
  /\ phase' = "idle" /\ layer' = Len(Layers)

Next ==
  \/ \E pulse, end_inference \in BOOLEAN : Run(pulse, end_inference)
  \/ \E pulse \in BOOLEAN : Clr(pulse)
  \/ Idle \/ Start \/ Reset

Spec == Init /\ [][Next]_vars

(* The clock ticks, and each sum is completed: a layer that runs reads a   *)
(* neuron again and again.                                                 *)
LiveSpec ==
  /\ Spec
  /\ WF_vars(\E pulse \in BOOLEAN : Run(pulse, FALSE) \/ Clr(pulse))
  /\ SF_vars(Run(TRUE, FALSE))
=============================================================================
