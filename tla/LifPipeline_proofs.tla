-------------------------- MODULE LifPipeline_proofs --------------------------
(***************************************************************************)
(* Proofs about the neurons and their voltages, for every list of layers.  *)
(***************************************************************************)
EXTENDS LifPipelineProps, TLAPS

(* The inductive invariant, in parts.                                      *)

TypeOK ==
  /\ phase \in {"run", "clr", "idle"} /\ layer \in Layer
  /\ since \in Nat /\ ctrl \in Nat /\ gen_cnt \in Nat
  /\ block_wr \subseteq Stage /\ lif \in [Stage -> Int]
  /\ s2p \in [cnt : {0, 1}, valid : BOOLEAN] /\ rev \in [cnt : {0, 1}, valid : BOOLEAN]
  /\ rd_cnt \in 0 .. NEURON - 1 /\ wr_cnt \in 0 .. NEURON - 1

\* The k-th neuron of the layer.
Slot(k) == (Base[layer] + k) % NEURON

\* Stage i holds a voltage, and the voltages of stages 1 .. i.
Held(i)    == IF lif[i] \in {NONE, EXTRA} THEN 0 ELSE 1
Pending(i) == CASE i = 1 -> Held(1)
                [] i = 2 -> Held(1) + Held(2)
                [] i = 3 -> Held(1) + Held(2) + Held(3)
                [] i = 4 -> Held(1) + Held(2) + Held(3) + Held(4)
                [] i = 5 -> Held(1) + Held(2) + Held(3) + Held(4) + Held(5)

(* The neurons of a layer are read in turn, and the voltages that are in   *)
(* the pipeline are those of the last ones read, in order.                 *)
SlotsInOrder ==
  phase # "idle" =>
    /\ ctrl <= Neurons(layer) /\ Pending(5) <= ctrl
    /\ rd_cnt = Slot(ctrl) /\ wr_cnt = Slot(ctrl - Pending(5))
    /\ \A i \in Stage : Held(i) = 1 => lif[i] = Slot(ctrl - Pending(i))

(* A stage may be written back when it holds a voltage, and never when it  *)
(* holds a pulse that came after the last neuron; these come last.         *)
ExtrasLast ==
  \A i \in Stage :
    /\ Held(i) = 1 => i \in block_wr
    /\ lif[i] = EXTRA => /\ i \notin block_wr /\ ctrl = 4 * n
                         /\ \A j \in Stage : Held(j) = 1 => i < j

\* The results that the converters and the counter have seen.
Delivered ==
  4 * gen_cnt + (IF rev.valid THEN 4 ELSE 0) + 2 * rev.cnt
    + (IF s2p.valid THEN 2 ELSE 0) + s2p.cnt

(* A layer of words has as many results as voltages written, until all of  *)
(* its voltages have been written.                                         *)
WordsCounted ==
  phase = "run" /\ ~single =>
    \/ Delivered = ctrl - Pending(5)
    \/ ctrl = 4 * n /\ Pending(5) = 0 /\ Delivered >= 4 * n

(* In a layer of single spikes a pulse has left the pipeline before the    *)
(* next one comes, and the layer has ended before one comes too many.      *)
OneAtATime ==
  single /\ phase = "run" =>
    /\ \A i \in Stage : lif[i] # NONE => since = i
    /\ gen_cnt = ctrl - Pending(5)
    /\ ctrl = n => since \in 1 .. 6 /\ (since < 6 => lif[since] # NONE)

\* A layer that has ended has no voltage in the pipeline.
Ended ==
  /\ phase = "clr" => /\ ctrl = Neurons(layer) /\ Pending(5) = 0 /\ layer < Len(Layers)
                      /\ single => since <= 7
  /\ phase = "idle" => /\ layer = Len(Layers) /\ rd_cnt = 0 /\ wr_cnt = 0
                       /\ \A i \in Stage : lif[i] = NONE

IInv == TypeOK /\ SlotsInOrder /\ ExtrasLast /\ WordsCounted /\ OneAtATime /\ Ended
-----------------------------------------------------------------------------
(* There is a first layer and a last one.                                  *)
LEMMA FirstAndLast ==
  /\ Len(Layers) \in Nat \ {0} /\ Len(Layers) \in Layer /\ 1 \in Layer
  /\ \A l \in Layer : Layers[l] \in [nout : Nat \ {0}, single : BOOLEAN, gap : Nat \ {0}]
<1> DEFINE R == [nout : Nat \ {0}, single : BOOLEAN, gap : Nat \ {0}]
<1>1. Layers \in Seq(R) /\ Len(Layers) > 0
  BY LayersAssumption
<1> HIDE DEF R
<1>2. Len(Layers) \in Nat \ {0} /\ \A l \in 1 .. Len(Layers) : Layers[l] \in R
  BY <1>1
<1> QED BY <1>2 DEF R, Layer

(* The numbers of a layer.                                                 *)
LEMMA LayerFacts ==
  ASSUME layer \in Layer
  PROVE  /\ n \in Nat \ {0} /\ single \in BOOLEAN /\ Layers[layer].gap \in Nat \ {0}
         /\ single => Layers[layer].gap > 7 /\ Neurons(layer) = n
         /\ ~single => Neurons(layer) = 4 * n
         /\ NEURON \in Nat \ {0} /\ Base[layer] \in Nat
         /\ Base[layer + 1] = Base[layer] + Neurons(layer)
         /\ layer = Len(Layers) => single /\ NEURON = Base[layer] + Neurons(layer)
         /\ layer # Len(Layers) => layer + 1 \in Layer
         /\ Len(Layers) \in Layer /\ 1 \in Layer /\ Base[1] = 0
<1>1. /\ Len(Layers) \in Nat \ {0} /\ Len(Layers) \in Layer /\ 1 \in Layer
      /\ \A l \in Layer : Layers[l] \in [nout : Nat \ {0}, single : BOOLEAN, gap : Nat \ {0}]
  BY FirstAndLast
<1>2. \A l \in Layer :
        /\ Base[l] \in Nat /\ Base[l + 1] = Base[l] + Neurons(l)
        /\ Neurons(l) \in Nat \ {0} /\ Layers[l].nout \in Nat \ {0}
        /\ Layers[l].single => Neurons(l) = Layers[l].nout /\ Layers[l].gap > 7
        /\ ~Layers[l].single => Neurons(l) = 4 * Layers[l].nout
  <2> TAKE l \in Layer
  <2>1. Base[l] \in Nat /\ Base[l + 1] = Base[l] + Neurons(l)
    <3>1. l \in 1 .. Len(Layers) + 1
      BY <1>1 DEF Layer
    <3>2. Base \in [1 .. Len(Layers) + 1 -> Nat]
      BY LayersAssumption
    <3>3. Base[l + 1] = Base[l] + Neurons(l)
      BY LayersAssumption
    <3> QED BY <3>1, <3>2, <3>3
  <2>2. /\ Layers[l].nout \in Nat \ {0} /\ Layers[l].single \in BOOLEAN
        /\ Layers[l].gap \in Nat \ {0}
    BY <1>1
  <2>3. Layers[l].single => Layers[l].gap > 7
    BY <2>2, LayersAssumption DEF PIPE_BLOCK
  <2> QED BY <2>1, <2>2, <2>3 DEF Neurons
<1>3. NEURON \in Nat \ {0} /\ NEURON = Base[Len(Layers)] + Neurons(Len(Layers))
  BY <1>1, <1>2 DEF NEURON
<1>4. layer # Len(Layers) => layer + 1 \in Layer
  BY <1>1 DEF Layer
<1>5. Layers[Len(Layers)].single /\ Base[1] = 0
  BY LayersAssumption
<1> QED BY <1>1, <1>2, <1>3, <1>4, <1>5 DEF n, single

(* The same of the layer of the next state.                                *)
LEMMA LayerFactsNext ==
  layer' \in Layer => /\ n' \in Nat \ {0} /\ Neurons(layer)' \in Nat /\ Base[layer'] \in Nat
                      /\ Base[1] = 0
<1>1. layer \in Layer => /\ n \in Nat \ {0} /\ Neurons(layer) \in Nat /\ Base[layer] \in Nat
                         /\ Base[1] = 0
  BY LayerFacts
<1>2. (layer \in Layer => /\ n \in Nat \ {0} /\ Neurons(layer) \in Nat /\ Base[layer] \in Nat
                          /\ Base[1] = 0)'
  BY <1>1, PTL
<1> QED BY <1>2 DEF Layer

(* The remainder of a number and that of its successor.                     *)
LEMMA ModSuccessor ==
  ASSUME NEW m \in Nat \ {0}, NEW w \in Nat
  PROVE  /\ (w % m) \in 0 .. m - 1
         /\ (w + 1) % m = IF (w % m) < m - 1 THEN (w % m) + 1 ELSE 0
<1>1. PICK q \in Nat, r \in 0 .. m - 1 : w = m * q + r /\ (w % m) = r
  <2>1. (w \div m) \in Nat /\ w = m * (w \div m) + (w % m) /\ (w % m) \in 0 .. m - 1
    BY SMT
  <2> QED BY <2>1
<1>2. CASE r < m - 1
  <2>1. w + 1 = m * q + (r + 1) /\ r + 1 \in 0 .. m - 1
    BY <1>1, <1>2
  <2>2. (w + 1) % m = r + 1
    BY <1>1, <1>2, <2>1, SMTT(30)
  <2> QED BY <1>1, <1>2, <2>2
<1>3. CASE r = m - 1
  <2>1. w + 1 = m * (q + 1)
    BY <1>1, <1>3
  <2>2. (w + 1) % m = 0
    BY <1>1, <1>3, <2>1, SMTT(30)
  <2> QED BY <1>1, <1>3, <2>2
<1> QED BY <1>1, <1>2, <1>3

(* A counter of the ring moves to the slot of the next neuron.             *)
LEMMA NextNeuron ==
  ASSUME layer \in Layer, NEW k \in Nat
  PROVE  NextSlot(Slot(k)) = Slot(k + 1) /\ Slot(k) \in 0 .. NEURON - 1
<1>1. PICK m \in Nat \ {0} : m = NEURON
  BY LayerFacts
<1>2. PICK b \in Nat : b = Base[layer] + k
  BY LayerFacts
<1>3. /\ (b % m) \in 0 .. m - 1
      /\ (b + 1) % m = IF (b % m) < m - 1 THEN (b % m) + 1 ELSE 0
  BY ModSuccessor
<1>4. Slot(k) = (b % m)
  BY <1>1, <1>2, Zenon DEF Slot
<1>5. Slot(k + 1) = ((b + 1) % m)
  <2>1. Base[layer] + (k + 1) = b + 1
    BY <1>2, LayerFacts
  <2> QED BY <1>1, <2>1, Zenon DEF Slot
<1>6. NextSlot(Slot(k)) = IF (b % m) < m - 1 THEN (b % m) + 1 ELSE 0
  <2>1. PICK x \in 0 .. m - 1 : x = (b % m)
    BY <1>3
  <2>2. NextSlot(x) = IF x < m - 1 THEN x + 1 ELSE 0
    BY <1>1 DEF NextSlot
  <2> QED BY <1>4, <2>1, <2>2, Zenon
<1>7. Slot(k) \in 0 .. NEURON - 1
  BY <1>1, <1>3, <1>4, Zenon
<1> QED BY <1>3, <1>5, <1>6, <1>7, Zenon

(* The first slot of a layer, and the slot after its last neuron, which is *)
(* the first one of the next layer.                                        *)
LEMMA LastSlot ==
  ASSUME layer \in Layer
  PROVE  /\ layer # Len(Layers) => Slot(Neurons(layer)) = Base[layer + 1] % NEURON
         /\ layer = Len(Layers) => Slot(Neurons(layer)) = 0
         /\ 0 % NEURON = 0
<1>1. \A m \in Nat \ {0} : m % m = 0 /\ 0 % m = 0
  BY SMT
<1> QED BY <1>1, LayerFacts DEF Slot
-----------------------------------------------------------------------------
(* One edge of the pipeline.                                               *)

(* What the stages hold after an edge with the enable e.                   *)
LEMMA Shifted ==
  ASSUME TypeOK, NEW e \in BOOLEAN, PipeEdge(e)
  PROVE  /\ lif' \in [Stage -> Int] /\ block_wr' \subseteq Stage
         /\ lif'[1] = IF ~e THEN NONE ELSE IF block_rd_cnt_lif THEN rd_cnt ELSE EXTRA
         /\ \A i \in 1 .. 4 : lif'[i + 1] = lif[i] /\ (i + 1 \in block_wr' <=> i \in block_wr)
         /\ 1 \in block_wr' <=> block_rd_cnt_lif
<1>1. rd_cnt \in Nat
  BY DEF TypeOK
<1> QED BY <1>1 DEF TypeOK, PipeEdge, Stage, PIPE_BLOCK, NONE, EXTRA

(* The same in terms of the voltages held.                                 *)
LEMMA HeldShifted ==
  ASSUME TypeOK, NEW e \in BOOLEAN, PipeEdge(e)
  PROVE  /\ Held(1)' = IF e /\ block_rd_cnt_lif THEN 1 ELSE 0
         /\ Held(2)' = Held(1) /\ Held(3)' = Held(2) /\ Held(4)' = Held(3)
         /\ Held(5)' = Held(4)
         /\ \A i \in Stage : Held(i) \in {0, 1} /\ Held(i)' \in {0, 1}
<1>1. rd_cnt \in Nat
  BY DEF TypeOK
<1>2. /\ lif'[2] = lif[1] /\ lif'[3] = lif[2] /\ lif'[4] = lif[3] /\ lif'[5] = lif[4]
      /\ lif'[1] = IF ~e THEN NONE ELSE IF block_rd_cnt_lif THEN rd_cnt ELSE EXTRA
  BY Shifted
<1> QED BY <1>1, <1>2 DEF Held, NONE, EXTRA

(* The neurons stay in order over an edge; a neuron is read only before    *)
(* the last one has been.                                                  *)
LEMMA OrderKept ==
  ASSUME TypeOK, SlotsInOrder, ExtrasLast, phase # "idle", NEW e \in BOOLEAN,
         PipeEdge(e), RingEdge(e), layer' = layer,
         ctrl' = IF e /\ block_rd_cnt_lif THEN ctrl + 1 ELSE ctrl,
         e /\ block_rd_cnt_lif => ctrl < Neurons(layer)
  PROVE  SlotsInOrder' /\ ExtrasLast'
<1> DEFINE h == IF e /\ block_rd_cnt_lif THEN 1 ELSE 0
<1>1. layer \in Layer /\ ctrl \in Nat /\ rd_cnt \in Nat /\ Neurons(layer) \in Nat
  BY LayerFacts DEF TypeOK
<1>2. /\ Held(1)' = h /\ Held(2)' = Held(1) /\ Held(3)' = Held(2)
      /\ Held(4)' = Held(3) /\ Held(5)' = Held(4) /\ ctrl' = ctrl + h
      /\ \A i \in 1 .. 5 : Held(i) \in {0, 1}
  BY <1>1, HeldShifted DEF Stage, PIPE_BLOCK
<1>3. /\ Slot(ctrl)' = Slot(ctrl') /\ Slot(ctrl - Pending(5))' = Slot(ctrl' - Pending(5)')
      /\ \A i : Slot(ctrl - Pending(i))' = Slot(ctrl' - Pending(i)')
  BY DEF Slot, NEURON
<1>4. /\ ctrl <= Neurons(layer) /\ Pending(5) <= ctrl
      /\ rd_cnt = Slot(ctrl) /\ wr_cnt = Slot(ctrl - Pending(5))
      /\ \A i \in 1 .. 5 : Held(i) = 1 => lif[i] = Slot(ctrl - Pending(i))
  BY DEF SlotsInOrder, Stage, PIPE_BLOCK
<1>5. wren <=> Held(5) = 1
  BY DEF wren, voltage_ready, PIPE_BLOCK, ExtrasLast, Held, Stage, NONE, EXTRA
<1>6. ctrl' <= Neurons(layer)' /\ Pending(5)' <= ctrl'
  BY <1>1, <1>2, <1>4 DEF Pending, Neurons
<1>7. rd_cnt' = Slot(ctrl)'
  BY <1>1, <1>2, <1>3, <1>4, NextNeuron DEF RingEdge
<1>8. wr_cnt' = Slot(ctrl - Pending(5))'
  <2>1. /\ ctrl - Pending(5) \in Nat
        /\ ctrl' - Pending(5)' = (ctrl - Pending(5)) + Held(5)
    BY <1>1, <1>2, <1>4 DEF Pending
  <2>2. NextSlot(wr_cnt) = Slot((ctrl - Pending(5)) + 1)
    BY <1>1, <1>4, <2>1, NextNeuron
  <2> QED BY <1>2, <1>3, <1>4, <1>5, <2>1, <2>2 DEF RingEdge
<1>9. ASSUME NEW i \in Stage, Held(i)' = 1
      PROVE  lif'[i] = Slot(ctrl - Pending(i))' /\ i \in block_wr'
  <2>1. CASE i = 1
    <3>1. h = 1 /\ lif'[1] = rd_cnt /\ 1 \in block_wr'
      BY <1>2, <1>9, <2>1, Shifted
    <3> QED BY <1>1, <1>2, <1>3, <1>4, <2>1, <3>1 DEF Pending
  <2>2. ASSUME i # 1
        PROVE  \E j \in 1 .. 4 : /\ i = j + 1 /\ Held(j) = 1 /\ lif'[i] = lif[j]
                                 /\ i \in block_wr' /\ ctrl' - Pending(i)' = ctrl - Pending(j)
    <3>1. PICK j \in 1 .. 4 : i = j + 1
      BY <2>2 DEF Stage, PIPE_BLOCK
    <3>2. Held(j) = 1
      BY <1>2, <1>9, <3>1
    <3>3. lif'[i] = lif[j] /\ i \in block_wr'
      BY <3>1, <3>2, Shifted DEF ExtrasLast, Stage, PIPE_BLOCK
    <3>4. ctrl' - Pending(i)' = ctrl - Pending(j)
      BY <1>1, <1>2, <3>1 DEF Pending
    <3> QED BY <3>1, <3>2, <3>3, <3>4
  <2> QED BY <1>3, <1>4, <2>1, <2>2
<1>10. ASSUME NEW i \in Stage, lif'[i] = EXTRA
       PROVE  /\ i \notin block_wr' /\ ctrl' = 4 * n'
              /\ \A j \in Stage : Held(j)' = 1 => i < j
  <2>1. n' = n /\ rd_cnt # EXTRA /\ NONE # EXTRA
    BY <1>1 DEF n, NONE, EXTRA
  <2>2. CASE i = 1
    <3>1. ~block_rd_cnt_lif /\ h = 0 /\ 1 \notin block_wr'
      BY <1>10, <2>1, <2>2, Shifted
    <3> QED BY <1>1, <1>2, <2>1, <2>2, <3>1 DEF block_rd_cnt_lif, Stage, PIPE_BLOCK
  <2>3. CASE i # 1
    <3>1. PICK m \in 1 .. 4 : i = m + 1
      BY <2>3 DEF Stage, PIPE_BLOCK
    <3>2. lif[m] = EXTRA
      BY <1>10, <3>1, Shifted
    <3>3. m \notin block_wr /\ ctrl = 4 * n /\ \A j \in 1 .. 5 : Held(j) = 1 => m < j
      BY <3>2 DEF ExtrasLast, Stage, PIPE_BLOCK
    <3>4. h = 0 /\ i \notin block_wr'
      BY <3>1, <3>3, Shifted DEF block_rd_cnt_lif
    <3>5. ASSUME NEW j \in Stage, Held(j)' = 1 PROVE i < j
      <4>1. j \in 1 .. 5 /\ j # 1
        BY <1>2, <3>4, <3>5 DEF Stage, PIPE_BLOCK
      <4>2. j - 1 \in 1 .. 4 /\ Held(j - 1) = 1
        BY <1>2, <3>5, <4>1
      <4> QED BY <3>1, <3>3, <4>1, <4>2
    <3> QED BY <1>1, <1>2, <2>1, <3>3, <3>4, <3>5
  <2> QED BY <2>2, <2>3
<1>11. SlotsInOrder'
  BY <1>6, <1>7, <1>8, <1>9 DEF SlotsInOrder
<1> QED BY <1>9, <1>10, <1>11 DEF ExtrasLast
-----------------------------------------------------------------------------
(* The converters lose no voltage: an edge at which the instruction goes   *)
(* on counts one more if a pulse leaves the pipeline.                      *)
LEMMA OneMoreDelivered ==
  ASSUME TypeOK, ~single, NEW e \in BOOLEAN, PipeEdge(e),
         gen_cnt' = IF wren_word THEN gen_cnt + 1 ELSE gen_cnt
  PROVE  /\ Delivered \in Nat
         /\ Delivered' = Delivered + (IF voltage_ready THEN 1 ELSE 0)
<1>1. /\ s2p.cnt \in {0, 1} /\ s2p.valid \in BOOLEAN
      /\ rev.cnt \in {0, 1} /\ rev.valid \in BOOLEAN /\ gen_cnt \in Nat
  BY DEF TypeOK
<1>2. /\ s2p'.cnt = IF voltage_ready THEN 1 - s2p.cnt ELSE s2p.cnt
      /\ s2p'.valid <=> voltage_ready /\ s2p.cnt = 1
      /\ rev'.cnt = IF s2p.valid THEN 1 - rev.cnt ELSE rev.cnt
      /\ rev'.valid <=> s2p.valid /\ rev.cnt = 1
      /\ gen_cnt' = IF rev.valid THEN gen_cnt + 1 ELSE gen_cnt
  BY DEF PipeEdge, Convert, valid_datapath, wren_word
<1> HIDE DEF voltage_ready
<1> QED BY <1>1, <1>2 DEF Delivered

(* The sum of voltages in the pipeline after an edge.                      *)
LEMMA PendingMoves ==
  ASSUME TypeOK, NEW e \in BOOLEAN, PipeEdge(e)
  PROVE  /\ Pending(5) \in 0 .. 5 /\ Held(5) \in {0, 1}
         /\ Pending(5)' = Pending(5) - Held(5) + (IF e /\ block_rd_cnt_lif THEN 1 ELSE 0)
<1>1. /\ Held(1)' = IF e /\ block_rd_cnt_lif THEN 1 ELSE 0
      /\ Held(2)' = Held(1) /\ Held(3)' = Held(2) /\ Held(4)' = Held(3)
      /\ Held(5)' = Held(4)
      /\ \A i \in 1 .. 5 : Held(i) \in {0, 1} /\ Held(i)' \in {0, 1}
  BY HeldShifted DEF Stage, PIPE_BLOCK
<1> QED BY <1>1 DEF Pending

(* The result in the last stage is counted as a voltage, or is an extra    *)
(* one, which comes after all voltages.                                    *)
LEMMA LastStage ==
  ASSUME TypeOK, ExtrasLast
  PROVE  /\ voltage_ready <=> (Held(5) = 1 \/ lif[5] = EXTRA)
         /\ lif[5] = EXTRA => ctrl = 4 * n /\ Pending(5) = 0 /\ Held(5) = 0
<1>1. voltage_ready <=> (Held(5) = 1 \/ lif[5] = EXTRA)
  BY DEF voltage_ready, PIPE_BLOCK, Held, NONE, EXTRA
<1>2. ASSUME lif[5] = EXTRA PROVE ctrl = 4 * n /\ \A j \in 1 .. 5 : Held(j) = 0
  <2>1. ctrl = 4 * n /\ \A j \in 1 .. 5 : Held(j) = 1 => 5 < j
    BY <1>2 DEF ExtrasLast, Stage, PIPE_BLOCK
  <2>2. \A j \in 1 .. 5 : Held(j) # 1
    BY <2>1
  <2> QED BY <2>1, <2>2 DEF Held
<1> QED BY <1>1, <1>2 DEF Pending

(* In a layer of words, the words counted stay in step with the voltages.  *)
LEMMA WordsKept ==
  ASSUME TypeOK, SlotsInOrder, ExtrasLast, WordsCounted, phase = "run", ~single,
         NEW e \in BOOLEAN, PipeEdge(e), layer' = layer,
         ctrl' = IF e /\ block_rd_cnt_lif THEN ctrl + 1 ELSE ctrl,
         gen_cnt' = IF wren_word THEN gen_cnt + 1 ELSE gen_cnt
  PROVE  WordsCounted'
<1>1. /\ Delivered \in Nat
      /\ Delivered' = Delivered + (IF voltage_ready THEN 1 ELSE 0)
  BY OneMoreDelivered
<1>2. /\ Pending(5) \in 0 .. 5 /\ Held(5) \in {0, 1}
      /\ Pending(5)' = Pending(5) - Held(5) + (IF e /\ block_rd_cnt_lif THEN 1 ELSE 0)
  BY PendingMoves
<1>3. /\ voltage_ready <=> (Held(5) = 1 \/ lif[5] = EXTRA)
      /\ lif[5] = EXTRA => ctrl = 4 * n /\ Pending(5) = 0 /\ Held(5) = 0
  BY LastStage
<1>4. /\ ctrl \in Nat /\ n \in Nat \ {0} /\ n' = n /\ Pending(5) <= ctrl
      /\ block_rd_cnt_lif <=> ctrl # 4 * n
  BY LayerFacts DEF TypeOK, n, SlotsInOrder, block_rd_cnt_lif
<1>5. \/ Delivered = ctrl - Pending(5)
      \/ ctrl = 4 * n /\ Pending(5) = 0 /\ Delivered >= 4 * n
  BY DEF WordsCounted
<1>6. \/ Delivered' = ctrl' - Pending(5)'
      \/ ctrl' = 4 * n' /\ Pending(5)' = 0 /\ Delivered' >= 4 * n'
  <2>1. CASE ctrl = 4 * n /\ Pending(5) = 0 /\ Delivered >= 4 * n
    <3>1. Held(5) = 0
      BY <2>1, HeldShifted DEF Pending, Stage, PIPE_BLOCK
    <3> QED BY <1>1, <1>2, <1>4, <2>1, <3>1
  <2>2. CASE Delivered = ctrl - Pending(5) /\ lif[5] = EXTRA
    BY <1>1, <1>2, <1>3, <1>4, <2>2
  <2>3. CASE Delivered = ctrl - Pending(5) /\ lif[5] # EXTRA
    <3>1. Delivered' = Delivered + Held(5)
      BY <1>1, <1>2, <1>3, <2>3
    <3> QED BY <1>2, <1>4, <2>3, <3>1
  <2> QED BY <1>5, <2>1, <2>2, <2>3
<1> QED BY <1>6 DEF WordsCounted

(* When a layer of words ends, all its voltages have been written.         *)
LEMMA WordsEnd ==
  ASSUME TypeOK, SlotsInOrder, WordsCounted, valid_op, ~single
  PROVE  ctrl = Neurons(layer) /\ Pending(5) = 0 /\ ~block_rd_cnt_lif
<1>1. /\ phase = "run" /\ gen_cnt = n /\ n \in Nat \ {0} /\ ctrl \in Nat
      /\ Neurons(layer) = 4 * n /\ ctrl <= 4 * n
  BY LayerFacts DEF valid_op, TypeOK, SlotsInOrder
<1>2. Delivered >= 4 * n
  BY <1>1 DEF Delivered, TypeOK
<1>3. Pending(5) \in Nat
  BY DEF Pending, Held
<1>4. \/ Delivered = ctrl - Pending(5)
      \/ ctrl = 4 * n /\ Pending(5) = 0 /\ Delivered >= 4 * n
  BY <1>1 DEF WordsCounted
<1>5. Delivered \in Nat
  BY <1>1 DEF Delivered, TypeOK
<1> QED BY <1>1, <1>2, <1>3, <1>4, <1>5 DEF block_rd_cnt_lif
-----------------------------------------------------------------------------
(* In a layer of single spikes there is no extra pulse: after the last     *)
(* neuron's the layer ends, before another pulse may come.                 *)
LEMMA NoExtras ==
  ASSUME TypeOK, SlotsInOrder, ExtrasLast, OneAtATime, phase = "run", single,
         NEW pulse \in BOOLEAN, MayPulse(pulse)
  PROVE  /\ block_rd_cnt_lif /\ (voltage_ready <=> Held(5) = 1)
         /\ pulse => ctrl < n /\ ~valid_op /\ \A i \in Stage : lif[i] = NONE
         /\ \A i \in Stage : lif[i] # NONE <=> Held(i) = 1
<1>1. /\ n \in Nat \ {0} /\ ctrl \in Nat /\ ctrl <= n /\ since \in Nat
      /\ Layers[layer].gap > 7 /\ Layers[layer].gap \in Nat
  BY LayerFacts DEF TypeOK, SlotsInOrder
<1>2. ctrl # 4 * n
  BY <1>1
<1>3. \A i \in Stage : lif[i] # EXTRA
  BY <1>2 DEF ExtrasLast
<1>4. \A i \in Stage : lif[i] # NONE <=> Held(i) = 1
  BY <1>3 DEF Held
<1>5. ASSUME pulse PROVE ctrl < n /\ ~valid_op /\ \A i \in Stage : lif[i] = NONE
  <2>1. since > 7
    BY <1>1, <1>5 DEF MayPulse
  <2>2. \A i \in Stage : lif[i] = NONE
    BY <2>1 DEF OneAtATime, Stage, PIPE_BLOCK
  <2>3. ctrl # n
    BY <2>1 DEF OneAtATime
  <2>4. Pending(5) = 0
    BY <1>4, <2>2 DEF Pending, Held, Stage, PIPE_BLOCK
  <2>5. gen_cnt # n
    BY <1>1, <2>3, <2>4 DEF OneAtATime
  <2> QED BY <1>1, <2>2, <2>3, <2>5 DEF valid_op
<1> QED
  BY <1>2, <1>4, <1>5 DEF block_rd_cnt_lif, voltage_ready, Stage, PIPE_BLOCK

(* In a layer of single spikes the pulses stay apart.                      *)
LEMMA ApartKept ==
  ASSUME TypeOK, SlotsInOrder, ExtrasLast, OneAtATime, phase = "run", single, ~valid_op,
         NEW pulse \in BOOLEAN, MayPulse(pulse), since' = Since(pulse),
         PipeEdge(pulse), layer' = layer,
         ctrl' = IF pulse /\ block_rd_cnt_lif THEN ctrl + 1 ELSE ctrl,
         gen_cnt' = IF wren_word THEN gen_cnt + 1 ELSE gen_cnt
  PROVE  OneAtATime'
<1>1. /\ n \in Nat \ {0} /\ ctrl \in Nat /\ ctrl <= n /\ since \in Nat /\ gen_cnt \in Nat
      /\ Layers[layer].gap > 7 /\ Layers[layer].gap \in Nat /\ n' = n
  BY LayerFacts DEF TypeOK, SlotsInOrder, n
<1>2. /\ block_rd_cnt_lif /\ (voltage_ready <=> Held(5) = 1)
      /\ pulse => ctrl < n /\ \A i \in Stage : lif[i] = NONE
      /\ \A i \in Stage : lif[i] # NONE <=> Held(i) = 1
  BY NoExtras
<1>3. /\ Pending(5) \in 0 .. 5 /\ Held(5) \in {0, 1}
      /\ Pending(5)' = Pending(5) - Held(5) + (IF pulse /\ block_rd_cnt_lif THEN 1 ELSE 0)
  BY PendingMoves
<1>4. gen_cnt' = ctrl' - Pending(5)'
  <2>1. gen_cnt' = gen_cnt + Held(5)
    <3>1. wren_word <=> lif[5] # NONE
      BY DEF wren_word, voltage_ready, PIPE_BLOCK
    <3>2. lif[5] # NONE <=> Held(5) = 1
      BY <1>2 DEF Stage, PIPE_BLOCK
    <3> QED BY <1>1, <1>3, <3>1, <3>2
  <2>2. gen_cnt = ctrl - Pending(5)
    BY DEF OneAtATime
  <2> QED BY <1>1, <1>2, <1>3, <2>1, <2>2
<1>5. /\ \A i \in Stage : lif[i] # NONE => since = i
      /\ ctrl = n => since \in 1 .. 6
      /\ gen_cnt = ctrl - Pending(5) /\ gen_cnt # n
  BY DEF OneAtATime, valid_op
<1>6. /\ lif'[1] = IF ~pulse THEN NONE ELSE rd_cnt
      /\ \A i \in 1 .. 4 : lif'[i + 1] = lif[i]
      /\ rd_cnt # NONE
  <2>1. rd_cnt # NONE
    BY DEF TypeOK, NONE
  <2> QED BY <1>2, <2>1, Shifted
<1>7. CASE pulse
  <2>1. since' = 1 /\ \A i \in Stage : lif'[i] # NONE <=> i = 1
    <3>1. \A i \in Stage \ {1} : i - 1 \in 1 .. 4 /\ i - 1 \in Stage
      BY DEF Stage, PIPE_BLOCK
    <3> QED BY <1>2, <1>6, <1>7, <3>1 DEF Since
  <2> QED BY <1>4, <2>1 DEF OneAtATime, Stage, PIPE_BLOCK
<1>8. CASE ~pulse
  <2>1. ASSUME NEW i \in Stage, lif'[i] # NONE PROVE since' = i
    <3>1. i # 1
      BY <1>6, <1>8, <2>1
    <3>2. PICK j \in 1 .. 4 : i = j + 1
      BY <3>1 DEF Stage, PIPE_BLOCK
    <3>3. since = j
      BY <1>5, <1>6, <2>1, <3>2 DEF Stage, PIPE_BLOCK
    <3> QED BY <1>1, <1>8, <3>2, <3>3 DEF Since
  <2>2. ASSUME ctrl' = n' PROVE since' \in 1 .. 6 /\ (since' < 6 => lif'[since'] # NONE)
    <3>1. ctrl = n
      BY <1>1, <1>8, <2>2
    <3>2. Pending(5) # 0
      BY <1>1, <1>5, <3>1
    <3>3. PICK i \in 1 .. 5 : Held(i) = 1
      BY <3>2 DEF Pending, Held
    <3>4. since = i /\ lif[i] # NONE
      BY <1>2, <1>5, <3>3 DEF Stage, PIPE_BLOCK
    <3>5. since' = i + 1
      BY <1>1, <1>8, <3>4 DEF Since
    <3> QED BY <1>6, <3>4, <3>5
  <2> QED BY <1>4, <2>1, <2>2 DEF OneAtATime
<1> QED BY <1>7, <1>8

(* When a layer of single spikes ends, the pipeline is empty.              *)
LEMMA SpikesEnd ==
  ASSUME TypeOK, SlotsInOrder, ExtrasLast, OneAtATime, valid_op, single
  PROVE  /\ ctrl = n /\ Pending(5) = 0 /\ since \in 1 .. 6
         /\ \A i \in Stage : lif[i] = NONE
<1>1. /\ phase = "run" /\ gen_cnt = n /\ n \in Nat \ {0} /\ ctrl \in Nat /\ ctrl <= n
  BY LayerFacts DEF valid_op, TypeOK, SlotsInOrder
<1>2. Pending(5) \in Nat /\ gen_cnt = ctrl - Pending(5)
  BY <1>1 DEF Pending, Held, OneAtATime
<1>3. ctrl = n /\ Pending(5) = 0
  BY <1>1, <1>2
<1>4. \A i \in 1 .. 5 : Held(i) = 0
  BY <1>3 DEF Pending, Held
<1>5. ctrl # 4 * n
  BY <1>1, <1>3
<1>6. \A i \in Stage : lif[i] = NONE
  BY <1>4, <1>5 DEF Held, ExtrasLast, Stage, PIPE_BLOCK
<1> QED BY <1>1, <1>3, <1>6 DEF OneAtATime
-----------------------------------------------------------------------------
(* Every action keeps the invariant.                                       *)

(* The invariant holds after reset.                                        *)
LEMMA InitIInv == Init => IInv
<1> SUFFICES ASSUME Init PROVE IInv
  OBVIOUS
<1>1. layer \in Layer /\ layer = Len(Layers)
  BY FirstAndLast DEF Init
<1>2. NEURON \in Nat \ {0}
  BY <1>1, LayerFacts
<1>3. \A i \in Stage : lif[i] = NONE
  BY DEF Init
<1> QED
  BY <1>1, <1>2, <1>3
     DEF Init, IInv, TypeOK, SlotsInOrder, ExtrasLast, WordsCounted, OneAtATime, Ended,
         Held, Stage, NONE, EXTRA

(* A state whose pipeline has just been cleared, at the first neuron of a  *)
(* layer or with the machine at rest.                                      *)
LEMMA ClearIsEmpty ==
  ASSUME PipeClear
  PROVE  /\ lif' \in [Stage -> Int] /\ block_wr' \subseteq Stage
         /\ \A i \in Stage : lif'[i] = NONE /\ Held(i)' = 0
         /\ Pending(5)' = 0
         /\ s2p' = [cnt |-> 0, valid |-> FALSE] /\ rev' = [cnt |-> 0, valid |-> FALSE]
<1>1. \A i \in Stage : lif'[i] = NONE
  BY DEF PipeClear
<1>2. \A i \in Stage : Held(i)' = 0
  BY <1>1 DEF Held
<1>3. Pending(5)' = 0
  BY <1>2 DEF Pending, Stage, PIPE_BLOCK
<1> QED BY <1>1, <1>2, <1>3 DEF PipeClear, NONE

(* rst puts the machine at rest.                                           *)
LEMMA ResetStep == TypeOK /\ Reset => IInv'
<1> SUFFICES ASSUME TypeOK, Reset PROVE IInv'
  OBVIOUS
<1>1. layer' \in Layer /\ layer' = Len(Layers)
  BY FirstAndLast DEF Reset
<1>2. NEURON \in Nat \ {0} /\ NEURON' = NEURON /\ Stage' = Stage /\ Layer' = Layer
  BY LayerFacts DEF TypeOK, NEURON, Stage, Layer
<1>3. /\ lif' \in [Stage -> Int] /\ block_wr' \subseteq Stage
      /\ \A i \in Stage : lif'[i] = NONE /\ Held(i)' = 0
      /\ s2p' = [cnt |-> 0, valid |-> FALSE] /\ rev' = [cnt |-> 0, valid |-> FALSE]
  BY ClearIsEmpty DEF Reset
<1> QED
  BY <1>1, <1>2, <1>3
     DEF Reset, IInv, TypeOK, SlotsInOrder, ExtrasLast, WordsCounted, OneAtATime, Ended,
         NONE, EXTRA

(* A layer begins with an empty pipeline, both counters at its first slot. *)
LEMMA LayerBegins ==
  ASSUME TypeOK, PipeClear, phase' = "run", layer' \in Layer,
         ctrl' = 0, gen_cnt' = 0, since' = 0,
         rd_cnt' = Base[layer'] % NEURON, wr_cnt' = rd_cnt'
  PROVE  IInv'
<1>1. /\ lif' \in [Stage -> Int] /\ block_wr' \subseteq Stage
      /\ \A i \in Stage : lif'[i] = NONE /\ Held(i)' = 0
      /\ Pending(5)' = 0
      /\ s2p' = [cnt |-> 0, valid |-> FALSE] /\ rev' = [cnt |-> 0, valid |-> FALSE]
  BY ClearIsEmpty
<1>2. NEURON \in Nat \ {0} /\ NEURON' = NEURON /\ Stage' = Stage /\ Layer' = Layer
  BY LayerFacts DEF TypeOK, NEURON, Stage, Layer
<1>4. n' \in Nat \ {0} /\ Neurons(layer)' \in Nat /\ Base[layer'] \in Nat
  BY LayerFactsNext
<1>5. Slot(0)' = Base[layer'] % NEURON /\ Base[layer'] % NEURON \in 0 .. NEURON - 1
  BY <1>2, <1>4 DEF Slot
<1>6. TypeOK'
  BY <1>1, <1>2, <1>5 DEF TypeOK
<1>7. SlotsInOrder'
  BY <1>1, <1>2, <1>4, <1>5 DEF SlotsInOrder, Slot
<1>8. ExtrasLast' /\ OneAtATime'
  <2>1. ExtrasLast'
    BY <1>1, <1>2 DEF ExtrasLast, NONE, EXTRA
  <2>2. 0 # n'
    BY <1>4
  <2> QED BY <1>1, <1>2, <2>1, <2>2 DEF OneAtATime
<1>9. WordsCounted' /\ Ended'
  BY <1>1, <1>2 DEF WordsCounted, Delivered, Ended
<1> QED BY <1>6, <1>7, <1>8, <1>9 DEF IInv

(* The next layer begins where the one that has ended stopped; a pulse     *)
(* that comes as late as the state CLR reads nothing.                      *)
LEMMA ClrStep ==
  ASSUME IInv, NEW pulse \in BOOLEAN, Clr(pulse)
  PROVE  IInv'
<1>1. /\ TypeOK /\ SlotsInOrder /\ ExtrasLast /\ phase = "clr" /\ layer \in Layer
      /\ ctrl = Neurons(layer) /\ Pending(5) = 0 /\ layer < Len(Layers)
      /\ single => since <= 7
  BY DEF Clr, IInv, Ended, TypeOK
<1>2. /\ Neurons(layer) \in Nat /\ layer + 1 \in Layer
      /\ single => Layers[layer].gap > 7
      /\ ~single => Neurons(layer) = 4 * n
      /\ Layers[layer].gap \in Nat /\ since \in Nat
  BY <1>1, LayerFacts, FirstAndLast DEF TypeOK
<1>3. ~(pulse /\ block_rd_cnt_lif)
  BY <1>1, <1>2 DEF Clr, MayPulse, block_rd_cnt_lif
<1>4. ~wren
  <2>1. Held(5) = 0
    BY <1>1 DEF Pending, Held
  <2> QED BY <1>1, <2>1
          DEF wren, voltage_ready, ExtrasLast, Held, Stage, PIPE_BLOCK, NONE, EXTRA
<1>5. rd_cnt' = rd_cnt /\ wr_cnt' = wr_cnt
  BY <1>3, <1>4 DEF Clr, RingEdge
<1>6. rd_cnt = Base[layer + 1] % NEURON /\ wr_cnt = rd_cnt
  BY <1>1, <1>2, LastSlot, FirstAndLast DEF SlotsInOrder
<1>7. /\ PipeClear /\ phase' = "run" /\ layer' = layer + 1
      /\ ctrl' = 0 /\ gen_cnt' = 0 /\ since' = 0
  BY DEF Clr
<1> QED BY <1>1, <1>2, <1>5, <1>6, <1>7, LayerBegins

(* An inference begins at slot 0.                                          *)
LEMMA StartStep == IInv /\ Start => IInv'
<1> SUFFICES ASSUME IInv, Start PROVE IInv'
  OBVIOUS
<1>1. /\ TypeOK /\ layer \in Layer /\ phase = "idle" /\ rd_cnt = 0 /\ wr_cnt = 0
      /\ \A i \in Stage : lif[i] = NONE
  BY DEF Start, IInv, Ended, TypeOK
<1>2. rd_cnt' = 0 /\ wr_cnt' = 0
  BY <1>1 DEF Start, RingEdge, wren, voltage_ready, Stage, PIPE_BLOCK
<1>3. Base[1] % NEURON = 0
  BY <1>1, LayerFacts, LastSlot
<1>4. /\ PipeClear /\ phase' = "run" /\ layer' = 1 /\ 1 \in Layer
      /\ ctrl' = 0 /\ gen_cnt' = 0 /\ since' = 0
  BY FirstAndLast DEF Start
<1> QED BY <1>1, <1>2, <1>3, <1>4, LayerBegins

(* A machine at rest has an empty pipeline, and both counters at slot 0.   *)
LEMMA AtRest ==
  ASSUME TypeOK, phase' = "idle", layer' = Len(Layers), ctrl' \in Nat, gen_cnt' \in Nat,
         since' \in Nat, NEW e \in BOOLEAN, PipeEdge(e), \A i \in Stage : lif'[i] = NONE,
         rd_cnt' = 0, wr_cnt' = 0
  PROVE  IInv'
<1>1. /\ NEURON \in Nat \ {0} /\ NEURON' = NEURON /\ Stage' = Stage /\ Layer' = Layer
      /\ Len(Layers) \in Layer
  BY LayerFacts DEF TypeOK, NEURON, Stage, Layer
<1>2. lif' \in [Stage -> Int] /\ block_wr' \subseteq Stage
  BY Shifted
<1>3. /\ s2p' \in [cnt : {0, 1}, valid : BOOLEAN]
      /\ rev' \in [cnt : {0, 1}, valid : BOOLEAN]
  BY DEF TypeOK, PipeEdge, Convert
<1>4. TypeOK'
  BY <1>1, <1>2, <1>3 DEF TypeOK
<1>5. ExtrasLast'
  BY <1>1 DEF ExtrasLast, Held, NONE, EXTRA
<1> QED BY <1>1, <1>4, <1>5 DEF IInv, SlotsInOrder, WordsCounted, OneAtATime, Ended

(* Nothing enters the pipeline between two inferences.                     *)
LEMMA IdleStep == IInv /\ Idle => IInv'
<1> SUFFICES ASSUME IInv, Idle PROVE IInv'
  OBVIOUS
<1>1. /\ TypeOK /\ phase = "idle" /\ layer = Len(Layers) /\ rd_cnt = 0 /\ wr_cnt = 0
      /\ \A i \in Stage : lif[i] = NONE
  BY DEF Idle, IInv, Ended
<1>2. rd_cnt' = 0 /\ wr_cnt' = 0
  BY <1>1 DEF Idle, RingEdge, wren, voltage_ready, Stage, PIPE_BLOCK
<1>3. \A i \in Stage : lif'[i] = NONE
  BY <1>1 DEF Idle, PipeEdge, Stage, PIPE_BLOCK
<1>4. ctrl' \in Nat /\ gen_cnt' \in Nat /\ since' \in Nat
  BY <1>1 DEF Idle, TypeOK
<1> QED BY <1>1, <1>2, <1>3, <1>4, AtRest DEF Idle

(* An edge at which a layer ends leaves no voltage in the pipeline.        *)
LEMMA EndStep ==
  ASSUME IInv, NEW pulse \in BOOLEAN, NEW end_inference \in BOOLEAN,
         Run(pulse, end_inference), valid_op
  PROVE  IInv'
<1> DEFINE e == pulse /\ ~valid_op
<1>1. TypeOK /\ SlotsInOrder /\ ExtrasLast /\ WordsCounted /\ OneAtATime /\ phase = "run"
      /\ layer \in Layer
  BY DEF IInv, Run, TypeOK
<1>2. /\ ctrl = Neurons(layer) /\ Pending(5) = 0 /\ ~(pulse /\ block_rd_cnt_lif)
      /\ single => /\ since \in 1 .. 6 /\ \A i \in Stage : lif[i] = NONE
  <2>1. CASE ~single
    BY <1>1, <2>1, WordsEnd
  <2>2. CASE single
    <3>1. MayPulse(pulse)
      BY DEF Run
    <3> QED BY <1>1, <2>2, <3>1, SpikesEnd, NoExtras, LayerFacts
  <2> QED BY <1>1, <2>1, <2>2
<1>3. ~wren
  <2>1. Held(5) = 0
    BY <1>2 DEF Pending, Held
  <2> QED BY <1>1, <2>1
          DEF wren, voltage_ready, ExtrasLast, Held, Stage, PIPE_BLOCK, NONE, EXTRA
<1>4. /\ e \in BOOLEAN /\ ~e /\ PipeEdge(FALSE) /\ ctrl' = ctrl /\ gen_cnt' = 0
      /\ since' = Since(pulse) /\ layer' = layer
      /\ phase' = IF layer = Len(Layers) THEN "idle" ELSE "clr"
      /\ \/ end_inference /\ layer = Len(Layers) /\ rd_cnt' = 0 /\ wr_cnt' = 0
         \/ ~end_inference /\ RingEdge(FALSE)
  BY <1>2 DEF Run
<1>5. since' \in Nat /\ (single => since' <= 7)
  <2>1. Layers[layer].gap \in Nat /\ since \in Nat
    BY <1>1, LayerFacts DEF TypeOK
  <2> QED BY <1>2, <1>4, <2>1 DEF Since
<1>6. rd_cnt = wr_cnt /\ rd_cnt = Slot(Neurons(layer))
  <2>1. Neurons(layer) \in Nat
    BY <1>1, LayerFacts
  <2> QED BY <1>1, <1>2, <2>1 DEF SlotsInOrder
<1>7. CASE layer = Len(Layers)
  <2>1. rd_cnt' = 0 /\ wr_cnt' = 0
    BY <1>1, <1>3, <1>4, <1>6, <1>7, LastSlot DEF RingEdge
  <2>2. single
    BY <1>1, <1>7, LayerFacts
  <2>3. \A i \in Stage : lif'[i] = NONE
    BY <1>2, <1>4, <2>2 DEF PipeEdge, Stage, PIPE_BLOCK
  <2>4. ctrl' \in Nat /\ gen_cnt' \in Nat
    BY <1>1, <1>4 DEF TypeOK
  <2> QED BY <1>1, <1>4, <1>5, <1>7, <2>1, <2>3, <2>4, AtRest
<1>8. CASE layer # Len(Layers)
  <2>1. phase' = "clr" /\ RingEdge(FALSE) /\ rd_cnt' = rd_cnt /\ wr_cnt' = wr_cnt
    BY <1>3, <1>4, <1>8 DEF RingEdge
  <2>2. SlotsInOrder' /\ ExtrasLast'
    BY <1>1, <1>4, <2>1, OrderKept
  <2>3. /\ Stage' = Stage /\ Layer' = Layer /\ NEURON' = NEURON
        /\ lif' \in [Stage -> Int] /\ block_wr' \subseteq Stage
        /\ s2p' \in [cnt : {0, 1}, valid : BOOLEAN]
        /\ rev' \in [cnt : {0, 1}, valid : BOOLEAN]
    <3>1. lif' \in [Stage -> Int] /\ block_wr' \subseteq Stage
      BY <1>1, <1>4, Shifted
    <3> QED BY <1>1, <1>4, <3>1 DEF TypeOK, PipeEdge, Convert, Stage, Layer, NEURON
  <2>4. TypeOK'
    BY <1>1, <1>4, <1>5, <2>1, <2>3 DEF TypeOK
  <2>5. Pending(5)' = 0
    <3>1. /\ Pending(5)' = Pending(5) - Held(5) + 0
          /\ Held(5) \in {0, 1} /\ Pending(5) \in 0 .. 5
      BY <1>1, <1>4, PendingMoves, Zenon
    <3>2. Held(5) = 0
      BY <1>2 DEF Pending, Held
    <3> QED BY <1>2, <3>1, <3>2
  <2>6. Ended'
    <3>1. layer < Len(Layers)
      BY <1>1, <1>8, FirstAndLast DEF Layer
    <3> QED BY <1>2, <1>4, <1>5, <2>1, <2>5, <3>1 DEF Ended, single, Neurons
  <2> QED BY <2>1, <2>2, <2>4, <2>6 DEF IInv, WordsCounted, OneAtATime
<1> QED BY <1>7, <1>8

(* An edge at which a layer goes on.                                       *)
LEMMA GoesOnStep ==
  ASSUME IInv, NEW pulse \in BOOLEAN, NEW end_inference \in BOOLEAN,
         Run(pulse, end_inference), ~valid_op
  PROVE  IInv'
<1>1. TypeOK /\ SlotsInOrder /\ ExtrasLast /\ WordsCounted /\ OneAtATime /\ phase = "run"
      /\ layer \in Layer
  BY DEF IInv, Run, TypeOK
<1>2. /\ MayPulse(pulse) /\ since' = Since(pulse) /\ PipeEdge(pulse) /\ RingEdge(pulse)
      /\ layer' = layer /\ phase' = "run"
      /\ ctrl' = IF pulse /\ block_rd_cnt_lif THEN ctrl + 1 ELSE ctrl
      /\ gen_cnt' = IF wren_word THEN gen_cnt + 1 ELSE gen_cnt
  <2>1. ~end_inference
    BY DEF Run
  <2> QED BY <2>1 DEF Run
<1>3. pulse /\ block_rd_cnt_lif => ctrl < Neurons(layer)
  <2>1. CASE single
    BY <1>1, <1>2, <2>1, NoExtras, LayerFacts
  <2>2. CASE ~single
    <3>1. ctrl \in Nat /\ ctrl <= Neurons(layer) /\ Neurons(layer) = 4 * n
          /\ n \in Nat \ {0}
      BY <1>1, <2>2, LayerFacts DEF SlotsInOrder, TypeOK
    <3> QED BY <3>1 DEF block_rd_cnt_lif
  <2> QED BY <2>1, <2>2
<1>4. SlotsInOrder' /\ ExtrasLast'
  BY <1>1, <1>2, <1>3, OrderKept
<1>5. TypeOK'
  <2>1. lif' \in [Stage -> Int] /\ block_wr' \subseteq Stage
    BY <1>1, <1>2, Shifted
  <2>2. /\ s2p' \in [cnt : {0, 1}, valid : BOOLEAN]
        /\ rev' \in [cnt : {0, 1}, valid : BOOLEAN]
    BY <1>1, <1>2 DEF TypeOK, PipeEdge, Convert
  <2>3. NEURON \in Nat \ {0} /\ Layers[layer].gap \in Nat
    BY <1>1, LayerFacts
  <2>4. since' \in Nat /\ ctrl' \in Nat /\ gen_cnt' \in Nat
    BY <1>1, <1>2, <2>3 DEF TypeOK, Since
  <2>5. rd_cnt' \in 0 .. NEURON - 1 /\ wr_cnt' \in 0 .. NEURON - 1
    BY <1>1, <1>2, <2>3 DEF TypeOK, RingEdge, NextSlot
  <2> QED BY <1>1, <1>2, <2>1, <2>2, <2>4, <2>5 DEF TypeOK, Layer, Stage, NEURON
<1>6. WordsCounted'
  <2>1. CASE single
    BY <1>2, <2>1 DEF WordsCounted, single
  <2>2. CASE ~single
    BY <1>1, <1>2, <2>2, WordsKept
  <2> QED BY <2>1, <2>2
<1>7. OneAtATime'
  <2>1. CASE ~single
    BY <1>2, <2>1 DEF OneAtATime, single
  <2>2. CASE single
    BY <1>1, <1>2, <2>2, ApartKept
  <2> QED BY <2>1, <2>2
<1>8. Ended'
  BY <1>2 DEF Ended
<1> QED BY <1>4, <1>5, <1>6, <1>7, <1>8 DEF IInv

(* The invariant is inductive: every edge of the clock keeps it.           *)
THEOREM Inductive == Spec => []IInv
<1>1. IInv /\ [Next]_vars => IInv'
  <2> SUFFICES ASSUME IInv, [Next]_vars PROVE IInv'
    OBVIOUS
  <2>1. ASSUME NEW pulse \in BOOLEAN, NEW end_inference \in BOOLEAN,
               Run(pulse, end_inference)
        PROVE  IInv'
    BY <2>1, EndStep, GoesOnStep
  <2>2. ASSUME NEW pulse \in BOOLEAN, Clr(pulse) PROVE IInv'
    BY <2>2, ClrStep
  <2>3. CASE Idle
    BY <2>3, IdleStep
  <2>4. CASE Start
    BY <2>4, StartStep
  <2>5. CASE Reset
    BY <2>5, ResetStep DEF IInv
  <2>6. CASE UNCHANGED vars
    <3>1. /\ phase' = phase /\ layer' = layer /\ since' = since /\ ctrl' = ctrl
          /\ block_wr' = block_wr /\ lif' = lif /\ s2p' = s2p /\ rev' = rev
          /\ gen_cnt' = gen_cnt /\ rd_cnt' = rd_cnt /\ wr_cnt' = wr_cnt
      BY <2>6 DEF vars
    <3>2. TypeOK' /\ SlotsInOrder'
      <4>1. TypeOK'
        BY <3>1 DEF IInv, TypeOK, NEURON, Layer, Stage
      <4>2. /\ Slot(ctrl)' = Slot(ctrl) /\ Pending(5)' = Pending(5)
            /\ Slot(ctrl - Pending(5))' = Slot(ctrl - Pending(5))
            /\ Neurons(layer)' = Neurons(layer) /\ Stage' = Stage
            /\ \A i \in Stage : /\ Held(i)' = Held(i)
                                /\ Slot(ctrl - Pending(i))' = Slot(ctrl - Pending(i))
        BY <3>1 DEF Slot, Held, Pending, Neurons, NEURON, Stage
      <4> QED BY <3>1, <4>1, <4>2 DEF IInv, SlotsInOrder
    <3>3. ExtrasLast' /\ WordsCounted'
      BY <3>1 DEF IInv, ExtrasLast, WordsCounted, Delivered, Held, Pending, single, n, Stage
    <3>4. OneAtATime' /\ Ended'
      BY <3>1 DEF IInv, OneAtATime, Ended, Held, Pending, Neurons, single, n, Stage
    <3> QED BY <3>2, <3>3, <3>4 DEF IInv
  <2> QED BY <2>1, <2>2, <2>3, <2>4, <2>5, <2>6 DEF Next
<1> QED BY InitIInv, <1>1, PTL DEF Spec
-----------------------------------------------------------------------------
(* Every component of the state has its type.                              *)
THEOREM TypeCorrect == Spec => []TypeOK
<1>1. IInv => TypeOK
  BY DEF IInv
<1> QED BY Inductive, <1>1, PTL

(* A voltage goes back to the slot it was read from, for every list of     *)
(* layers and whatever the pulses that come after the last neuron.         *)
THEOREM VoltagesReturn == Spec => []VoltageReturns
<1>1. IInv => VoltageReturns
  <2> SUFFICES ASSUME IInv, wren PROVE lif[5] = wr_cnt
    BY DEF VoltageReturns, PIPE_BLOCK
  <2>1. Held(5) = 1
    BY DEF IInv, ExtrasLast, wren, voltage_ready, PIPE_BLOCK, Held, Stage, NONE, EXTRA
  <2>2. phase # "idle"
    BY <2>1 DEF IInv, Ended, Held, Stage, PIPE_BLOCK
  <2> QED BY <2>1, <2>2 DEF IInv, SlotsInOrder, Stage, PIPE_BLOCK
<1> QED BY Inductive, <1>1, PTL

(* A neuron has the same slot in every inference, whatever the layers      *)
(* before it.                                                              *)
THEOREM SlotsFixed == Spec => []SlotOfNeuron
<1>1. IInv => SlotOfNeuron
  <2> SUFFICES ASSUME IInv PROVE SlotOfNeuron
    OBVIOUS
  <2>1. /\ phase # "idle" => ctrl <= Neurons(layer) /\ rd_cnt = (Base[layer] + ctrl) % NEURON
        /\ phase = "idle" => rd_cnt = 0
    BY DEF IInv, SlotsInOrder, Slot, Ended
  <2>2. ctrl \in Nat /\ Neurons(layer) \in Nat
    BY LayerFacts DEF IInv, TypeOK
  <2> QED BY <2>1, <2>2 DEF SlotOfNeuron
<1> QED BY Inductive, <1>1, PTL

(* Clearing the pipeline between two instructions loses no voltage.        *)
THEOREM VoltagesKept == Spec => []NothingLost
<1>1. IInv => NothingLost
  <2> SUFFICES ASSUME IInv, phase \in {"clr", "idle"}
               PROVE  rd_cnt = wr_cnt /\ \A i \in Stage : lif[i] \in {NONE, EXTRA}
    BY DEF NothingLost
  <2>1. CASE phase = "clr"
    <3>1. Pending(5) = 0 /\ rd_cnt = Slot(ctrl) /\ wr_cnt = Slot(ctrl - 0) /\ ctrl \in Nat
      BY <2>1 DEF IInv, Ended, SlotsInOrder, TypeOK
    <3>2. \A i \in 1 .. 5 : Held(i) = 0
      BY <3>1 DEF Pending, Held
    <3> QED BY <3>1, <3>2 DEF Held, Stage, PIPE_BLOCK
  <2>2. CASE phase = "idle"
    BY <2>2 DEF IInv, Ended
  <2> QED BY <2>1, <2>2
<1> QED BY Inductive, <1>1, PTL
=============================================================================
