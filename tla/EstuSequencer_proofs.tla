-------------------------- MODULE EstuSequencer_proofs --------------------------
(***************************************************************************)
(* Proofs about the instruction sequencer, for every program, every memory *)
(* depth, every depth of the datapath and every length of the window.      *)
(***************************************************************************)
EXTENDS EstuSequencerProps, TLAPS

(* Where the program counter can be, by state.                             *)
PcInv ==
  /\ state \notin {"IDLE", "VALID_OP"} => pc \in Starts
  /\ state = "VALID_OP" => pc = NumInstr + PC_STEP
  /\ state = "IDLE" => pc \in {0, NumInstr + PC_STEP}

(* Where the fetch is: the bit of the shift register that is set, the      *)
(* word counter and the memory's output register move together.            *)
FetchInv ==
  /\ state # "WAIT_INSTR" => shift = {}
  /\ state = "FETCH" => offset = 0
  /\ state = "WAIT_INSTR" =>
       \E j \in Words :
         /\ shift = {j}
         /\ offset = (IF j < NUM_INSTR - 1 THEN j + 1 ELSE NUM_INSTR - 1)
         /\ dout = pc + j
         /\ \A i \in Words : i < j => partial[i] = pc + i

(* Between the clear and RUN nothing is in flight and nothing is counted.  *)
QuietInv ==
  state \in {"FETCH", "WAIT_INSTR", "CHECK_V"} =>
    /\ lif = {} /\ en_pipe = {} /\ pipe_valid_data = {}
    /\ group = 0 /\ cnt = 0 /\ counted = 0

(* An instruction that loads the stack for each neuron has its results at  *)
(* least four edges apart, the youngest one as old as the state says.      *)
Youngest == CASE state = "READ_AE" -> 1
              [] state = "LOAD_AE" -> 2
              [] state = "SAVE_AE" -> 3
              [] OTHER             -> 4

Loading == state \in {"READ_AE", "LOAD_AE", "SAVE_AE"}

LoadOnlyForV == Loading => pc \in VInstrs

SpacingInv ==
  state \in Decoding /\ pc \in VInstrs =>
    /\ \A i \in lif : i >= Youngest /\ i <= Delay[pc]
    /\ \A i, j \in lif : i < j => j - i >= 4

(* The number of results is not stepped over.  When it is reached outside  *)
(* RUN, no result is close enough to the end of the datapath to be counted *)
(* before RUN is.                                                          *)
CountInv ==
  state \in Decoding /\ pc \notin Matmuls => counted <= Neurons[pc]

CompletionInv ==
  Loading /\ counted = Neurons[pc] =>
    \A i \in lif : i + 4 - Youngest <= Delay[pc]

(* A product after n edges of RUN: the first pulse of its read addresses   *)
(* enters the pipe at edge timestep, the first score comes at edge 3.      *)
ProductAt(n) ==
  /\ en_pipe = {i \in 0 .. 3 : i < n}
  /\ counted = (IF n < 3 THEN 0 ELSE n - 3)
  /\ n <= timestep => cnt = n /\ pipe_valid_data = {}
  /\ n > timestep => /\ n - timestep - 1 \in pipe_valid_data
                     /\ \A i \in pipe_valid_data : i <= n - timestep - 1

ProductInv ==
  state = "RUN" /\ pc \in Matmuls => \E n \in 0 .. timestep + 4 : ProductAt(n)

(* Outside the last instruction the selector of the last layer stands at   *)
(* its first bit or beyond its last one; in its RUN the pulse says that it *)
(* has just been shifted out, and nothing is written.                      *)
SelectorInv ==
  /\ valid_dout_ll => state = "RUN" /\ pc = NumInstr
  /\ ~(pc = NumInstr /\ state \in {"FETCH", "WAIT_INSTR", "CHECK_V", "RUN"}) =>
       selector \in {0, CLASSES}
  /\ state = "CHECK_V" /\ pc = NumInstr => selector = 0
  /\ state = "RUN" /\ pc = NumInstr =>
       counted = 0 /\ (valid_dout_ll <=> selector = CLASSES)

IInv ==
  /\ TypeOK /\ PcInv /\ FetchInv /\ DecodedAtPc /\ QuietInv
  /\ LoadOnlyForV /\ SpacingInv /\ CountInv /\ CompletionInv
  /\ ProductInv /\ SelectorInv
-----------------------------------------------------------------------------
(* Arithmetic on instruction addresses. *)

(* The words of an instruction lie in the memory and within eight bits.    *)
LEMMA StartFacts ==
  ASSUME NEW a \in Starts
  PROVE  /\ a \in Nat /\ a <= NumInstr /\ a + PC_STEP <= Depth
         /\ a + 2 * NUM_INSTR <= PcSpace
         /\ a # NumInstr => a + PC_STEP \in Starts
BY ProgramAssumption DEF Starts, PC_STEP, NUM_INSTR, PcSpace

(* The timestep is a natural number.                                       *)
LEMMA QuarterType == \A n \in Nat : n \div 4 \in Nat
OBVIOUS

(* There is an instruction at address zero.                                *)
LEMMA FirstStart == 0 \in Starts
BY ProgramAssumption DEF Starts, PC_STEP

(* One edge of the fetch logic keeps the types of its registers.           *)
LEMMA FetchTypes ==
  ASSUME TypeOK, NEW clr \in BOOLEAN, NEW fetch \in BOOLEAN,
         FetchEdge(clr, fetch)
  PROVE  /\ shift' \subseteq Words
         /\ offset' \in 0 .. 7
         /\ dout' \in 0 .. PcSpace - 1 \cup {ZERO}
         /\ partial' \in [Words -> 0 .. PcSpace - 1 \cup {ZERO}]
<1>1. shift' \subseteq Words
  BY DEF TypeOK, FetchEdge, Words, NUM_INSTR
<1>2. offset' \in 0 .. 7
  BY DEF TypeOK, FetchEdge
<1>3. dout' \in 0 .. PcSpace - 1 \cup {ZERO}
  BY ProgramAssumption DEF TypeOK, FetchEdge, InstrAddr, PcSpace
<1>4. partial' \in [Words -> 0 .. PcSpace - 1 \cup {ZERO}]
  BY DEF TypeOK, FetchEdge, Words
<1> QED BY <1>1, <1>2, <1>3, <1>4

(* One edge of the datapath keeps the types of its registers.              *)
LEMMA DatapathTypes ==
  ASSUME TypeOK, NEW clr \in BOOLEAN, NEW read \in BOOLEAN,
         NEW ll_read \in BOOLEAN, DatapathEdge(clr, read, ll_read)
  PROVE  /\ en_pipe' \subseteq 0 .. 3 /\ pipe_valid_data' \subseteq 0 .. 3
         /\ cnt' \in Nat /\ counted' \in Nat /\ v_ptr' \in Nat
         /\ group' \in 0 .. WORD - 1
         /\ lif' \subseteq Nat \ {0}
         /\ selector' \in 0 .. CLASSES
         /\ valid_dout_ll' \in BOOLEAN
<1>1. en_pipe' \subseteq 0 .. 3 /\ pipe_valid_data' \subseteq 0 .. 3 /\ cnt' \in Nat
  <2>1. ReadEdge(clr, read)
    BY DEF DatapathEdge
  <2>2. en_pipe' \subseteq 0 .. 3
    BY <2>1 DEF ReadEdge, TypeOK
  <2>3. pipe_valid_data' \subseteq 0 .. 3
    BY <2>1 DEF ReadEdge, TypeOK
  <2>4. cnt' \in Nat
    BY <2>1 DEF ReadEdge, TypeOK
  <2> QED BY <2>2, <2>3, <2>4
<1>2. group' \in 0 .. WORD - 1 /\ lif' \subseteq Nat \ {0}
  <2>1. NeuronEdge(clr, read)
    BY DEF DatapathEdge
  <2>2. group' \in 0 .. WORD - 1
    BY <2>1 DEF NeuronEdge, TypeOK, WORD
  <2>3. lif' \subseteq Nat \ {0}
    BY <2>1 DEF NeuronEdge, TypeOK
  <2> QED BY <2>2, <2>3
<1>3. counted' \in Nat
  BY DEF DatapathEdge, CountEdge, TypeOK
<1>4. selector' \in 0 .. CLASSES /\ valid_dout_ll' \in BOOLEAN /\ v_ptr' \in Nat
  BY DatapathAssumption DEF DatapathEdge, LastLayerEdge, TypeOK
<1> QED BY <1>1, <1>2, <1>3, <1>4

(* The kinds of instructions exclude each other.                           *)
LEMMA Kinds ==
  /\ pc \in VInstrs => pc \notin Sums /\ pc \notin Matmuls /\ pc # NumInstr
  /\ pc \in Sums => pc \notin Matmuls /\ pc # NumInstr
  /\ pc \in Matmuls => pc # NumInstr
BY DatapathAssumption

(* Without clr and fetch, and with nothing in the shift register, an edge  *)
(* leaves the decoded instruction alone.                                   *)
LEMMA FetchQuiet ==
  ASSUME TypeOK, shift = {}, FetchEdge(FALSE, FALSE)
  PROVE  shift' = {} /\ offset' = offset /\ partial' = partial
<1>1. shift' = {}
  BY DEF FetchEdge
<1>2. offset' = offset
  BY DEF FetchEdge, EnOffset
<1>3. partial' = partial
  BY DEF FetchEdge, TypeOK, Words
<1> QED BY <1>1, <1>2, <1>3
-----------------------------------------------------------------------------
(* The decoded instruction is the one at pc, and so is its number of       *)
(* results.                                                                *)
LEMMA DecodedFacts ==
  ASSUME IInv, state \in Decoding
  PROVE  pc \in Starts /\ pc \in Nat /\ partial[0] = pc /\ partial[1] - 1 = pc
<1>1. pc \in Starts
  BY DEF IInv, PcInv, Decoding
<1>2. pc \in Nat
  BY <1>1, StartFacts
<1>3. partial[0] = pc + 0 /\ partial[1] = pc + 1
  BY DEF IInv, DecodedAtPc, Words, NUM_INSTR
<1> QED BY <1>1, <1>2, <1>3

(* The end of an instruction (mmu.v:495), by the kind of the instruction.  *)
LEMMA OpFacts ==
  ASSUME IInv
  PROVE  /\ o_valid_data_op \in BOOLEAN
         /\ state # "RUN" => ~o_valid_data_op
         /\ state = "RUN" /\ pc \in Matmuls =>
              (o_valid_data_op <=> 3 \in pipe_valid_data)
         /\ state = "RUN" /\ pc = NumInstr => (o_valid_data_op <=> valid_dout_ll)
         /\ state = "RUN" /\ pc \notin Matmuls /\ pc # NumInstr =>
              (o_valid_data_op <=> counted = Neurons[pc])
<1>1. o_valid_data_op \in BOOLEAN
  <2>1. valid_dout_ll \in BOOLEAN
    BY DEF IInv, TypeOK
  <2>2. CASE matmul_ss_id
    BY <2>2 DEF o_valid_data_op
  <2>3. CASE ~matmul_ss_id
    BY <2>1, <2>3 DEF o_valid_data_op
  <2> QED BY <2>2, <2>3 DEF matmul_ss_id
<1>2. ASSUME state # "RUN" PROVE ~o_valid_data_op
  BY <1>2 DEF o_valid_data_op, valid_read_op, matmul_ss_id, en, IInv, SelectorInv
<1>3. ASSUME state = "RUN"
      PROVE  /\ pc \in Starts /\ partial[0] = pc /\ partial[1] - 1 = pc
             /\ en /\ (matmul_ss_id <=> pc \in Matmuls)
             /\ pc \notin Matmuls => (valid_read_op <=> counted = Neurons[pc])
  <2>1. pc \in Starts /\ partial[0] = pc /\ partial[1] - 1 = pc
    BY <1>3, DecodedFacts DEF Decoding
  <2>2. en /\ (matmul_ss_id <=> pc \in Matmuls)
    BY <1>3, <2>1 DEF en, matmul_ss_id
  <2>3. ASSUME pc \notin Matmuls PROVE valid_read_op <=> counted = Neurons[pc]
    BY <2>1, <2>2, <2>3 DEF valid_read_op, gen_cnt
  <2> QED BY <2>1, <2>2, <2>3
<1>4. ASSUME state = "RUN", pc \in Matmuls
      PROVE  o_valid_data_op <=> 3 \in pipe_valid_data
  BY <1>3, <1>4 DEF o_valid_data_op
<1>5. ASSUME state = "RUN", pc = NumInstr
      PROVE  o_valid_data_op <=> valid_dout_ll
  <2>1. pc \in Starts \ Matmuls
    BY <1>3, <1>5, Kinds
  <2>2. counted = 0 /\ Neurons[pc] > 0
    BY <1>5, <2>1, DatapathAssumption DEF IInv, SelectorInv
  <2>3. ~valid_read_op
    BY <1>3, <1>5, <2>1, <2>2
  <2> QED BY <1>3, <1>5, <2>1, <2>3 DEF o_valid_data_op
<1>6. ASSUME state = "RUN", pc \notin Matmuls, pc # NumInstr
      PROVE  o_valid_data_op <=> counted = Neurons[pc]
  <2>1. ~valid_dout_ll
    BY <1>6 DEF IInv, SelectorInv
  <2> QED BY <1>3, <1>6, <2>1 DEF o_valid_data_op
<1> QED BY <1>1, <1>2, <1>4, <1>5, <1>6

(* An edge that clears leaves nothing in flight; one late result of the    *)
(* instruction before does not bring the selector to its last bit.         *)
LEMMA ClearingEdge ==
  ASSUME IInv, state = "CLR", DatapathEdge(TRUE, FALSE, FALSE)
  PROVE  /\ lif' = {} /\ en_pipe' = {} /\ pipe_valid_data' = {}
         /\ group' = 0 /\ cnt' = 0 /\ counted' = 0
         /\ valid_dout_ll' = FALSE
         /\ pc # NumInstr => selector' \in {0, CLASSES}
<1>1. selector \in {0, CLASSES}
  BY DEF IInv, SelectorInv
<1>2. en_pipe' = {} /\ pipe_valid_data' = {} /\ cnt' = 0
  BY DEF DatapathEdge, ReadEdge
<1>3. lif' = {} /\ group' = 0 /\ counted' = 0
  BY DEF DatapathEdge, NeuronEdge, CountEdge
<1>4. selector # CLASSES - 1
  BY <1>1, DatapathAssumption
<1>5. valid_dout_ll' = FALSE /\ (pc # NumInstr => selector' \in {0, CLASSES})
  BY <1>1, <1>4 DEF DatapathEdge, LastLayerEdge, last_instr
<1> QED BY <1>2, <1>3, <1>5

(* While an instruction is fetched and decoded the datapath rests, but for *)
(* the selector that valid_instr presets for the last layer.               *)
LEMMA QuietEdge ==
  ASSUME IInv, state \in {"FETCH", "WAIT_INSTR", "CHECK_V"},
         DatapathEdge(FALSE, FALSE, FALSE)
  PROVE  /\ lif' = {} /\ en_pipe' = {} /\ pipe_valid_data' = {}
         /\ group' = 0 /\ cnt' = 0 /\ counted' = 0
         /\ valid_dout_ll' = FALSE
         /\ selector' = IF valid_instr /\ pc = NumInstr THEN 0 ELSE selector
<1>1. /\ lif = {} /\ en_pipe = {} /\ pipe_valid_data = {}
      /\ group = 0 /\ cnt = 0 /\ counted = 0
  BY DEF IInv, QuietInv
<1>2. ~en /\ ~matmul_ss_id /\ ~valid1 /\ ~en_neuron(FALSE)
  BY DEF en, matmul_ss_id, valid1, en_neuron
<1>3. ~valid_read_data(FALSE)
  BY <1>2 DEF valid_read_data
<1>4. ~valid_result(FALSE)
  BY <1>1, <1>3 DEF valid_result, valid_datapath
<1>5. en_pipe' = {} /\ pipe_valid_data' = {} /\ cnt' = 0
  BY <1>1, <1>2, <1>3 DEF DatapathEdge, ReadEdge
<1>6. lif' = {} /\ group' = 0
  BY <1>1, <1>2 DEF DatapathEdge, NeuronEdge
<1>7. counted' = 0
  BY <1>1, <1>4 DEF DatapathEdge, CountEdge
<1>8. /\ valid_dout_ll' = FALSE
      /\ selector' = IF valid_instr /\ pc = NumInstr THEN 0 ELSE selector
  BY <1>4 DEF DatapathEdge, LastLayerEdge, last_instr
<1> QED BY <1>5, <1>6, <1>7, <1>8

(* Away from the last instruction the last layer takes no result.          *)
LEMMA LastLayerRests ==
  ASSUME pc # NumInstr, NEW clr \in BOOLEAN, NEW read \in BOOLEAN,
         NEW ll_read \in BOOLEAN, DatapathEdge(clr, read, ll_read)
  PROVE  /\ valid_dout_ll' = FALSE
         /\ selector' = IF ll_read THEN 0 ELSE selector
BY DEF DatapathEdge, LastLayerEdge, last_instr
-----------------------------------------------------------------------------
(* The invariant holds after reset.                                        *)
LEMMA InitIInv == Init => IInv
<1> SUFFICES ASSUME Init PROVE IInv
  OBVIOUS
<1>1. TypeOK
  <2>1. /\ state \in States /\ pc \in 0 .. Depth /\ shift \subseteq Words
        /\ offset \in 0 .. 7 /\ dout \in 0 .. PcSpace - 1 \cup {ZERO}
        /\ partial \in [Words -> 0 .. PcSpace - 1 \cup {ZERO}]
    BY ProgramAssumption DEF Init, States, Words, NUM_INSTR, PcSpace
  <2>2. /\ en_pipe \subseteq 0 .. 3 /\ pipe_valid_data \subseteq 0 .. 3
        /\ cnt \in Nat /\ counted \in Nat /\ v_ptr \in Nat
        /\ group \in 0 .. WORD - 1 /\ lif \subseteq Nat \ {0}
        /\ selector \in 0 .. CLASSES /\ valid_dout_ll \in BOOLEAN
    <3>1. 0 \in 0 .. WORD - 1 /\ CLASSES \in 0 .. CLASSES
      BY DatapathAssumption DEF WORD
    <3>2. valid_dout_ll \in BOOLEAN
      BY DEF Init
    <3>3. en_pipe \subseteq 0 .. 3 /\ pipe_valid_data \subseteq 0 .. 3 /\ lif \subseteq Nat \ {0}
      BY DEF Init
    <3> QED BY <3>1, <3>2, <3>3 DEF Init
  <2> QED BY <2>1, <2>2 DEF TypeOK
<1>2. PcInv /\ FetchInv /\ DecodedAtPc /\ QuietInv /\ LoadOnlyForV
  BY DEF Init, PcInv, FetchInv, DecodedAtPc, QuietInv, LoadOnlyForV, Loading, Decoding
<1>3. SpacingInv /\ CountInv /\ CompletionInv /\ ProductInv /\ SelectorInv
  BY DEF Init, SpacingInv, CountInv, CompletionInv, ProductInv, SelectorInv,
         Loading, Decoding
<1> QED BY <1>1, <1>2, <1>3 DEF IInv

(* Between inferences the host may read the results: the selector restarts.*)
LEMMA IdleStep ==
  ASSUME IInv, NEW start \in BOOLEAN, NEW ll_read \in BOOLEAN, Idle(start, ll_read)
  PROVE  IInv'
<1> USE DEF IInv
<1>1. TypeOK'
  <2>1. state' \in States /\ pc' \in 0 .. Depth
    BY ProgramAssumption DEF Idle, States
  <2> QED BY <2>1, FetchTypes, DatapathTypes DEF Idle, TypeOK
<1>2. PcInv'
  BY FirstStart DEF Idle, PcInv
<1>3. shift' = {}
  BY FetchQuiet DEF Idle, FetchInv
<1>4. FetchInv' /\ DecodedAtPc' /\ QuietInv' /\ LoadOnlyForV'
  BY <1>3 DEF Idle, FetchInv, DecodedAtPc, QuietInv, LoadOnlyForV, Loading, Decoding
<1>5. SpacingInv' /\ CountInv' /\ CompletionInv' /\ ProductInv'
  BY DEF Idle, SpacingInv, CountInv, CompletionInv, ProductInv, Loading, Decoding
<1>6. SelectorInv'
  <2>1. pc # NumInstr
    BY ProgramAssumption DEF Idle, PcInv, PC_STEP
  <2>2. selector \in {0, CLASSES}
    BY DEF Idle, SelectorInv
  <2>3. valid_dout_ll' = FALSE /\ selector' \in {0, CLASSES}
    BY <2>1, <2>2, LastLayerRests DEF Idle
  <2> QED BY <2>3 DEF Idle, SelectorInv
<1> QED BY <1>1, <1>2, <1>4, <1>5, <1>6

(* Clr empties the datapath and the fetch, whatever is in flight.          *)
LEMMA ClrStep ==
  ASSUME IInv, Clr
  PROVE  IInv'
<1> USE DEF IInv
<1>1. TypeOK'
  BY FetchTypes, DatapathTypes DEF Clr, TypeOK, States
<1>2. PcInv' /\ FetchInv'
  BY DEF Clr, PcInv, FetchInv, FetchEdge
<1>3. DecodedAtPc' /\ LoadOnlyForV' /\ SpacingInv' /\ CountInv'
      /\ CompletionInv' /\ ProductInv'
  BY DEF Clr, DecodedAtPc, LoadOnlyForV, SpacingInv, CountInv, CompletionInv,
         ProductInv, Loading, Decoding
<1>4. QuietInv' /\ SelectorInv'
  BY ClearingEdge DEF Clr, QuietInv, SelectorInv
<1> QED BY <1>1, <1>2, <1>3, <1>4

(* The first bit enters the shift register.                                *)
LEMMA FetchStep ==
  ASSUME IInv, Fetch
  PROVE  IInv'
<1> USE DEF IInv
<1>1. TypeOK'
  BY FetchTypes, DatapathTypes DEF Fetch, TypeOK, States
<1>2. PcInv'
  BY DEF Fetch, PcInv
<1>3. shift' = {0} /\ offset' = 1
  BY DEF Fetch, FetchInv, FetchEdge, EnOffset
<1>4. pc \in Starts /\ pc' = pc
  BY DEF Fetch, PcInv
<1>5. dout' = pc
  BY <1>4, StartFacts, ProgramAssumption
  DEF Fetch, FetchInv, FetchEdge, RdEnable, EnOffset, InstrAddr, PcSpace, NUM_INSTR
<1>6. FetchInv'
  <2>1. 0 \in Words
    BY DEF Words, NUM_INSTR
  <2> QED BY <1>3, <1>4, <1>5, <2>1, StartFacts DEF FetchInv, Fetch, NUM_INSTR, Words
<1>7. QuietInv' /\ SelectorInv'
  BY <1>4, QuietEdge DEF Fetch, QuietInv, SelectorInv, FetchInv, valid_instr
<1>8. DecodedAtPc' /\ LoadOnlyForV' /\ SpacingInv' /\ CountInv' /\ CompletionInv'
      /\ ProductInv'
  BY DEF Fetch, DecodedAtPc, LoadOnlyForV, SpacingInv, CountInv, CompletionInv,
         ProductInv, Loading, Decoding
<1> QED BY <1>1, <1>2, <1>6, <1>7, <1>8

(* Each edge collects one word; the sixth one moves on to CHECK_V.         *)
LEMMA WaitInstrStep ==
  ASSUME IInv, WaitInstr
  PROVE  IInv'
<1> USE DEF IInv
<1>1. TypeOK'
  BY FetchTypes, DatapathTypes DEF WaitInstr, TypeOK, States
<1>2. pc \in Starts /\ pc' = pc
  BY DEF WaitInstr, PcInv
<1>3. PcInv'
  BY <1>2 DEF WaitInstr, PcInv
<1>4. PICK j \in Words :
         /\ shift = {j}
         /\ offset = (IF j < NUM_INSTR - 1 THEN j + 1 ELSE NUM_INSTR - 1)
         /\ dout = pc + j
         /\ \A i \in Words : i < j => partial[i] = pc + i
  BY DEF WaitInstr, FetchInv
<1>5. \A i \in Words : i <= j => partial'[i] = pc + i
  BY <1>4, <1>2, StartFacts DEF WaitInstr, FetchEdge, Words, NUM_INSTR
<1>6. /\ lif' = {} /\ counted' = 0 /\ QuietInv'
      /\ valid_dout_ll' = FALSE
      /\ selector' = IF valid_instr /\ pc = NumInstr THEN 0 ELSE selector
  BY QuietEdge DEF WaitInstr, QuietInv
<1>7. /\ SpacingInv' /\ CountInv' /\ CompletionInv' /\ LoadOnlyForV'
      /\ ProductInv' /\ SelectorInv'
  <2>1. state' \in {"WAIT_INSTR", "CHECK_V"} /\ (state' = "CHECK_V" => valid_instr)
    BY DEF WaitInstr
  <2>2. SpacingInv' /\ CompletionInv' /\ LoadOnlyForV' /\ ProductInv'
    BY <2>1, <1>6 DEF SpacingInv, CompletionInv, LoadOnlyForV, ProductInv, Loading
  <2>3. CountInv'
    BY <1>2, <1>6, DatapathAssumption DEF CountInv
  <2>4. SelectorInv'
    BY <1>2, <1>6, <2>1 DEF WaitInstr, SelectorInv
  <2> QED BY <2>2, <2>3, <2>4
<1>8. CASE j = NUM_INSTR - 1
  <2>1. state' = "CHECK_V" /\ shift' = {}
    BY <1>4, <1>8 DEF WaitInstr, valid_instr, FetchEdge
  <2>2. FetchInv' /\ DecodedAtPc'
    BY <2>1, <1>2, <1>5, <1>8 DEF FetchInv, DecodedAtPc, Words, NUM_INSTR
  <2> QED BY <2>2, <1>1, <1>3, <1>6, <1>7
<1>9. CASE j # NUM_INSTR - 1
  <2>1. j \in 0 .. 4 /\ j + 1 \in Words /\ j < 5
    BY <1>9, <1>4 DEF Words, NUM_INSTR
  <2>2. state' = "WAIT_INSTR" /\ shift' = {j + 1}
    BY <1>4, <1>9, <2>1 DEF WaitInstr, valid_instr, FetchEdge, NUM_INSTR
  <2>3. offset = j + 1
    BY <1>4, <2>1 DEF NUM_INSTR
  <2>a. FetchEdge(FALSE, FALSE)
    BY DEF WaitInstr
  <2>b. EnOffset(FALSE) <=> j <= 3
    <3>1. shift = {j}
      BY <1>4
    <3>2. CASE j <= 3
      <4>1. j \in 0 .. 3
        BY <3>2, <2>1
      <4>2. j \in shift \cap (0 .. 3)
        BY <3>1, <4>1, Zenon
      <4> QED BY <4>2, <3>2 DEF EnOffset
    <3>3. CASE ~(j <= 3)
      <4>1. shift \cap (0 .. 3) = {}
        BY <3>1, <3>3, <2>1
      <4> QED BY <4>1, <3>3 DEF EnOffset
    <3> QED BY <3>2, <3>3
  <2>4. offset' = (IF j + 1 < NUM_INSTR - 1 THEN j + 2 ELSE NUM_INSTR - 1)
    <3>1. CASE j <= 3
      <4>1. offset' = ((j + 1) + 1) % 8
        BY <3>1, <2>a, <2>b, <2>3 DEF FetchEdge
      <4> QED BY <4>1, <3>1, <2>1 DEF NUM_INSTR
    <3>2. CASE ~(j <= 3)
      <4>1. offset' = j + 1
        BY <3>2, <2>a, <2>b, <2>3 DEF FetchEdge
      <4> QED BY <4>1, <3>2, <2>1 DEF NUM_INSTR
    <3> QED BY <3>1, <3>2
  <2>5. RdEnable(FALSE)
    <3>1. CASE j <= 3
      BY <3>1, <2>b DEF RdEnable
    <3>2. CASE ~(j <= 3)
      <4>1. j = NUM_INSTR - 2
        BY <3>2, <2>1 DEF NUM_INSTR
      <4> QED BY <4>1, <1>4 DEF RdEnable
    <3> QED BY <3>1, <3>2
  <2>6. dout' = pc + (j + 1)
    <3>1. dout' = (pc + (j + 1)) % PcSpace
      BY <2>a, <2>5, <2>3 DEF FetchEdge, InstrAddr
    <3>2. pc + (j + 1) \in 0 .. 255
      BY <1>2, <2>1, StartFacts DEF PcSpace, NUM_INSTR
    <3> QED BY <3>1, <3>2 DEF PcSpace
  <2>7. \A i \in Words : i < j + 1 => partial'[i] = pc + i
    BY <1>5, <2>1 DEF Words, NUM_INSTR
  <2>8. FetchInv'
    BY <2>1, <2>2, <2>4, <2>6, <2>7, <1>2 DEF FetchInv, NUM_INSTR
  <2>9. DecodedAtPc'
    BY <2>2 DEF DecodedAtPc, Decoding
  <2> QED BY <2>8, <2>9, <1>1, <1>3, <1>6, <1>7
<1> QED BY <1>8, <1>9

(* Decoding is complete and the datapath still empty.                      *)
LEMMA CheckVStep ==
  ASSUME IInv, CheckV
  PROVE  IInv'
<1> USE DEF IInv
<1>1. TypeOK'
  BY FetchTypes, DatapathTypes DEF CheckV, TypeOK, States
<1>2. pc \in Starts /\ pc' = pc /\ state' \in {"READ_AE", "RUN"}
  BY DEF CheckV, PcInv
<1>3. shift' = {} /\ partial' = partial
  BY FetchQuiet DEF CheckV, FetchInv
<1>4. partial[0] = pc
  BY <1>2, StartFacts DEF CheckV, DecodedAtPc, Decoding, Words, NUM_INSTR
<1>5. PcInv' /\ FetchInv' /\ DecodedAtPc'
  BY <1>2, <1>3 DEF CheckV, PcInv, FetchInv, DecodedAtPc, Decoding
<1>6. LoadOnlyForV'
  BY <1>2, <1>4 DEF CheckV, LoadOnlyForV, Loading, use_v_or_v_gen, v_gen_id, use_v, VInstrs
<1>7. /\ lif' = {} /\ en_pipe' = {} /\ pipe_valid_data' = {} /\ cnt' = 0
      /\ counted' = 0 /\ valid_dout_ll' = FALSE /\ selector' = selector
  BY QuietEdge DEF CheckV, FetchInv, valid_instr
<1>8. QuietInv' /\ SpacingInv' /\ CompletionInv'
  BY <1>2, <1>7 DEF QuietInv, SpacingInv, CompletionInv
<1>9. CountInv'
  BY <1>2, <1>7, DatapathAssumption DEF CountInv
<1>10. ProductInv'
  <2>1. timestep' \in Nat
    <3>1. v_ptr' \in Nat
      BY <1>1 DEF TypeOK
    <3>2. v_ptr' \div 4 \in Nat
      BY <3>1, QuarterType
    <3> QED BY <3>2 DEF timestep
  <2>2. ProductAt(0)'
    BY <1>7, <2>1 DEF ProductAt
  <2>3. 0 \in 0 .. timestep' + 4
    <3>1. \A t \in Nat : 0 \in 0 .. t + 4
      OBVIOUS
    <3> QED BY <2>1, <3>1
  <2> QED BY <2>2, <2>3 DEF ProductInv
<1>11. SelectorInv'
  <2>1. pc = NumInstr => state' = "RUN"
    BY <1>2, <1>6, Kinds DEF LoadOnlyForV, Loading
  <2>2. pc = NumInstr => selector = 0
    BY DEF CheckV, SelectorInv
  <2>3. pc # NumInstr => selector \in {0, CLASSES}
    BY DEF CheckV, SelectorInv
  <2>4. 0 # CLASSES
    BY DatapathAssumption
  <2> QED BY <1>2, <1>7, <2>1, <2>2, <2>3, <2>4 DEF SelectorInv
<1> QED BY <1>1, <1>5, <1>6, <1>8, <1>9, <1>10, <1>11

(* Results may be counted outside RUN: their spacing bounds them.          *)
LEMMA LoadStackStep ==
  ASSUME IInv, LoadStack
  PROVE  IInv'
<1> USE DEF IInv
<1>1. TypeOK'
  BY FetchTypes, DatapathTypes DEF LoadStack, TypeOK, States
<1>2. /\ pc \in VInstrs /\ pc' = pc /\ state \in Decoding /\ Loading
      /\ state' \in {"LOAD_AE", "SAVE_AE", "RUN"} /\ Youngest' = Youngest + 1
  BY DEF LoadStack, LoadOnlyForV, Loading, Youngest, Decoding
<1>3. /\ pc \in Starts /\ partial[0] = pc
      /\ pc \notin Sums /\ pc \notin Matmuls /\ pc # NumInstr
  BY <1>2, DecodedFacts, Kinds
<1>4. /\ Youngest \in 1 .. 3 /\ Neurons[pc] \in Nat /\ Delay[pc] \in Nat \ {0}
      /\ counted \in Nat
  BY <1>3, DatapathAssumption DEF LoadStack, Youngest, TypeOK
<1>5. shift' = {} /\ partial' = partial
  BY FetchQuiet DEF LoadStack, FetchInv
<1>6. PcInv' /\ FetchInv' /\ DecodedAtPc' /\ QuietInv' /\ LoadOnlyForV'
  BY <1>2, <1>3, <1>5 DEF PcInv, FetchInv, DecodedAtPc, QuietInv, LoadOnlyForV, Decoding
<1>7. /\ lif' = {i + 1 : i \in lif} \cap (1 .. Delay[pc])
      /\ counted' = IF Delay[pc] \in lif THEN counted + 1 ELSE counted
  <2>1. ~en /\ ~sum_op /\ ~matmul_ss_id /\ ~en_neuron(FALSE) /\ ~o_valid_data_op
        /\ ~valid_instr
    BY <1>3, OpFacts
    DEF LoadStack, en, sum_op, matmul_ss_id, en_neuron, valid_instr, FetchInv
  <2>2. lif' = {i + 1 : i \in lif} \cap (1 .. Delay[pc])
    BY <1>3, <2>1 DEF LoadStack, DatapathEdge, NeuronEdge
  <2>3. counted' = IF Delay[pc] \in lif THEN counted + 1 ELSE counted
    BY <1>3, <2>1 DEF LoadStack, DatapathEdge, CountEdge, valid_result, valid_datapath
  <2> QED BY <2>2, <2>3
<1>8. /\ \A i \in lif : i \in Int /\ i >= Youngest /\ i <= Delay[pc]
      /\ \A i, j \in lif : i < j => j - i >= 4
  BY <1>2 DEF SpacingInv, TypeOK
<1>9. SpacingInv'
  <2>1. \A i \in lif' : i >= Youngest' /\ i <= Delay[pc]
    BY <1>2, <1>4, <1>7, <1>8
  <2>2. \A i, j \in lif' : i < j => j - i >= 4
    BY <1>7, <1>8
  <2> QED BY <1>2, <2>1, <2>2 DEF SpacingInv
<1>10. CountInv'
  <2>1. counted <= Neurons[pc]
    BY <1>2, <1>3 DEF CountInv
  <2>2. CASE counted = Neurons[pc]
    <3>1. \A i \in lif : i + 4 - Youngest <= Delay[pc]
      BY <1>2, <2>2 DEF CompletionInv
    <3>2. Delay[pc] \notin lif
      BY <3>1, <1>4
    <3> QED BY <1>2, <1>4, <1>7, <2>2, <3>2 DEF CountInv
  <2>3. CASE counted # Neurons[pc]
    BY <1>2, <1>4, <1>7, <2>1, <2>3 DEF CountInv
  <2> QED BY <2>2, <2>3
<1>11. CompletionInv'
  <2> SUFFICES ASSUME counted' = Neurons[pc], NEW i \in lif'
               PROVE  i + 4 - Youngest' <= Delay[pc]
    BY <1>2 DEF CompletionInv
  <2>1. PICK k \in lif : i = k + 1 /\ i <= Delay[pc]
    BY <1>7
  <2>2. k \in Int /\ k < Delay[pc]
    BY <1>4, <1>8, <2>1
  <2>3. CASE Delay[pc] \in lif
    <3>1. Delay[pc] - k >= 4
      BY <1>8, <2>2, <2>3
    <3> QED BY <3>1, <2>1, <2>2, <1>2, <1>4
  <2>4. CASE Delay[pc] \notin lif
    <3>1. k + 4 - Youngest <= Delay[pc]
      BY <1>2, <1>7, <2>4 DEF CompletionInv
    <3> QED BY <3>1, <2>1, <2>2, <1>2, <1>4
  <2> QED BY <2>3, <2>4
<1>12. ProductInv' /\ SelectorInv'
  <2>1. valid_dout_ll' = FALSE /\ selector' = selector
    BY <1>3, LastLayerRests DEF LoadStack
  <2> QED BY <1>2, <1>3, <2>1 DEF ProductInv, SelectorInv
<1> QED BY <1>1, <1>6, <1>9, <1>10, <1>11, <1>12

(* After the last instruction nothing starts until IDLE.                   *)
LEMMA ValidOpStep ==
  ASSUME IInv, ValidOp
  PROVE  IInv'
<1> USE DEF IInv
<1>1. TypeOK'
  BY FetchTypes, DatapathTypes DEF ValidOp, TypeOK, States
<1>2. shift' = {}
  BY FetchQuiet DEF ValidOp, FetchInv
<1>3. PcInv' /\ FetchInv' /\ DecodedAtPc' /\ QuietInv' /\ LoadOnlyForV'
  BY <1>2 DEF ValidOp, PcInv, FetchInv, DecodedAtPc, QuietInv, LoadOnlyForV,
              Loading, Decoding
<1>4. SpacingInv' /\ CountInv' /\ CompletionInv' /\ ProductInv'
  BY DEF ValidOp, SpacingInv, CountInv, CompletionInv, ProductInv, Loading, Decoding
<1>5. SelectorInv'
  <2>1. pc # NumInstr
    BY ProgramAssumption DEF ValidOp, PcInv, PC_STEP
  <2>2. valid_dout_ll' = FALSE /\ selector' \in {0, CLASSES}
    BY <2>1, LastLayerRests DEF ValidOp, SelectorInv
  <2> QED BY <2>2 DEF ValidOp, SelectorInv
<1> QED BY <1>1, <1>3, <1>4, <1>5

(* What an edge of RUN does to the pipeline and the count, for an          *)
(* instruction that is no product.                                         *)
LEMMA CountingEdge ==
  ASSUME IInv, state = "RUN", pc \notin Matmuls, pc # NumInstr, ~o_valid_data_op,
         NEW read \in BOOLEAN, DatapathEdge(FALSE, read, FALSE)
  PROVE  /\ counted' <= Neurons[pc]
         /\ pc \in VInstrs =>
              /\ lif' \subseteq ({i + 1 : i \in lif} \cup (IF read THEN {1} ELSE {}))
                                \cap (1 .. Delay[pc])
              /\ counted' = IF Delay[pc] \in lif THEN counted + 1 ELSE counted
<1>1. /\ pc \in Starts /\ partial[0] = pc /\ state \in Decoding
      /\ ~matmul_ss_id /\ ~valid_instr
  BY DecodedFacts DEF Decoding, matmul_ss_id, valid_instr, IInv, FetchInv
<1>2. /\ Neurons[pc] \in Nat /\ counted \in Nat
      /\ counted <= Neurons[pc] /\ counted # Neurons[pc]
  BY <1>1, OpFacts, DatapathAssumption DEF IInv, CountInv, TypeOK
<1>3. counted' = counted \/ counted' = counted + 1
  BY DEF DatapathEdge, CountEdge
<1>4. ASSUME pc \in VInstrs
      PROVE  /\ lif' \subseteq ({i + 1 : i \in lif} \cup (IF read THEN {1} ELSE {}))
                                \cap (1 .. Delay[pc])
             /\ counted' = IF Delay[pc] \in lif THEN counted + 1 ELSE counted
  <2>1. ~sum_op
    BY <1>1, <1>4, Kinds DEF sum_op
  <2>2. lif' \subseteq ({i + 1 : i \in lif} \cup (IF read THEN {1} ELSE {}))
                         \cap (1 .. Delay[pc])
    BY <1>1, <2>1 DEF DatapathEdge, NeuronEdge, en_neuron
  <2>3. counted' = IF Delay[pc] \in lif THEN counted + 1 ELSE counted
    BY <1>1, <2>1 DEF DatapathEdge, CountEdge, valid_result, valid_datapath
  <2> QED BY <2>2, <2>3
<1> QED BY <1>2, <1>3, <1>4

(* An edge of RUN takes a product from its n-th to its next edge.          *)
LEMMA ProductEdge ==
  ASSUME IInv, state = "RUN", pc \in Matmuls, ~o_valid_data_op,
         NEW read \in BOOLEAN, DatapathEdge(FALSE, read, FALSE)
  PROVE  timestep' = timestep /\ \E n \in 0 .. timestep + 4 : ProductAt(n)'
<1>1. /\ pc \in Starts /\ partial[0] = pc /\ state \in Decoding
      /\ pc \notin Sums /\ pc \notin VInstrs /\ pc # NumInstr
  BY DecodedFacts, Kinds DEF Decoding
<1>2. en /\ matmul_ss_id /\ ~sum_op /\ ~use_v /\ ~v_gen_id
  BY <1>1 DEF en, matmul_ss_id, sum_op, use_v, v_gen_id, VInstrs
<1>3. 3 \notin pipe_valid_data /\ ~valid_dout_ll
  BY <1>1, OpFacts DEF IInv, SelectorInv
<1>4. timestep' = timestep
  BY <1>2, <1>3 DEF DatapathEdge, LastLayerEdge, timestep
<1>5. timestep \in Nat
  BY QuarterType DEF IInv, TypeOK, timestep
<1>6. PICK n \in 0 .. timestep + 4 : ProductAt(n)
  BY DEF IInv, ProductInv
<1>7. n < timestep + 4
  BY <1>3, <1>5, <1>6 DEF ProductAt
<1>8. /\ en_pipe' = {i + 1 : i \in en_pipe \ {3}} \cup {0}
      /\ cnt' = IF cnt = timestep THEN 0 ELSE cnt + 1
      /\ pipe_valid_data' = {i + 1 : i \in pipe_valid_data \ {3}}
                              \cup (IF cnt = timestep THEN {0} ELSE {})
  BY <1>2 DEF DatapathEdge, ReadEdge, valid1
<1>9. counted' = IF 2 \in en_pipe THEN counted + 1 ELSE counted
  <2>1. valid_result(read) <=> 2 \in en_pipe
    BY <1>2 DEF valid_result, valid_read_data
  <2> QED BY <1>1, <2>1 DEF DatapathEdge, CountEdge
<1>10. en_pipe' = {i \in 0 .. 3 : i < n + 1}
  BY <1>5, <1>6, <1>8 DEF ProductAt
<1>11. counted' = (IF n + 1 < 3 THEN 0 ELSE (n + 1) - 3)
  BY <1>5, <1>6, <1>9 DEF ProductAt
<1>12. n + 1 <= timestep => cnt' = n + 1 /\ pipe_valid_data' = {}
  BY <1>5, <1>6, <1>8 DEF ProductAt
<1>13. n + 1 > timestep => /\ (n + 1) - timestep - 1 \in pipe_valid_data'
                          /\ \A i \in pipe_valid_data' : i <= (n + 1) - timestep - 1
  <2>1. CASE n <= timestep
    BY <1>5, <1>6, <1>8, <2>1 DEF ProductAt
  <2>2. CASE n > timestep
    <3>1. /\ n - timestep - 1 \in pipe_valid_data
          /\ \A i \in pipe_valid_data : i <= n - timestep - 1
          /\ pipe_valid_data \subseteq 0 .. 3
      BY <1>6, <2>2 DEF ProductAt, IInv, TypeOK
    <3>2. n - timestep - 1 # 3
      BY <1>5, <1>7
    <3>3. (n + 1) - timestep - 1 \in pipe_valid_data'
      <4>1. n - timestep - 1 \in pipe_valid_data \ {3}
        BY <3>1, <3>2
      <4>2. (n - timestep - 1) + 1 \in pipe_valid_data'
        BY <1>8, <4>1
      <4>3. (n - timestep - 1) + 1 = (n + 1) - timestep - 1
        BY <1>5
      <4> QED BY <4>2, <4>3
    <3>4. ASSUME NEW i \in pipe_valid_data' PROVE i <= (n + 1) - timestep - 1
      <4>1. CASE i = 0
        BY <1>5, <2>2, <4>1
      <4>2. CASE i # 0
        <5>1. PICK k \in pipe_valid_data : i = k + 1
          BY <1>8, <4>2
        <5> QED BY <1>5, <3>1, <5>1
      <4> QED BY <4>1, <4>2
    <3> QED BY <3>3, <3>4
  <2> QED BY <1>5, <2>1, <2>2
<1>14. ProductAt(n + 1)'
  BY <1>4, <1>10, <1>11, <1>12, <1>13 DEF ProductAt
<1>15. n + 1 \in 0 .. timestep + 4
  BY <1>5, <1>7
<1> QED BY <1>4, <1>14, <1>15

(* An edge of RUN of the last instruction: the pulse follows the result    *)
(* that shifts the selector out.                                           *)
LEMMA LastEdge ==
  ASSUME IInv, state = "RUN", pc = NumInstr,
         NEW read \in BOOLEAN, DatapathEdge(FALSE, read, FALSE)
  PROVE  /\ counted' = 0
         /\ o_valid_data_op => valid_dout_ll' = FALSE /\ selector' = CLASSES
         /\ ~o_valid_data_op => (valid_dout_ll' <=> selector' = CLASSES)
<1>1. partial[0] = NumInstr /\ ~valid_instr /\ last_instr
  BY DecodedFacts DEF Decoding, valid_instr, last_instr, IInv, FetchInv
<1>2. /\ counted = 0 /\ (o_valid_data_op <=> selector = CLASSES)
      /\ selector \in 0 .. CLASSES /\ CLASSES \in Nat
  BY OpFacts, DatapathAssumption DEF IInv, SelectorInv, TypeOK
<1>3. counted' = 0
  BY <1>1, <1>2 DEF DatapathEdge, CountEdge
<1>4. /\ selector' = IF valid_result(read) /\ selector < CLASSES
                     THEN selector + 1 ELSE selector
      /\ valid_dout_ll' = (selector = CLASSES - 1 /\ valid_result(read))
  BY <1>1 DEF DatapathEdge, LastLayerEdge
<1>5. ASSUME o_valid_data_op PROVE valid_dout_ll' = FALSE /\ selector' = CLASSES
  <2>1. selector = CLASSES /\ ~(selector < CLASSES) /\ selector # CLASSES - 1
    BY <1>2, <1>5
  <2>2. selector' = CLASSES
    BY <1>4, <2>1
  <2>3. valid_dout_ll' = FALSE
    BY <1>4, <2>1
  <2> QED BY <2>2, <2>3
<1>6. ASSUME ~o_valid_data_op PROVE valid_dout_ll' <=> selector' = CLASSES
  <2>1. selector < CLASSES /\ selector \in Nat
    BY <1>2, <1>6
  <2>2. CASE valid_result(read)
    <3>1. selector' = selector + 1
      BY <1>4, <2>1, <2>2
    <3>2. selector' = CLASSES <=> selector = CLASSES - 1
      BY <1>2, <2>1, <3>1
    <3>3. valid_dout_ll' <=> selector = CLASSES - 1
      BY <1>4, <2>2
    <3> QED BY <3>2, <3>3
  <2>3. CASE ~valid_result(read)
    <3>1. selector' = selector
      BY <1>4, <2>3
    <3>2. selector' # CLASSES
      BY <1>2, <2>1, <3>1
    <3>3. ~valid_dout_ll'
      BY <1>4, <2>3
    <3> QED BY <3>2, <3>3
  <2> QED BY <2>2, <2>3
<1> QED BY <1>3, <1>5, <1>6

(* RUN, by what ends the instruction.                                      *)
LEMMA RunStep ==
  ASSUME IInv, NEW read \in BOOLEAN, Run(read)
  PROVE  IInv'
<1> USE DEF IInv
<1>1. /\ state = "RUN" /\ state \in Decoding /\ pc \in Starts /\ partial[0] = pc
      /\ DatapathEdge(FALSE, read, FALSE) /\ o_valid_data_op \in BOOLEAN
  BY DecodedFacts, OpFacts DEF Run, Decoding
<1>2. use_v_or_v_gen <=> pc \in VInstrs
  BY <1>1 DEF use_v_or_v_gen, use_v, v_gen_id, VInstrs
<1>3. state' \in {"VALID_OP", "CLR", "READ_AE", "RUN"}
  BY <1>1, <1>2 DEF Run, AfterRun, last_instr
<1>4. shift' = {} /\ partial' = partial
  BY <1>1, FetchQuiet DEF Run, FetchInv
<1>5. TypeOK'
  <2>1. pc' \in 0 .. Depth
    BY <1>1, StartFacts, ProgramAssumption DEF Run, NextPc, PC_STEP, PcSpace, TypeOK, NUM_INSTR
  <2>2. state' \in States
    BY <1>3 DEF States
  <2> QED BY <2>1, <2>2, FetchTypes, DatapathTypes DEF Run, TypeOK
<1>6. pc # NumInstr => valid_dout_ll' = FALSE /\ selector' = selector
  BY <1>1, LastLayerRests
<1>7. CASE o_valid_data_op
  <2>1. pc' = pc + PC_STEP
    BY <1>1, <1>7, StartFacts DEF Run, NextPc, PC_STEP, PcSpace, NUM_INSTR
  <2>2. state' = IF pc = NumInstr THEN "VALID_OP" ELSE "CLR"
    BY <1>7 DEF Run, AfterRun, last_instr
  <2>3. PcInv' /\ FetchInv'
    BY <1>1, <1>4, <2>1, <2>2, StartFacts DEF PcInv, FetchInv
  <2>4. /\ DecodedAtPc' /\ QuietInv' /\ LoadOnlyForV' /\ SpacingInv' /\ CountInv'
        /\ CompletionInv' /\ ProductInv'
    BY <2>2 DEF DecodedAtPc, QuietInv, LoadOnlyForV, SpacingInv, CountInv,
                CompletionInv, ProductInv, Loading, Decoding
  <2>5. valid_dout_ll' = FALSE /\ selector' \in {0, CLASSES}
    <3>1. CASE pc = NumInstr
      BY <1>1, <1>7, <3>1, LastEdge
    <3>2. CASE pc # NumInstr
      BY <1>6, <3>2 DEF SelectorInv
    <3> QED BY <3>1, <3>2
  <2>6. SelectorInv'
    BY <2>2, <2>5 DEF SelectorInv
  <2> QED BY <1>5, <2>3, <2>4, <2>6
<1>8. CASE ~o_valid_data_op
  <2>1. /\ pc' = pc
        /\ state' = IF read /\ pc \in VInstrs THEN "READ_AE" ELSE "RUN"
    BY <1>1, <1>2, <1>8 DEF Run, AfterRun
  <2>2. PcInv' /\ FetchInv' /\ DecodedAtPc' /\ QuietInv' /\ LoadOnlyForV'
    BY <1>1, <1>4, <2>1 DEF PcInv, FetchInv, DecodedAtPc, QuietInv, LoadOnlyForV,
                            Loading, Decoding
  <2>3. CountInv'
    <3>1. CASE pc = NumInstr
      <4>1. counted' = 0 /\ Neurons[pc] \in Nat
        BY <1>1, <3>1, LastEdge, DatapathAssumption
      <4> QED BY <2>1, <4>1 DEF CountInv
    <3>2. CASE pc # NumInstr
      BY <1>1, <1>8, <2>1, <3>2, CountingEdge DEF CountInv
    <3> QED BY <3>1, <3>2
  <2>4. ASSUME pc \in VInstrs
        PROVE  /\ \A i \in lif : i \in 4 .. Delay[pc]
               /\ \A i, j \in lif : i < j => j - i >= 4
               /\ Delay[pc] \in Nat \ {0} /\ Neurons[pc] \in Nat /\ counted \in Nat
               /\ counted <= Neurons[pc] /\ counted # Neurons[pc]
               /\ lif' \subseteq ({i + 1 : i \in lif} \cup (IF read THEN {1} ELSE {}))
                                 \cap (1 .. Delay[pc])
               /\ counted' = IF Delay[pc] \in lif THEN counted + 1 ELSE counted
    <3>1. pc \notin Matmuls /\ pc # NumInstr
      BY <2>4, Kinds
    <3>2. Youngest = 4
      BY <1>1 DEF Youngest
    <3>3. /\ \A i \in lif : i >= 4 /\ i <= Delay[pc]
          /\ \A i, j \in lif : i < j => j - i >= 4
          /\ lif \subseteq Nat
      BY <1>1, <2>4, <3>2 DEF SpacingInv, TypeOK
    <3>4. /\ Delay[pc] \in Nat \ {0} /\ Neurons[pc] \in Nat /\ counted \in Nat
      BY <1>1, DatapathAssumption DEF TypeOK
    <3>5. counted <= Neurons[pc] /\ counted # Neurons[pc]
      BY <1>1, <1>8, <3>1, OpFacts DEF CountInv
    <3>6. /\ lif' \subseteq ({i + 1 : i \in lif} \cup (IF read THEN {1} ELSE {}))
                            \cap (1 .. Delay[pc])
          /\ counted' = IF Delay[pc] \in lif THEN counted + 1 ELSE counted
      BY <1>1, <1>8, <2>4, <3>1, CountingEdge
    <3> QED BY <3>3, <3>4, <3>5, <3>6
  <2>5. SpacingInv'
    <3> SUFFICES ASSUME pc \in VInstrs
                 PROVE  /\ \A i \in lif' : i >= Youngest' /\ i <= Delay[pc]
                        /\ \A i, j \in lif' : i < j => j - i >= 4
      BY <2>1 DEF SpacingInv
    <3>1. CASE read
      <4>1. Youngest' = 1
        BY <2>1, <3>1 DEF Youngest
      <4> QED BY <4>1, <3>1, <2>4
    <3>2. CASE ~read
      <4>1. Youngest' = 4
        BY <2>1, <3>2 DEF Youngest
      <4> QED BY <4>1, <3>2, <2>4
    <3> QED BY <3>1, <3>2
  <2>6. CompletionInv'
    <3> SUFFICES ASSUME state' = "READ_AE", counted' = Neurons[pc], NEW i \in lif'
                 PROVE  i + 4 - Youngest' <= Delay[pc]
      BY <2>1 DEF CompletionInv, Loading
    <3>1. Youngest' = 1 /\ read /\ pc \in VInstrs
      BY <2>1 DEF Youngest
    <3>2. Delay[pc] \in lif
      BY <2>4, <3>1
    <3>3. Delay[pc] \in Nat /\ Delay[pc] >= 4
      BY <2>4, <3>1, <3>2
    <3>4. CASE i = 1
      BY <3>1, <3>3, <3>4
    <3>5. CASE i # 1
      <4>1. PICK k \in lif : i = k + 1 /\ i <= Delay[pc]
        BY <2>4, <3>1, <3>5
      <4>2. k \in 4 .. Delay[pc] /\ Delay[pc] - k >= 4
        BY <2>4, <3>1, <3>2, <3>3, <4>1
      <4> QED BY <4>1, <4>2, <3>1, <3>3
    <3> QED BY <3>4, <3>5
  <2>7. ProductInv'
    <3> SUFFICES ASSUME pc \in Matmuls
                 PROVE  \E n \in 0 .. timestep' + 4 : ProductAt(n)'
      BY <2>1 DEF ProductInv
    <3>1. timestep' = timestep /\ \E n \in 0 .. timestep + 4 : ProductAt(n)'
      BY <1>1, <1>8, ProductEdge
    <3> QED BY <3>1
  <2>8. SelectorInv'
    <3>1. CASE pc = NumInstr
      <4>1. state' = "RUN"
        BY <2>1, <3>1, Kinds
      <4>2. counted' = 0 /\ (valid_dout_ll' <=> selector' = CLASSES)
        BY <1>1, <1>8, <3>1, LastEdge
      <4> QED BY <2>1, <3>1, <4>1, <4>2 DEF SelectorInv
    <3>2. CASE pc # NumInstr
      BY <1>6, <2>1, <3>2 DEF SelectorInv
    <3> QED BY <3>1, <3>2
  <2> QED BY <1>5, <2>2, <2>3, <2>5, <2>6, <2>7, <2>8
<1> QED BY <1>1, <1>7, <1>8
-----------------------------------------------------------------------------
(* Every action keeps the invariant.                                       *)
LEMMA StepIInv == IInv /\ [Next]_vars => IInv'
<1> SUFFICES ASSUME IInv, [Next]_vars PROVE IInv'
  OBVIOUS
<1>1. ASSUME NEW start \in BOOLEAN, NEW ll_read \in BOOLEAN, Idle(start, ll_read)
      PROVE  IInv'
  BY <1>1, IdleStep
<1>2. CASE Clr
  BY <1>2, ClrStep
<1>3. CASE Fetch
  BY <1>3, FetchStep
<1>4. CASE WaitInstr
  BY <1>4, WaitInstrStep
<1>5. CASE CheckV
  BY <1>5, CheckVStep
<1>6. CASE LoadStack
  BY <1>6, LoadStackStep
<1>7. ASSUME NEW read \in BOOLEAN, Run(read) PROVE IInv'
  BY <1>7, RunStep
<1>8. CASE ValidOp
  BY <1>8, ValidOpStep
<1>9. CASE UNCHANGED vars
  <2>1. UNCHANGED <<state, pc, fetchVars, readVars, resultVars>>
    BY <1>9 DEF vars
  <2>2. TypeOK' /\ PcInv' /\ FetchInv' /\ DecodedAtPc' /\ QuietInv' /\ LoadOnlyForV'
    BY <2>1 DEF fetchVars, readVars, resultVars, IInv, TypeOK, PcInv, FetchInv,
                DecodedAtPc, QuietInv, LoadOnlyForV, Loading
  <2>3. SpacingInv' /\ CountInv' /\ CompletionInv' /\ ProductInv' /\ SelectorInv'
    BY <2>1 DEF fetchVars, readVars, resultVars, IInv, SpacingInv, CountInv,
                CompletionInv, ProductInv, ProductAt, SelectorInv, Loading,
                Youngest, timestep
  <2> QED BY <2>2, <2>3 DEF IInv
<1> QED BY <1>1, <1>2, <1>3, <1>4, <1>5, <1>6, <1>7, <1>8, <1>9 DEF Next

(* The inductive invariant of the sequencer.                               *)
THEOREM Inductive == Spec => []IInv
<1> QED BY InitIInv, StepIInv, PTL DEF Spec

(* Types: the program counter never leaves the instruction memory, whatever *)
(* program is loaded (instr_mem.v: the 8-bit counter does not wrap).       *)
THEOREM TypeCorrect == Spec => []TypeOK
<1>1. IInv => TypeOK
  BY DEF IInv
<1> QED BY <1>1, Inductive, PTL

(* The instruction executed is the one at pc, all six words of it, for     *)
(* every program (instr_mem.v's fetch).                                    *)
THEOREM DecodeCorrect == Spec => []DecodedAtPc
<1>1. IInv => DecodedAtPc
  BY DEF IInv
<1> QED BY <1>1, Inductive, PTL

(* What the invariant says of the yield of an instruction.                 *)
LEMMA YieldFacts == IInv => ResultsOfThisInstruction
<1> SUFFICES ASSUME IInv PROVE ResultsOfThisInstruction
  OBVIOUS
<1>1. timestep \in Nat /\ counted \in Nat /\ selector \in 0 .. CLASSES
  BY QuarterType DEF IInv, TypeOK, timestep
<1>2. state = "CHECK_V" => Yielded = 0
  BY DEF IInv, QuietInv, SelectorInv, Yielded
<1>3. ASSUME state \in Decoding, pc \in Matmuls
      PROVE  /\ Yielded <= Yield
             /\ state = "RUN" /\ o_valid_data_op => Yielded = Yield
  <2>1. Yielded = counted /\ Yield = timestep + 1
    BY <1>3, Kinds DEF Yielded, Yield
  <2>2. state \in {"CHECK_V", "RUN"}
    BY <1>3, Kinds DEF IInv, LoadOnlyForV, Loading, Decoding
  <2>3. CASE state = "CHECK_V"
    BY <1>1, <2>1, <2>3 DEF IInv, QuietInv
  <2>4. CASE state = "RUN"
    <3>1. PICK n \in 0 .. timestep + 4 : ProductAt(n)
      BY <1>3, <2>4 DEF IInv, ProductInv
    <3>2. counted <= timestep + 1
      BY <1>1, <3>1 DEF ProductAt
    <3>3. ASSUME o_valid_data_op PROVE counted = timestep + 1
      <4>1. 3 \in pipe_valid_data
        BY <1>3, <2>4, <3>3, OpFacts
      <4>2. n = timestep + 4
        BY <1>1, <3>1, <4>1 DEF ProductAt
      <4> QED BY <1>1, <3>1, <4>2 DEF ProductAt
    <3> QED BY <2>1, <3>2, <3>3
  <2> QED BY <2>2, <2>3, <2>4
<1>4. ASSUME state \in Decoding, pc = NumInstr
      PROVE  /\ Yielded <= Yield
             /\ state = "RUN" /\ o_valid_data_op => Yielded = Yield
  <2>1. Yielded = selector /\ Yield = CLASSES
    BY <1>4, Kinds DEF Yielded, Yield
  <2>2. selector <= CLASSES
    BY <1>1, DatapathAssumption
  <2>3. state = "RUN" /\ o_valid_data_op => selector = CLASSES
    BY <1>4, OpFacts DEF IInv, SelectorInv
  <2> QED BY <2>1, <2>2, <2>3
<1>5. ASSUME state \in Decoding, pc \notin Matmuls, pc # NumInstr
      PROVE  /\ Yielded <= Yield
             /\ state = "RUN" /\ o_valid_data_op => Yielded = Yield
  <2>1. Yielded = counted /\ Yield = Neurons[pc]
    BY <1>5 DEF Yielded, Yield
  <2> QED BY <1>5, <2>1, OpFacts DEF IInv, CountInv
<1>6. state = "RUN" => state \in Decoding
  BY DEF Decoding
<1> QED BY <1>2, <1>3, <1>4, <1>5, <1>6 DEF ResultsOfThisInstruction, IInv, QuietInv

(* Every instruction starts from an empty datapath and ends with exactly   *)
(* its yield, whichever of the three signals of mmu.v:495 ends it: products *)
(* by their read addresses, for every timestep; the last layer by its      *)
(* pulse; the others by a count that is compared for equality, in RUN only, *)
(* and never stepped over, whatever the depth of the datapath.             *)
THEOREM CompletionNotMissed == Spec => []ResultsOfThisInstruction
<1> QED BY YieldFacts, Inductive, PTL

(* The fetch reads only programmed words (instr_mem.v).                    *)
THEOREM FetchSafe == Spec => []FetchInBounds
<1>1. IInv => FetchInBounds
  <2> SUFFICES ASSUME IInv, RdEnable(state = "FETCH")
               PROVE  InstrAddr < NumInstr + NUM_INSTR
    BY DEF FetchInBounds
  <2>1. state \in {"FETCH", "WAIT_INSTR"}
    BY DEF IInv, FetchInv, RdEnable, EnOffset
  <2>2. pc \in Starts /\ offset \in 0 .. NUM_INSTR - 1
    BY <2>1 DEF IInv, PcInv, FetchInv, Words, NUM_INSTR
  <2>3. /\ pc \in Nat /\ pc <= NumInstr /\ pc + NUM_INSTR <= PcSpace
        /\ NumInstr \in Nat
    BY <2>2, StartFacts, ProgramAssumption DEF NUM_INSTR, PcSpace
  <2>4. InstrAddr = pc + offset
    BY <2>2, <2>3 DEF InstrAddr, PcSpace, NUM_INSTR
  <2> QED BY <2>2, <2>3, <2>4 DEF NUM_INSTR
<1> QED BY <1>1, Inductive, PTL
-----------------------------------------------------------------------------
(* What one step does, seen through the refinement mapping. *)

(* The reset state of the sequencer is that of the program.                *)
LEMMA MappedInit == Init => Program!Init
BY DEF Init, Program!Init, MappedPhase, MappedCurrent, Decoding

(* A step is a step of the program or leaves it as it is.                  *)
LEMMA MappedStep ==
  ASSUME IInv, IInv', [Next]_vars
  PROVE  [Program!Next]_(Program!vars)
<1> USE DEF Program!vars, Program!Next
<1>a. state \in Decoding => partial[0] = pc
  BY StartFacts DEF IInv, PcInv, DecodedAtPc, Decoding, Words, NUM_INSTR
<1>b. state' \in Decoding => partial'[0] = pc'
  <2> SUFFICES ASSUME state' \in Decoding PROVE partial'[0] = pc'
    OBVIOUS
  <2>1. 0 \in Words /\ pc' \in Nat
    BY DEF Words, NUM_INSTR, IInv, TypeOK
  <2> QED BY <2>1 DEF IInv, DecodedAtPc
<1>1. ASSUME NEW start \in BOOLEAN, NEW ll_read \in BOOLEAN, Idle(start, ll_read)
      PROVE  Program!Begin \/ UNCHANGED Program!vars
  BY <1>1 DEF Idle, Program!Begin, MappedPhase, MappedCurrent, Decoding
<1>2. ASSUME Clr \/ Fetch PROVE UNCHANGED Program!vars
  BY <1>2 DEF Clr, Fetch, MappedPhase, MappedCurrent, Decoding
<1>3. ASSUME WaitInstr PROVE Program!Issue \/ UNCHANGED Program!vars
  BY <1>3, <1>b DEF WaitInstr, Program!Issue, MappedPhase, MappedCurrent, Decoding
<1>4. ASSUME CheckV \/ LoadStack PROVE UNCHANGED Program!vars
  <2>1. /\ state \in Decoding /\ state' \in Decoding /\ pc' = pc
        /\ state \notin {"IDLE", "VALID_OP", "CLR", "FETCH", "WAIT_INSTR"}
        /\ state' \notin {"IDLE", "VALID_OP", "CLR", "FETCH", "WAIT_INSTR"}
    BY <1>4 DEF CheckV, LoadStack, Decoding
  <2> QED BY <2>1, <1>a, <1>b DEF MappedPhase, MappedCurrent, Decoding
<1>5. ASSUME NEW read \in BOOLEAN, Run(read)
      PROVE  Program!Retire \/ Program!Finish \/ UNCHANGED Program!vars
  <2>1. state = "RUN" /\ state \in Decoding /\ pc \in Starts
    BY <1>5 DEF Run, Decoding, IInv, PcInv
  <2>2. MappedPhase = "execute" /\ MappedCurrent = pc
    BY <2>1, <1>a DEF MappedPhase, MappedCurrent, Decoding
  <2>3. CASE o_valid_data_op /\ last_instr
    <3>1. state' = "VALID_OP"
      BY <2>3, <1>5 DEF Run, AfterRun
    <3> QED BY <3>1, <2>2, <2>3
        DEF Program!Finish, last_instr, MappedPhase, MappedCurrent, Decoding
  <2>4. CASE o_valid_data_op /\ ~last_instr
    <3>1. state' = "CLR" /\ pc' = pc + PC_STEP
      BY <2>1, <2>4, <1>5, StartFacts
      DEF Run, AfterRun, NextPc, PC_STEP, PcSpace, NUM_INSTR
    <3>2. MappedPhase' = "fetch" /\ MappedCurrent' = pc + PC_STEP
      BY <3>1 DEF MappedPhase, MappedCurrent, Decoding
    <3> QED BY <3>2, <2>2, <2>4 DEF Program!Retire, last_instr
  <2>5. CASE ~o_valid_data_op
    <3>1. state' \in {"READ_AE", "RUN"} /\ pc' = pc
      BY <2>5, <1>5 DEF Run, AfterRun
    <3>2. MappedPhase' = "execute" /\ MappedCurrent' = pc
      BY <3>1, <1>b DEF MappedPhase, MappedCurrent, Decoding
    <3> QED BY <3>2, <2>2
  <2> QED BY <2>3, <2>4, <2>5
<1>6. ASSUME ValidOp PROVE UNCHANGED Program!vars
  BY <1>6 DEF ValidOp, MappedPhase, MappedCurrent, Decoding
<1>7. CASE UNCHANGED vars
  BY <1>7 DEF vars, fetchVars, MappedPhase, MappedCurrent, Decoding
<1> QED BY <1>1, <1>2, <1>3, <1>4, <1>5, <1>6, <1>7 DEF Next

(* The sequencer implements the abstract program: every inference executes *)
(* each instruction once and in order, for every program.                  *)
THEOREM Refinement == Spec => RefinesProgram
<1>1. IInv /\ IInv' /\ [Next]_vars => [Program!Next]_(Program!vars)
  BY MappedStep
<1> QED BY MappedInit, <1>1, Inductive, PTL DEF Spec, Program!Spec, RefinesProgram
=============================================================================
