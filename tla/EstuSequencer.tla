----------------------------- MODULE EstuSequencer -----------------------------
(***************************************************************************)
(* The instruction sequencer of the accelerator: the state machine         *)
(* (fsm_estu.v), the instruction memory with its program counter and its   *)
(* six-word fetch (instr_mem.v), and what ends an instruction (mmu.v).     *)
(*                                                                         *)
(* One step is one rising edge of the clock.  There is one action per      *)
(* state of fsm_estu.v; every action updates all the registers, because    *)
(* every register is clocked at every edge.  A memory word is represented  *)
(* by its address, so that "the decoder sees instruction k" is a fact      *)
(* about the words the fetch has collected.                                *)
(*                                                                         *)
(* An instruction ends in one of three ways (mmu.v:495).  A product of     *)
(* spikes, Q times K transposed, ends by the pipe of its last read         *)
(* address; the last layer by the pulse of its last spike; every other     *)
(* instruction by the number of its results.  The neuron datapath is       *)
(* abstracted to its timing: in RUN it may read a neuron, and the read     *)
(* that completes a word of spikes, or a single spike, yields a result     *)
(* Delay edges later.                                                      *)
(***************************************************************************)
EXTENDS Integers

CONSTANTS
  NumInstr,  (* the num_instr register: address of the last instruction    *)
  Depth,     (* INSTR_MEM_DEPTH, words of the instruction memory           *)
  Sums,      (* addresses of the instructions with mode[2]                 *)
  Matmuls,   (* those with mode zero: products of spikes                   *)
  VGens,     (* those with v_gen_id                                        *)
  UseVs,     (* those with use_v                                           *)
  Neurons,   (* num_output_neurons, by instruction address                 *)
  Delay,     (* edges from the read that completes a result to the result  *)
  CLASSES,   (* spikes of the last layer; 13                               *)
  WINDOW     (* timestep at which the last layer ends the window; 200      *)

NUM_INSTR == 6                   \* words of one instruction
PC_STEP   == 6                   \* "MAGIC NUMBER 6!"
PcSpace   == 256                 \* pc and instr_addr have 8 bits
WORD      == 4                   \* spikes of a word, keys of a read step
Starts    == {a \in 0 .. NumInstr : a % PC_STEP = 0}   \* instruction addresses
VInstrs   == VGens \cup UseVs

ASSUME ProgramAssumption ==
  /\ NumInstr \in Nat \ {0} /\ Depth \in Nat
  /\ NumInstr % PC_STEP = 0
  /\ NumInstr + NUM_INSTR <= Depth
  /\ Depth + NUM_INSTR <= PcSpace

(* An instruction is of one kind, and the last one is none of these four.  *)
(* A product has no number of results (num_output_neurons is 0).           *)
ASSUME DatapathAssumption ==
  /\ Sums \cup Matmuls \cup VInstrs \subseteq Starts \ {NumInstr}
  /\ Sums \cap Matmuls = {} /\ (Sums \cup Matmuls) \cap VInstrs = {}
  /\ VGens \cap UseVs = {}
  /\ Neurons \in [Starts -> Nat]
  /\ \A a \in Starts \ Matmuls : Neurons[a] > 0
  /\ Delay \in [Starts -> Nat \ {0}]
  /\ CLASSES \in Nat \ {0, 1} /\ WINDOW \in Nat

VARIABLES
  state,    (* state of fsm_estu                                           *)
  pc,       (* program counter                                             *)
  shift,    (* en_shift_fetch_instr: the bits that are set                 *)
  offset,   (* instr_addr_offset                                           *)
  dout,     (* output register of the memory: address of the word in it    *)
  partial,  (* instruction_out_partial: the words collected                *)
  en_pipe,  (* the bits that are set                                       *)
  cnt,      (* read address counter of a product, in steps of four keys    *)
  pipe_valid_data, (* the bits that are set; of products only              *)
  group,    (* reads of the word of spikes under assembly                  *)
  lif,      (* stages of the datapath that hold a result                   *)
  counted,  (* results written for the current instruction                 *)
  v_ptr,    (* rows of V generated in this window                          *)
  selector, (* ctrl_reg_ll: position of its bit, CLASSES once shifted out  *)
  valid_dout_ll

fetchVars == <<shift, offset, dout, partial>>
readVars == <<en_pipe, cnt, pipe_valid_data>>
resultVars == <<group, lif, counted, v_ptr, selector, valid_dout_ll>>
vars == <<state, pc, fetchVars, readVars, resultVars>>

ZERO == -1                       \* a word register that has been cleared

States == {"IDLE", "CLR", "FETCH", "WAIT_INSTR", "CHECK_V", "READ_AE",
           "LOAD_AE", "SAVE_AE", "RUN", "VALID_OP"}
-----------------------------------------------------------------------------
(* What the decoder makes of the collected words. *)

en             == state = "RUN"
sum_op         == partial[0] \in Sums
matmul_ss_id   == en /\ partial[0] \in Matmuls
v_gen_id       == partial[0] \in VGens
use_v          == partial[0] \in UseVs
use_v_or_v_gen == v_gen_id \/ use_v
\* Mutant: the comparison looks at the program counter after its increment.
MutLastInstr == pc + PC_STEP = NumInstr

last_instr     == pc = NumInstr
valid_instr    == NUM_INSTR - 1 \in shift
-----------------------------------------------------------------------------
(* What ends an instruction. *)

timestep == v_ptr \div 4
gen_cnt  == IF partial[0] \in Matmuls THEN counted \div WORD ELSE counted

\* The number of results is in the second word.
valid_read_op ==
  /\ en /\ partial[1] - 1 \in Starts
  /\ gen_cnt = Neurons[partial[1] - 1]

\* Mutants: a product ends by the tap before, with its last score missing;
\* the pulse of the last layer is left out.
MutDataOpTap ==
  IF matmul_ss_id THEN 2 \in pipe_valid_data ELSE valid_read_op \/ valid_dout_ll
MutDataOpPulse ==
  IF matmul_ss_id THEN 3 \in pipe_valid_data ELSE valid_read_op

\* valid_dout_ll lasts one edge, so it is o_valid_last_layer_pulse.
o_valid_data_op ==
  IF matmul_ss_id THEN 3 \in pipe_valid_data ELSE valid_read_op \/ valid_dout_ll
-----------------------------------------------------------------------------
(* The instruction memory, at one edge. *)

\* Mutants: the word counter stops one word early, or two words late.
MutEnOffsetShort(fetch) == fetch \/ shift \cap (0 .. 2) # {}
MutEnOffsetLong(fetch) == fetch \/ shift # {}

EnOffset(fetch) == fetch \/ shift \cap (0 .. 3) # {}
RdEnable(fetch) == EnOffset(fetch) \/ NUM_INSTR - 2 \in shift
InstrAddr       == (pc + offset) % PcSpace

FetchEdge(clr, fetch) ==
  /\ shift' = IF clr THEN {}
              ELSE {i + 1 : i \in shift \ {NUM_INSTR - 1}}
                     \cup (IF fetch THEN {0} ELSE {})
  /\ offset' = IF clr THEN 0
               ELSE IF EnOffset(fetch) THEN (offset + 1) % 8 ELSE offset
  /\ dout' = IF RdEnable(fetch) THEN InstrAddr ELSE dout
  /\ partial' = IF clr THEN [i \in 0 .. NUM_INSTR - 1 |-> ZERO]
                ELSE [i \in 0 .. NUM_INSTR - 1 |->
                        IF i \in shift THEN dout ELSE partial[i]]

NextPc == (pc + PC_STEP) % PcSpace

-----------------------------------------------------------------------------
(* The datapath, at one edge.  read is a neuron being read                 *)
(* (valid_read_data of an instruction with mode[3]); sums and products     *)
(* read at every edge once their pipe is full.                             *)

valid_read_data(read) ==
  CASE sum_op                 -> en /\ 3 \in en_pipe /\ ~o_valid_data_op
    [] matmul_ss_id           -> 2 \in en_pipe /\ ~o_valid_data_op
    [] ~sum_op /\ ~matmul_ss_id -> read

valid_datapath == partial[0] \in Starts /\ Delay[partial[0]] \in lif

valid_result(read) ==
  IF sum_op \/ matmul_ss_id THEN valid_read_data(read) ELSE valid_datapath

(* The read addresses of a product: four keys at an edge, up to the key of *)
(* this timestep; then the counter restarts and the pipe takes the pulse.  *)
valid1 == matmul_ss_id /\ cnt = timestep

ReadEdge(clr, read) ==
  LET clears == clr \/ (use_v /\ valid_read_data(read))
  IN  /\ en_pipe' = IF clears THEN {}
                    ELSE {i + 1 : i \in en_pipe \ {3}} \cup (IF en THEN {0} ELSE {})
      /\ cnt' = IF clr \/ valid1 THEN 0
                ELSE IF matmul_ss_id THEN cnt + 1 ELSE cnt
      /\ pipe_valid_data' =
           IF clears THEN {}
           ELSE {i + 1 : i \in pipe_valid_data \ {3}}
                  \cup (IF valid1 THEN {0} ELSE {})

(* The neurons: clr and valid_instr empty the pipeline and the converters. *)
(* V and the last layer take single spikes, the others words.              *)
en_neuron(read) == read /\ en /\ ~sum_op /\ ~matmul_ss_id /\ ~valid_read_op
single          == v_gen_id \/ last_instr

NeuronEdge(clr, read) ==
  LET depth  == IF partial[0] \in Starts THEN Delay[partial[0]] ELSE 0
      enters == en_neuron(read) /\ (single \/ group = WORD - 1)
  IN  /\ group' = IF clr \/ valid_instr THEN 0
                  ELSE IF en_neuron(read) /\ ~single THEN (group + 1) % WORD
                  ELSE group
      /\ lif' = IF clr \/ valid_instr THEN {}
                ELSE ({i + 1 : i \in lif} \cup (IF enters THEN {1} ELSE {}))
                       \cap (1 .. depth)

(* The results written; the last layer writes none (its w_en is zero).     *)
CountEdge(clr, read) ==
  counted' = IF clr \/ o_valid_data_op THEN 0
             ELSE IF valid_result(read) /\ partial[0] # NumInstr
                  THEN counted + 1 ELSE counted

(* The last layer's results, one bit each, and the end of the window.  The *)
(* host's read of the results (ll_read) restarts the selector.  A result   *)
(* of the instruction before that is still in the datapath while CLR shows *)
(* the last pc advances the selector too; valid_instr then restarts it.    *)
LastLayerEdge(read, ll_read) ==
  LET clr_ll        == valid_instr /\ last_instr
      en_last_layer == valid_result(read) /\ last_instr /\ ~clr_ll
      end_inference == valid_dout_ll /\ timestep = WINDOW
  IN  /\ selector' = IF clr_ll \/ ll_read THEN 0
                     ELSE IF en_last_layer /\ selector < CLASSES
                          THEN selector + 1 ELSE selector
      /\ valid_dout_ll' = (selector = CLASSES - 1 /\ en_last_layer)
      /\ v_ptr' = IF end_inference THEN 0
                  ELSE IF v_gen_id /\ o_valid_data_op THEN v_ptr + 1 ELSE v_ptr

DatapathEdge(clr, read, ll_read) ==
  /\ ReadEdge(clr, read)
  /\ NeuronEdge(clr, read)
  /\ CountEdge(clr, read)
  /\ LastLayerEdge(read, ll_read)
-----------------------------------------------------------------------------
Init ==
  /\ state = "IDLE" /\ pc = 0
  /\ shift = {} /\ offset = 0 /\ dout = ZERO
  /\ partial = [i \in 0 .. NUM_INSTR - 1 |-> ZERO]
  /\ en_pipe = {} /\ cnt = 0 /\ pipe_valid_data = {}
  /\ group = 0 /\ lif = {} /\ counted = 0 /\ v_ptr = 0
  /\ selector = CLASSES /\ valid_dout_ll = FALSE

\* clr_pc is high in IDLE; start_inference is a pulse, seen only here, and the
\* host reads the results only here (ll_read, clr_valid_ll_ext).
Idle(start, ll_read) ==
  /\ state = "IDLE"
  /\ state' = IF start THEN "CLR" ELSE "IDLE"
  /\ pc' = 0
  /\ FetchEdge(FALSE, FALSE)
  /\ DatapathEdge(FALSE, FALSE, ll_read)

Clr ==
  /\ state = "CLR"
  /\ state' = "FETCH"
  /\ pc' = pc
  /\ FetchEdge(TRUE, FALSE)
  /\ DatapathEdge(TRUE, FALSE, FALSE)

Fetch ==
  /\ state = "FETCH"
  /\ state' = "WAIT_INSTR"
  /\ pc' = pc
  /\ FetchEdge(FALSE, TRUE)
  /\ DatapathEdge(FALSE, FALSE, FALSE)

WaitInstr ==
  /\ state = "WAIT_INSTR"
  /\ state' = IF valid_instr THEN "CHECK_V" ELSE "WAIT_INSTR"
  /\ pc' = pc
  /\ FetchEdge(FALSE, FALSE)
  /\ DatapathEdge(FALSE, FALSE, FALSE)

CheckV ==
  /\ state = "CHECK_V"
  /\ state' = IF use_v_or_v_gen THEN "READ_AE" ELSE "RUN"
  /\ pc' = pc
  /\ FetchEdge(FALSE, FALSE)
  /\ DatapathEdge(FALSE, FALSE, FALSE)

\* READ_AE, LOAD_AE and SAVE_AE load the number of active stack entries.
LoadStack ==
  /\ state \in {"READ_AE", "LOAD_AE", "SAVE_AE"}
  /\ state' = CASE state = "READ_AE" -> "LOAD_AE"
                [] state = "LOAD_AE" -> "SAVE_AE"
                [] state = "SAVE_AE" -> "RUN"
  /\ pc' = pc
  /\ FetchEdge(FALSE, FALSE)
  /\ DatapathEdge(FALSE, FALSE, FALSE)

AfterRun(valid_op, read) ==
  CASE valid_op /\ last_instr                 -> "VALID_OP"
    [] valid_op /\ ~last_instr                -> "CLR"
    [] ~valid_op /\ read /\ use_v_or_v_gen    -> "READ_AE"
    [] ~valid_op /\ ~(read /\ use_v_or_v_gen) -> "RUN"

\* Mutant: the program counter is enabled by en instead of valid_op.
MutRun(read) ==
  /\ state = "RUN"
  /\ state' = AfterRun(o_valid_data_op, read)
  /\ pc' = NextPc
  /\ FetchEdge(FALSE, FALSE)
  /\ DatapathEdge(FALSE, read, FALSE)

Run(read) ==
  /\ state = "RUN"
  /\ state' = AfterRun(o_valid_data_op, read)
  /\ pc' = IF o_valid_data_op THEN NextPc ELSE pc
  /\ FetchEdge(FALSE, FALSE)
  /\ DatapathEdge(FALSE, read, FALSE)

ValidOp ==
  /\ state = "VALID_OP"
  /\ state' = "IDLE"
  /\ pc' = pc
  /\ FetchEdge(FALSE, FALSE)
  /\ DatapathEdge(FALSE, FALSE, FALSE)

Next ==
  \/ \E start, ll_read \in BOOLEAN : Idle(start, ll_read)
  \/ Clr \/ Fetch \/ WaitInstr \/ CheckV \/ LoadStack
  \/ \E read \in BOOLEAN : Run(read)
  \/ ValidOp

Spec == Init /\ [][Next]_vars

(* The clock ticks, and an operation that is given RUN cycles again and    *)
(* again reads its next neuron: the read address generator and the stack   *)
(* need a bounded number of enabled cycles for each neuron.  Sums and      *)
(* products need the clock only.                                           *)
Fairness == WF_vars(Next) /\ SF_vars(Run(TRUE))

LiveSpec == Spec /\ Fairness
=============================================================================
